------------------------- MODULE GrallocLockProofs --------------------------
(***************************************************************************)
(* For any number of threads, the lock word of GrallocLock tells who holds *)
(* the buffer, and a thread that writes it has it alone; GrallocLock is an *)
(* implementation of ReadersWriter; its buffer is mapped once and for      *)
(* whoever has its address; and what the CPU wrote is flushed before the   *)
(* next user has the buffer.  The second half is about the mapping.        *)
(***************************************************************************)
EXTENDS GrallocLock, FiniteSetTheorems, TLAPS

Holds(t)  == pc[t] \in AfterCas
Writes(t) == Holds(t) /\ usage[t] \in Writing

\* The parts of the invariant that follow a lock from the thread's read of
\* lockState to its last compare-and-swap.
Alone == \A t, u \in Threads : Writes(t) /\ Holds(u) => u = t

WriteBit == lockState.write <=> \E t \in Threads : Writes(t)

CountHolders == lockState.count = Cardinality(Holders)

\* What the thread read let it try.
ReadFree == \A t \in Threads : pc[t] = "lockcas" => ~Busy(current[t], usage[t])

\* A writer is recorded as the owner until it begins its last swap,
OwnerRecorded == \A t \in Threads :
    Writes(t) /\ pc[t] \notin {"owner", "unlockcas"} => writeOwner = t

\* which takes its lock off what it read.  No other swap can succeed between
\* a writer's read and its swap, so that it needs to read only once: at a
\* second read it would no longer find itself the owner, and leave WRITE set.
SwapUnlocks == \A t \in Threads : pc[t] = "unlockcas" =>
    /\ ~new[t].write /\ new[t].mapped = current[t].mapped
    /\ new[t].count = current[t].count - 1
    /\ usage[t] \in Writing => current[t] = lockState

\* Nobody is in a call before the buffer is registered or once it is gone.
Quiet == phase # "registered" => \A t \in Threads : pc[t] = "idle"

\* Only a buffer that was received is mapped here, so only such a lock is
\* lost; unregistering then clears the lock word.
Mappers == {"map", "mapping", "setmapped", "mapped", "mapfailed", "lost"}
MapsReceived ==
    /\ kind = "own" => /\ lockState.mapped
                       /\ \A t \in Threads :
                             /\ pc[t] \in {"lockcas", "owner", "unlockcas"} => current[t].mapped
                             /\ pc[t] \notin Mappers
    /\ kind = "framebuffer" => \A t \in Threads : pc[t] \notin {"mapfailed", "lost"}

IInv == /\ TypeOK /\ Alone /\ WriteBit /\ CountHolders /\ ReadFree
        /\ OwnerRecorded /\ SwapUnlocks /\ Quiet /\ MapsReceived

-----------------------------------------------------------------------------

\* The fields of the word a lock swaps in.
LEMMA LockedFields ==
    ASSUME NEW w \in States, NEW u
    PROVE  /\ Locked(w, u) \in States
           /\ Locked(w, u).write <=> w.write \/ u \in Writing
           /\ Locked(w, u).mapped = w.mapped
           /\ Locked(w, u).count = w.count + 1
  <1> DEFINE b == w.write \/ u \in Writing
  <1>1. Locked(w, u) = [[w EXCEPT !.write = b] EXCEPT !.count = w.count + 1]
    BY DEF Locked, States
  <1>2. b \in BOOLEAN /\ w.mapped \in BOOLEAN /\ w.count \in Int
    BY DEF States
  <1>3. b <=> w.write \/ u \in Writing
    OBVIOUS
  <1> HIDE DEF b
  <1>4. Locked(w, u) = [write |-> b, mapped |-> w.mapped, count |-> w.count + 1]
    BY <1>1 DEF States
  <1>5. QED BY <1>2, <1>3, <1>4 DEF States

\* The word an unlock prepares, of an owner (b) or another, and its fields.
Prepared(w, b) == [w EXCEPT !.write = @ /\ ~b, !.count = @ - 1]

\* An unlock leaves a word with one lock less, and WRITE clear if the owner's.
LEMMA PreparedFields ==
    ASSUME NEW w \in States, NEW b \in BOOLEAN
    PROVE  /\ Prepared(w, b) \in States
           /\ Prepared(w, b).write <=> w.write /\ ~b
           /\ Prepared(w, b).mapped = w.mapped
           /\ Prepared(w, b).count = w.count - 1
  <1> DEFINE c == w.write /\ ~b
  <1>1. Prepared(w, b) = [[w EXCEPT !.write = c] EXCEPT !.count = w.count - 1]
    BY DEF Prepared, States
  <1>2. c \in BOOLEAN /\ w.mapped \in BOOLEAN /\ w.count \in Int
    BY DEF States
  <1>3. c <=> w.write /\ ~b
    OBVIOUS
  <1> HIDE DEF c
  <1>4. Prepared(w, b) = [write |-> c, mapped |-> w.mapped, count |-> w.count - 1]
    BY <1>1 DEF States
  <1>5. QED BY <1>2, <1>3, <1>4 DEF States

\* As many threads as there are can hold the buffer.
LEMMA HoldersFinite == IsFiniteSet(Holders)
  BY FiniteThreads, FS_Subset DEF Holders

\* A thread that holds the buffer is counted.
LEMMA HolderCounted ==
    ASSUME CountHolders, NEW t \in Threads, Holds(t)
    PROVE  lockState.count # 0
  <1>1. t \in Holders
    BY DEF Holders, Holds
  <1>2. Cardinality(Holders) # 0
    BY <1>1, HoldersFinite, FS_EmptySet
  <1>3. QED BY <1>2 DEF CountHolders

-----------------------------------------------------------------------------
(* One lemma per action: the steps that leave the holders alone first *)

\* The invariant is kept by entering gralloc_lock.
LEMMA LockCallKeeps == ASSUME IInv, NEW t \in Threads, LockCall(t) PROVE IInv'
  <1> USE DEF IInv
  <1>1. TypeOK'
    BY DEF TypeOK, LockCall, Goto, handle, States, PCs, AfterCas, Usages,
           Unlocked, Kinds
  <1>2. Holders' = Holders
    BY DEF TypeOK, LockCall, Goto, handle, Holders, AfterCas, PCs
  <1>3. Alone'
    BY <1>1, <1>2 DEF TypeOK, LockCall, Goto, handle, Alone, Writes, Holds,
                      AfterCas, Writing
  <1>4. WriteBit'
    BY <1>1, <1>2 DEF TypeOK, LockCall, Goto, handle, WriteBit, Writes, Holds,
                      AfterCas, Writing
  <1>5. CountHolders'
    BY <1>1, <1>2 DEF TypeOK, LockCall, Goto, handle, CountHolders
  <1>6. ReadFree'
    BY <1>1, <1>2 DEF TypeOK, LockCall, Goto, handle, ReadFree, Busy
  <1>7. OwnerRecorded'
    BY <1>1, <1>2 DEF TypeOK, LockCall, Goto, handle, OwnerRecorded, Alone,
                      Writes, Holds, AfterCas, Writing
  <1>8. SwapUnlocks'
    BY <1>1, <1>2 DEF TypeOK, LockCall, Goto, handle, SwapUnlocks, Writing
  <1>9. Quiet'
    BY <1>1, <1>2 DEF TypeOK, LockCall, Goto, handle, Quiet
  <1>10. MapsReceived'
    BY <1>1, <1>2 DEF TypeOK, LockCall, Goto, handle, MapsReceived, Mappers
  <1> QED BY <1>1, <1>3, <1>4, <1>5, <1>6, <1>7, <1>8, <1>9, <1>10 DEF IInv

\* The invariant is kept by reading lockState.
LEMMA LockReadKeeps == ASSUME IInv, NEW t \in Threads, LockRead(t) PROVE IInv'
  <1> USE DEF IInv
  <1>1. TypeOK'
    <2>1. pc' \in [Threads -> PCs]
      BY DEF TypeOK, LockRead, Goto, PCs, AfterCas
    <2>2. usage' \in [Threads -> Usages] /\ current' \in [Threads -> States]
      BY DEF TypeOK, LockRead, Usages
    <2>3. QED BY <2>1, <2>2 DEF TypeOK, LockRead, handle
  <1>2. Holders' = Holders
    BY DEF TypeOK, LockRead, Goto, handle, Holders, AfterCas, PCs
  <1>3. Alone'
    BY <1>1, <1>2 DEF TypeOK, LockRead, Goto, handle, Alone, Writes, Holds,
                      AfterCas, Writing
  <1>4. WriteBit'
    BY <1>1, <1>2 DEF TypeOK, LockRead, Goto, handle, WriteBit, Writes, Holds,
                      AfterCas, Writing
  <1>5. CountHolders'
    BY <1>1, <1>2 DEF TypeOK, LockRead, Goto, handle, CountHolders
  <1>6. ReadFree'
    BY <1>1, <1>2 DEF TypeOK, LockRead, Goto, handle, ReadFree, Busy
  <1>7. OwnerRecorded'
    BY <1>1, <1>2 DEF TypeOK, LockRead, Goto, handle, OwnerRecorded, Alone,
                      Writes, Holds, AfterCas, Writing
  <1>8. SwapUnlocks'
    BY <1>1, <1>2 DEF TypeOK, LockRead, Goto, handle, SwapUnlocks, Writing
  <1>9. Quiet'
    BY <1>1, <1>2 DEF TypeOK, LockRead, Goto, handle, Quiet
  <1>10. MapsReceived'
    BY <1>1, <1>2 DEF TypeOK, LockRead, Goto, handle, MapsReceived, Mappers
  <1> QED BY <1>1, <1>3, <1>4, <1>5, <1>6, <1>7, <1>8, <1>9, <1>10 DEF IInv

\* The invariant is kept by recording the writer.
LEMMA StoreOwnerKeeps ==
    ASSUME IInv, NEW t \in Threads, StoreOwner(t) PROVE IInv'
  <1> USE DEF IInv
  <1>1. TypeOK'
    BY DEF TypeOK, StoreOwner, Goto, Forget, States, PCs, AfterCas, Usages,
           Unlocked, Kinds
  <1>2. Holders' = Holders
    BY DEF TypeOK, StoreOwner, Goto, Forget, Holders, AfterCas, PCs
  <1>3. Alone'
    BY <1>1, <1>2 DEF TypeOK, StoreOwner, Goto, Forget, Alone, Writes, Holds,
                      AfterCas, Writing
  <1>4. WriteBit'
    BY <1>1, <1>2 DEF TypeOK, StoreOwner, Goto, Forget, WriteBit, Writes,
                      Holds, AfterCas, Writing
  <1>5. CountHolders'
    BY <1>1, <1>2 DEF TypeOK, StoreOwner, Goto, Forget, CountHolders
  <1>6. ReadFree'
    BY <1>1, <1>2 DEF TypeOK, StoreOwner, Goto, Forget, ReadFree, Busy
  <1>7. OwnerRecorded'
    BY <1>1, <1>2 DEF TypeOK, StoreOwner, Goto, Forget, OwnerRecorded, Alone,
                      Writes, Holds, AfterCas, Writing
  <1>8. SwapUnlocks'
    BY <1>1, <1>2 DEF TypeOK, StoreOwner, Goto, Forget, SwapUnlocks, Writing
  <1>9. Quiet'
    BY <1>1, <1>2 DEF TypeOK, StoreOwner, Goto, Forget, Quiet
  <1>10. MapsReceived'
    BY <1>1, <1>2 DEF TypeOK, StoreOwner, Goto, Forget, MapsReceived, Mappers
  <1> QED BY <1>1, <1>3, <1>4, <1>5, <1>6, <1>7, <1>8, <1>9, <1>10 DEF IInv

\* The invariant is kept by taking sMapLock.
LEMMA MapLockKeeps == ASSUME IInv, NEW t \in Threads, MapLock(t) PROVE IInv'
  <1> USE DEF IInv
  <1>1. TypeOK'
    BY DEF TypeOK, MapLock, Goto, States, PCs, AfterCas, Usages, Unlocked,
           Kinds
  <1>2. Holders' = Holders
    BY DEF TypeOK, MapLock, Goto, Holders, AfterCas, PCs
  <1>3. Alone'
    BY <1>1, <1>2 DEF TypeOK, MapLock, Goto, Alone, Writes, Holds, AfterCas,
                      Writing
  <1>4. WriteBit'
    BY <1>1, <1>2 DEF TypeOK, MapLock, Goto, WriteBit, Writes, Holds, AfterCas,
                      Writing
  <1>5. CountHolders'
    BY <1>1, <1>2 DEF TypeOK, MapLock, Goto, CountHolders
  <1>6. ReadFree'
    BY <1>1, <1>2 DEF TypeOK, MapLock, Goto, ReadFree, Busy
  <1>7. OwnerRecorded'
    BY <1>1, <1>2 DEF TypeOK, MapLock, Goto, OwnerRecorded, Alone, Writes,
                      Holds, AfterCas, Writing
  <1>8. SwapUnlocks'
    BY <1>1, <1>2 DEF TypeOK, MapLock, Goto, SwapUnlocks, Writing
  <1>9. Quiet'
    BY <1>1, <1>2 DEF TypeOK, MapLock, Goto, Quiet
  <1>10. MapsReceived'
    BY <1>1, <1>2 DEF TypeOK, MapLock, Goto, MapsReceived, Mappers
  <1> QED BY <1>1, <1>3, <1>4, <1>5, <1>6, <1>7, <1>8, <1>9, <1>10 DEF IInv

\* The invariant is kept by gralloc_map.
LEMMA MapKeeps == ASSUME IInv, NEW t \in Threads, Map(t) PROVE IInv'
  <1> USE DEF IInv
  <1>1. TypeOK'
    <2>1. /\ base' = base \/ base' = TRUE \/ base' = FALSE
          /\ mappings' = mappings \/ mappings' = mappings + 1
      BY DEF Map
    <2>2. pc' \in [Threads -> PCs]
      BY DEF TypeOK, Map, Goto, PCs, AfterCas
    <2>3. base' \in BOOLEAN
      <3>1. base \in BOOLEAN
        BY DEF TypeOK
      <3>2. QED BY <2>1, <3>1
    <2>6. mappings' \in Int
      <3>1. mappings \in Int
        BY DEF TypeOK
      <3>2. QED BY <2>1, <3>1
    <2>4. UNCHANGED <<kind, phase, lockState, writeOwner, needsFlush, sMapLock,
                      usage, current, new, vaddr>>
      BY DEF Map
    <2>5. QED BY <2>2, <2>3, <2>4, <2>6 DEF TypeOK
  <1>2. Holders' = Holders
    BY DEF TypeOK, Map, Goto, Holders, AfterCas, PCs
  <1>3. Alone'
    BY <1>1, <1>2 DEF TypeOK, Map, Goto, Alone, Writes, Holds, AfterCas,
                      Writing
  <1>4. WriteBit'
    BY <1>1, <1>2 DEF TypeOK, Map, Goto, WriteBit, Writes, Holds, AfterCas,
                      Writing
  <1>5. CountHolders'
    BY <1>1, <1>2 DEF TypeOK, Map, Goto, CountHolders
  <1>6. ReadFree'
    BY <1>1, <1>2 DEF TypeOK, Map, Goto, ReadFree, Busy
  <1>7. OwnerRecorded'
    BY <1>1, <1>2 DEF TypeOK, Map, Goto, OwnerRecorded, Alone, Writes, Holds,
                      AfterCas, Writing
  <1>8. SwapUnlocks'
    BY <1>1, <1>2 DEF TypeOK, Map, Goto, SwapUnlocks, Writing
  <1>9. Quiet'
    BY <1>1, <1>2 DEF TypeOK, Map, Goto, Quiet
  <1>10. MapsReceived'
    BY <1>1, <1>2 DEF TypeOK, Map, Goto, MapsReceived, Mappers
  <1> QED BY <1>1, <1>3, <1>4, <1>5, <1>6, <1>7, <1>8, <1>9, <1>10 DEF IInv

\* The invariant is kept by setting MAPPED.
LEMMA SetMappedKeeps ==
    ASSUME IInv, NEW t \in Threads, SetMapped(t) PROVE IInv'
  <1> USE DEF IInv
  <1>1. TypeOK'
    <2>1. lockState' \in States
      BY DEF TypeOK, SetMapped, States
    <2>2. pc' \in [Threads -> PCs]
      BY DEF TypeOK, SetMapped, Goto, PCs, AfterCas
    <2>3. QED BY <2>1, <2>2 DEF TypeOK, SetMapped
  <1>2. Holders' = Holders
    BY DEF TypeOK, SetMapped, Goto, Holders, AfterCas, PCs
  <1>3. Alone'
    BY <1>1, <1>2 DEF TypeOK, SetMapped, Goto, Alone, Writes, Holds, AfterCas,
                      Writing
  <1>4. WriteBit'
    BY <1>1, <1>2 DEF TypeOK, SetMapped, Goto, WriteBit, Writes, Holds,
                      AfterCas, Writing
  <1>5. CountHolders'
    BY <1>1, <1>2 DEF TypeOK, SetMapped, Goto, CountHolders
  <1>6. ReadFree'
    BY <1>1, <1>2 DEF TypeOK, SetMapped, Goto, ReadFree, Busy
  <1>7. OwnerRecorded'
    BY <1>1, <1>2 DEF TypeOK, SetMapped, Goto, OwnerRecorded, Alone, Writes,
                      Holds, AfterCas, Writing
  <1>8. SwapUnlocks'
    BY <1>1, <1>2 DEF TypeOK, SetMapped, Goto, SwapUnlocks, Writing, Alone,
                      Writes, Holds, AfterCas
  <1>9. Quiet'
    BY <1>1, <1>2 DEF TypeOK, SetMapped, Goto, Quiet
  <1>10. MapsReceived'
    BY <1>1, <1>2 DEF TypeOK, SetMapped, Goto, MapsReceived, Mappers
  <1> QED BY <1>1, <1>3, <1>4, <1>5, <1>6, <1>7, <1>8, <1>9, <1>10 DEF IInv

\* The invariant is kept by giving sMapLock back.
LEMMA MapUnlockKeeps ==
    ASSUME IInv, NEW t \in Threads, MapUnlock(t) PROVE IInv'
  <1> USE DEF IInv
  <1>1. TypeOK'
    BY DEF TypeOK, MapUnlock, Goto, States, PCs, AfterCas, Usages, Unlocked,
           Kinds
  <1>2. Holders' = Holders
    BY DEF TypeOK, MapUnlock, Goto, Holders, AfterCas, PCs
  <1>3. Alone'
    BY <1>1, <1>2 DEF TypeOK, MapUnlock, Goto, Alone, Writes, Holds, AfterCas,
                      Writing
  <1>4. WriteBit'
    BY <1>1, <1>2 DEF TypeOK, MapUnlock, Goto, WriteBit, Writes, Holds,
                      AfterCas, Writing
  <1>5. CountHolders'
    BY <1>1, <1>2 DEF TypeOK, MapUnlock, Goto, CountHolders
  <1>6. ReadFree'
    BY <1>1, <1>2 DEF TypeOK, MapUnlock, Goto, ReadFree, Busy
  <1>7. OwnerRecorded'
    BY <1>1, <1>2 DEF TypeOK, MapUnlock, Goto, OwnerRecorded, Alone, Writes,
                      Holds, AfterCas, Writing
  <1>8. SwapUnlocks'
    BY <1>1, <1>2 DEF TypeOK, MapUnlock, Goto, SwapUnlocks, Writing
  <1>9. Quiet'
    BY <1>1, <1>2 DEF TypeOK, MapUnlock, Goto, Quiet
  <1>10. MapsReceived'
    BY <1>1, <1>2 DEF TypeOK, MapUnlock, Goto, MapsReceived, Mappers
  <1> QED BY <1>1, <1>3, <1>4, <1>5, <1>6, <1>7, <1>8, <1>9, <1>10 DEF IInv

\* The invariant is kept by returning the address.
LEMMA LockReturnKeeps ==
    ASSUME IInv, NEW t \in Threads, LockReturn(t) PROVE IInv'
  <1> USE DEF IInv
  <1>1. TypeOK'
    BY DEF TypeOK, LockReturn, Goto, handle, States, PCs, AfterCas, Usages,
           Unlocked, Kinds
  <1>2. Holders' = Holders
    BY DEF TypeOK, LockReturn, Goto, handle, Holders, AfterCas, PCs
  <1>3. Alone'
    BY <1>1, <1>2 DEF TypeOK, LockReturn, Goto, handle, Alone, Writes, Holds,
                      AfterCas, Writing
  <1>4. WriteBit'
    BY <1>1, <1>2 DEF TypeOK, LockReturn, Goto, handle, WriteBit, Writes,
                      Holds, AfterCas, Writing
  <1>5. CountHolders'
    BY <1>1, <1>2 DEF TypeOK, LockReturn, Goto, handle, CountHolders
  <1>6. ReadFree'
    BY <1>1, <1>2 DEF TypeOK, LockReturn, Goto, handle, ReadFree, Busy
  <1>7. OwnerRecorded'
    BY <1>1, <1>2 DEF TypeOK, LockReturn, Goto, handle, OwnerRecorded, Alone,
                      Writes, Holds, AfterCas, Writing
  <1>8. SwapUnlocks'
    BY <1>1, <1>2 DEF TypeOK, LockReturn, Goto, handle, SwapUnlocks, Writing
  <1>9. Quiet'
    BY <1>1, <1>2 DEF TypeOK, LockReturn, Goto, handle, Quiet
  <1>10. MapsReceived'
    BY <1>1, <1>2 DEF TypeOK, LockReturn, Goto, handle, MapsReceived, Mappers
  <1> QED BY <1>1, <1>3, <1>4, <1>5, <1>6, <1>7, <1>8, <1>9, <1>10 DEF IInv

\* The invariant is kept by entering gralloc_unlock.
LEMMA UnlockCallKeeps ==
    ASSUME IInv, NEW t \in Threads, UnlockCall(t) PROVE IInv'
  <1> USE DEF IInv
  <1>1. TypeOK'
    BY DEF TypeOK, UnlockCall, Goto, handle, States, PCs, AfterCas, Usages,
           Unlocked, Kinds
  <1>2. Holders' = Holders
    BY DEF TypeOK, UnlockCall, Goto, handle, Holders, AfterCas, PCs
  <1>3. Alone'
    BY <1>1, <1>2 DEF TypeOK, UnlockCall, Goto, handle, Alone, Writes, Holds,
                      AfterCas, Writing
  <1>4. WriteBit'
    BY <1>1, <1>2 DEF TypeOK, UnlockCall, Goto, handle, WriteBit, Writes,
                      Holds, AfterCas, Writing
  <1>5. CountHolders'
    BY <1>1, <1>2 DEF TypeOK, UnlockCall, Goto, handle, CountHolders
  <1>6. ReadFree'
    BY <1>1, <1>2 DEF TypeOK, UnlockCall, Goto, handle, ReadFree, Busy
  <1>7. OwnerRecorded'
    BY <1>1, <1>2 DEF TypeOK, UnlockCall, Goto, handle, OwnerRecorded, Alone,
                      Writes, Holds, AfterCas, Writing
  <1>8. SwapUnlocks'
    BY <1>1, <1>2 DEF TypeOK, UnlockCall, Goto, handle, SwapUnlocks, Writing
  <1>9. Quiet'
    BY <1>1, <1>2 DEF TypeOK, UnlockCall, Goto, handle, Quiet
  <1>10. MapsReceived'
    BY <1>1, <1>2 DEF TypeOK, UnlockCall, Goto, handle, MapsReceived, Mappers
  <1> QED BY <1>1, <1>3, <1>4, <1>5, <1>6, <1>7, <1>8, <1>9, <1>10 DEF IInv

\* The invariant is kept by cleaning the cache.
LEMMA FlushKeeps == ASSUME IInv, NEW t \in Threads, Flush(t) PROVE IInv'
  <1> USE DEF IInv
  <1>1. TypeOK'
    BY DEF TypeOK, Flush, Goto, States, PCs, AfterCas, Usages, Unlocked, Kinds
  <1>2. Holders' = Holders
    BY DEF TypeOK, Flush, Goto, Holders, AfterCas, PCs
  <1>3. Alone'
    BY <1>1, <1>2 DEF TypeOK, Flush, Goto, Alone, Writes, Holds, AfterCas,
                      Writing
  <1>4. WriteBit'
    BY <1>1, <1>2 DEF TypeOK, Flush, Goto, WriteBit, Writes, Holds, AfterCas,
                      Writing
  <1>5. CountHolders'
    BY <1>1, <1>2 DEF TypeOK, Flush, Goto, CountHolders
  <1>6. ReadFree'
    BY <1>1, <1>2 DEF TypeOK, Flush, Goto, ReadFree, Busy
  <1>7. OwnerRecorded'
    BY <1>1, <1>2 DEF TypeOK, Flush, Goto, OwnerRecorded, Alone, Writes, Holds,
                      AfterCas, Writing
  <1>8. SwapUnlocks'
    BY <1>1, <1>2 DEF TypeOK, Flush, Goto, SwapUnlocks, Writing
  <1>9. Quiet'
    BY <1>1, <1>2 DEF TypeOK, Flush, Goto, Quiet
  <1>10. MapsReceived'
    BY <1>1, <1>2 DEF TypeOK, Flush, Goto, MapsReceived, Mappers
  <1> QED BY <1>1, <1>3, <1>4, <1>5, <1>6, <1>7, <1>8, <1>9, <1>10 DEF IInv

-----------------------------------------------------------------------------
(* The swaps *)

\* The invariant is kept by the swap of gralloc_lock: a writer finds a word
\* without holders, a reader one without a writer.
LEMMA LockCasKeeps == ASSUME IInv, NEW t \in Threads, LockCas(t) PROVE IInv'
  <1> USE DEF IInv
  <1>0. /\ pc[t] = "lockcas" /\ ~Holds(t)
        /\ UNCHANGED <<kind, phase, writeOwner, needsFlush, base, mappings,
                       sMapLock, usage, new, vaddr>>
    BY DEF LockCas, Holds, AfterCas
  <1>1. CASE lockState # current[t]
    <2>1. /\ lockState' = lockState
          /\ pc' = [pc EXCEPT ![t] = "lock"]
          /\ current' = [current EXCEPT ![t] = Unlocked]
      BY <1>1 DEF LockCas, Goto, Forget
    <2>2. TypeOK'
      BY <1>0, <2>1 DEF TypeOK, States, PCs, Unlocked
    <2>3. Holders' = Holders
      BY <1>0, <2>1 DEF TypeOK, Holders, AfterCas
    <2>4. Alone'
      BY <1>0, <2>1, <2>3 DEF TypeOK, Alone, Writes, Holds, AfterCas, Writing
    <2>5. WriteBit'
      BY <1>0, <2>1, <2>3 DEF TypeOK, WriteBit, Writes, Holds, AfterCas,
                              Writing
    <2>6. CountHolders'
      BY <1>0, <2>1, <2>3 DEF TypeOK, CountHolders
    <2>7. ReadFree'
      BY <1>0, <2>1, <2>3 DEF TypeOK, ReadFree, Busy
    <2>8. OwnerRecorded'
      BY <1>0, <2>1, <2>3 DEF TypeOK, OwnerRecorded, Alone, Writes, Holds,
                              AfterCas, Writing
    <2>9. SwapUnlocks'
      BY <1>0, <2>1, <2>3 DEF TypeOK, SwapUnlocks, Writing
    <2>10. Quiet'
      BY <1>0, <2>1, <2>3 DEF TypeOK, Quiet
    <2>11. MapsReceived'
      BY <1>0, <2>1, <2>3 DEF TypeOK, MapsReceived, Mappers
    <2> QED BY <2>2, <2>4, <2>5, <2>6, <2>7, <2>8, <2>9, <2>10, <2>11 DEF IInv
  <1>2. CASE lockState = current[t]
    <2>1. /\ lockState' = Locked(lockState, usage[t])
          /\ pc' = [pc EXCEPT ![t] = "owner"]
          /\ current' = current
      BY <1>2 DEF LockCas, Goto
    <2>2. /\ lockState \in States /\ lockState' \in States
          /\ lockState'.write <=> lockState.write \/ usage[t] \in Writing
          /\ lockState'.mapped = lockState.mapped
          /\ lockState'.count = lockState.count + 1
      BY <2>1, LockedFields DEF TypeOK
    <2>3. /\ ~lockState.write
          /\ usage[t] \in Writing => ~(lockState.count > 0)
      BY <1>0, <1>2 DEF ReadFree, Busy
    <2>4. TypeOK'
      BY <1>0, <2>1, <2>2 DEF TypeOK, PCs, AfterCas
    <2>5. /\ \A u \in Threads : u # t => pc'[u] = pc[u]
          /\ pc'[t] = "owner" /\ Holds(t)'
          /\ \A u \in Threads : u # t => (Holds(u)' <=> Holds(u))
          /\ \A u \in Threads : u # t => (Writes(u)' <=> Writes(u))
          /\ Writes(t)' <=> usage[t] \in Writing
      BY <1>0, <2>1 DEF TypeOK, Holds, Writes, AfterCas
    <2>6. \A u \in Threads : ~Writes(u)
      BY <2>3 DEF WriteBit
    <2>7. usage[t] \in Writing => \A u \in Threads : ~Holds(u)
      <3> SUFFICES ASSUME usage[t] \in Writing, NEW u \in Threads, Holds(u)
                   PROVE  FALSE
        OBVIOUS
      <3>1. lockState.count # 0
        BY HolderCounted
      <3>2. Cardinality(Holders) \in Nat /\ lockState.count = Cardinality(Holders)
        BY HoldersFinite, FS_CardinalityType DEF CountHolders
      <3>3. QED BY <2>3, <3>1, <3>2
    <2>8. Alone'
      BY <2>5, <2>6, <2>7 DEF Alone
    <2>9. WriteBit'
      BY <2>2, <2>3, <2>5, <2>6 DEF WriteBit
    <2>10. CountHolders'
      <3>1. Holders' = Holders \cup {t} /\ t \notin Holders
        BY <1>0, <2>1, <2>5 DEF Holders, Holds
      <3>2. Cardinality(Holders') = Cardinality(Holders) + 1
        BY <3>1, HoldersFinite, FS_AddElement
      <3>3. QED BY <2>2, <3>2 DEF CountHolders
    <2>11. ReadFree'
      BY <1>0, <2>1, <2>5 DEF ReadFree, Busy
    <2>12. OwnerRecorded'
      BY <2>5, <2>6 DEF OwnerRecorded
    <2>13. SwapUnlocks'
      BY <1>0, <2>1, <2>5, <2>6 DEF SwapUnlocks, Writes, Holds, AfterCas
    <2>14. Quiet'
      BY <1>0, <2>5 DEF Quiet
    <2>15. MapsReceived'
      BY <1>0, <2>1, <2>2, <2>5 DEF MapsReceived, Mappers
    <2>16. QED
      BY <2>4, <2>8, <2>9, <2>10, <2>11, <2>12, <2>13, <2>14, <2>15 DEF IInv
  <1>3. QED BY <1>1, <1>2

\* The invariant is kept by the read of gralloc_unlock.  The thread holds the
\* buffer, so the count is not 0, and a writer finds itself the owner.
LEMMA UnlockReadKeeps ==
    ASSUME IInv, NEW t \in Threads, UnlockRead(t) PROVE IInv'
  <1> USE DEF IInv
  <1>1. pc[t] = "unlock" /\ Holds(t)
    BY DEF UnlockRead, Holds, AfterCas
  <1>2. lockState.count # 0
    BY <1>1, HolderCounted
  <1> DEFINE w == Prepared(lockState, Mine(t))
  <1>3. /\ pc' = [pc EXCEPT ![t] = "unlockcas"]
        /\ current' = [current EXCEPT ![t] = lockState]
        /\ new' = [new EXCEPT ![t] = w]
        /\ writeOwner' = IF Mine(t) THEN NoThread ELSE writeOwner
        /\ UNCHANGED <<kind, phase, lockState, needsFlush, base, mappings,
                       sMapLock, usage, vaddr>>
    BY <1>2 DEF UnlockRead, Goto, Prepared
  <1>4. Mine(t) \in BOOLEAN /\ lockState \in States
    BY DEF Mine, TypeOK, States
  <1>5. /\ w \in States
        /\ w.write <=> lockState.write /\ ~Mine(t)
        /\ w.mapped = lockState.mapped /\ w.count = lockState.count - 1
    BY <1>4, PreparedFields
  <1> HIDE DEF w
  <1>6. /\ \A u \in Threads : u # t => pc'[u] = pc[u]
        /\ pc'[t] = "unlockcas"
        /\ \A u \in Threads : Holds(u)' <=> Holds(u)
        /\ \A u \in Threads : Writes(u)' <=> Writes(u)
    BY <1>1, <1>3 DEF TypeOK, Holds, Writes, AfterCas
  <1>7. ~w.write
    <2>1. CASE lockState.write
      <3>1. PICK u \in Threads : Writes(u)
        BY <2>1 DEF WriteBit
      <3>2. u = t /\ writeOwner = t
        BY <1>1, <3>1 DEF Alone, OwnerRecorded
      <3>3. QED BY <1>5, <2>1, <3>2 DEF Mine
    <2>2. QED BY <1>5, <2>1
  <1>8. TypeOK'
    BY <1>3, <1>4, <1>5 DEF TypeOK, PCs, AfterCas
  <1>9. Alone' /\ WriteBit' /\ Quiet'
    BY <1>1, <1>3, <1>6 DEF Alone, WriteBit, Quiet
  <1>10. CountHolders'
    <2>1. Holders' = Holders
      BY <1>6 DEF Holders, Holds
    <2>2. QED BY <1>3, <2>1 DEF CountHolders
  <1>11. ReadFree'
    BY <1>3, <1>6 DEF ReadFree, Busy, TypeOK
  <1>12. OwnerRecorded'
    BY <1>1, <1>3, <1>6 DEF OwnerRecorded, Alone
  <1>13. SwapUnlocks'
    <2>1. current'[t] = lockState /\ new'[t] = w
      BY <1>3 DEF TypeOK
    <2>2. \A u \in Threads : u # t => current'[u] = current[u] /\ new'[u] = new[u]
      BY <1>3 DEF TypeOK
    <2>3. QED BY <1>3, <1>5, <1>6, <1>7, <2>1, <2>2 DEF SwapUnlocks
  <1>14. MapsReceived'
    BY <1>1, <1>3, <1>6 DEF MapsReceived, Mappers, TypeOK
  <1>15. QED
    BY <1>8, <1>9, <1>10, <1>11, <1>12, <1>13, <1>14 DEF IInv

\* The invariant is kept by the swap of gralloc_unlock.
LEMMA UnlockCasKeeps ==
    ASSUME IInv, NEW t \in Threads, UnlockCas(t) PROVE IInv'
  <1> USE DEF IInv
  <1>0. /\ pc[t] = "unlockcas" /\ Holds(t)
        /\ current' = [current EXCEPT ![t] = Unlocked]
        /\ new' = [new EXCEPT ![t] = Unlocked]
        /\ UNCHANGED <<kind, phase, writeOwner, needsFlush, base, mappings,
                       sMapLock, vaddr>>
    BY DEF UnlockCas, Forget, Holds, AfterCas
  <1>1. Unlocked \in States
    BY DEF Unlocked, States
  <1>2. CASE lockState # current[t]
    <2>1. lockState' = lockState /\ usage' = usage /\ pc' = [pc EXCEPT ![t] = "unlock"]
      BY <1>2 DEF UnlockCas, Goto
    <2>2. ~Writes(t)
      BY <1>0, <1>2 DEF SwapUnlocks, Writes
    <2>3. /\ \A u \in Threads : u # t => pc'[u] = pc[u]
          /\ pc'[t] = "unlock"
          /\ \A u \in Threads : Holds(u)' <=> Holds(u)
          /\ \A u \in Threads : Writes(u)' <=> Writes(u)
      BY <1>0, <2>1 DEF TypeOK, Holds, Writes, AfterCas
    <2>4. TypeOK'
      BY <1>0, <1>1, <2>1 DEF TypeOK, PCs, AfterCas
    <2>5. Alone' /\ WriteBit'
      BY <2>1, <2>3 DEF Alone, WriteBit
    <2>6. CountHolders'
      <3>1. Holders' = Holders
        BY <2>3 DEF Holders, Holds
      <3>2. QED BY <2>1, <3>1 DEF CountHolders
    <2>7. ReadFree'
      BY <1>0, <2>1, <2>3 DEF ReadFree, Busy, TypeOK
    <2>8. OwnerRecorded'
      BY <1>0, <2>2, <2>3 DEF OwnerRecorded
    <2>9. SwapUnlocks'
      BY <1>0, <2>1, <2>3 DEF SwapUnlocks, TypeOK
    <2>10. Quiet' /\ MapsReceived'
      BY <1>0, <2>1, <2>3 DEF Quiet, MapsReceived, Mappers, TypeOK
    <2>11. QED BY <2>4, <2>5, <2>6, <2>7, <2>8, <2>9, <2>10 DEF IInv
  <1>3. CASE lockState = current[t]
    <2>1. /\ lockState' = new[t]
          /\ pc' = [pc EXCEPT ![t] = "idle"]
          /\ usage' = [usage EXCEPT ![t] = "hw_read"]
      BY <1>3 DEF UnlockCas, Goto
    <2>2. /\ ~lockState'.write /\ lockState'.mapped = lockState.mapped
          /\ lockState'.count = lockState.count - 1
      BY <1>0, <1>3, <2>1 DEF SwapUnlocks
    <2>3. /\ \A u \in Threads : u # t => pc'[u] = pc[u] /\ usage'[u] = usage[u]
          /\ pc'[t] = "idle" /\ ~Holds(t)' /\ ~Writes(t)'
          /\ \A u \in Threads : u # t => (Holds(u)' <=> Holds(u))
          /\ \A u \in Threads : u # t => (Writes(u)' <=> Writes(u))
      BY <1>0, <2>1 DEF TypeOK, Holds, Writes, AfterCas
    <2>4. TypeOK'
      BY <1>0, <1>1, <2>1 DEF TypeOK, PCs, Usages
    <2>5. \A u \in Threads : ~Writes(u)'
      BY <1>0, <2>3 DEF Alone
    <2>6. Alone' /\ WriteBit'
      BY <2>2, <2>5 DEF Alone, WriteBit
    <2>7. CountHolders'
      <3>1. Holders' = Holders \ {t} /\ t \in Holders
        BY <1>0, <2>3 DEF Holders, Holds
      <3>2. Cardinality(Holders') = Cardinality(Holders) - 1
        BY <3>1, HoldersFinite, FS_RemoveElement
      <3>3. QED BY <2>2, <3>2 DEF CountHolders
    <2>8. ReadFree'
      BY <1>0, <2>3 DEF ReadFree, Busy, TypeOK
    <2>9. OwnerRecorded'
      BY <2>5 DEF OwnerRecorded
    <2>10. SwapUnlocks'
      BY <1>0, <2>3, <2>5 DEF SwapUnlocks, TypeOK, Writes, Holds, AfterCas
    <2>11. Quiet' /\ MapsReceived'
      BY <1>0, <2>2, <2>3 DEF Quiet, MapsReceived, Mappers, TypeOK
    <2>12. QED BY <2>4, <2>6, <2>7, <2>8, <2>9, <2>10, <2>11 DEF IInv
  <1>4. QED BY <1>2, <1>3

-----------------------------------------------------------------------------
(* Registering and unregistering, and the invariant *)

\* The invariant holds at the start.
LEMMA InitIInv == Init => IInv
  <1> SUFFICES ASSUME Init PROVE IInv
    OBVIOUS
  <1>1. lockState = [write |-> FALSE, mapped |-> (kind = "own"), count |-> 0]
    BY DEF Init, Unlocked
  <1>2. TypeOK
    <2>1. lockState \in States /\ Unlocked \in States
      BY <1>1 DEF States, Unlocked
    <2>2. base \in BOOLEAN /\ needsFlush \in BOOLEAN
      BY DEF Init
    <2>3. mappings \in Int
      BY DEF Init
    <2>4. /\ pc \in [Threads -> PCs] /\ usage \in [Threads -> Usages]
          /\ vaddr \in [Threads -> BOOLEAN]
      BY DEF Init, PCs, Usages
    <2>5. current \in [Threads -> States] /\ new \in [Threads -> States]
      BY <2>1 DEF Init
    <2>6. /\ kind \in Kinds /\ phase \in {"new", "registered", "gone"}
          /\ writeOwner \in Threads \cup {NoThread}
          /\ sMapLock \in Threads \cup {NoThread}
      BY DEF Init
    <2>7. QED BY <2>1, <2>2, <2>3, <2>4, <2>5, <2>6 DEF TypeOK
  <1>3. \A t \in Threads : pc[t] = "idle" /\ ~Holds(t) /\ ~Writes(t)
    BY DEF Init, Holds, Writes, AfterCas
  <1>4. CountHolders
    <2>1. Holders = {}
      BY <1>3 DEF Holders, Holds
    <2>2. QED BY <1>1, <2>1, FS_EmptySet DEF CountHolders
  <1>5. Alone /\ WriteBit /\ ReadFree /\ OwnerRecorded /\ SwapUnlocks /\ Quiet
    BY <1>1, <1>3 DEF Alone, WriteBit, ReadFree, OwnerRecorded, SwapUnlocks,
                      Quiet
  <1>6. MapsReceived
    BY <1>1, <1>3 DEF MapsReceived, Mappers
  <1>7. QED BY <1>2, <1>4, <1>5, <1>6 DEF IInv

\* When no thread is in a call and the lock word is clear, or nobody holds
\* the buffer and it is as it was, the invariant is left as it is.
LEMMA NobodyKeeps ==
    ASSUME IInv, TypeOK', phase' \in {"registered", "gone"}, kind' = kind,
           \A t \in Threads : pc'[t] = "idle",
           \/ lockState' = Unlocked /\ kind = "received"
           \/ lockState' = lockState /\ Holders = {}
    PROVE  IInv'
  <1>1. \A t \in Threads : ~Holds(t)' /\ ~Writes(t)'
    BY DEF Holds, Writes, AfterCas
  <1>2. ~lockState'.write /\ lockState'.count = 0
    <2>1. CASE lockState' = Unlocked
      BY <2>1 DEF Unlocked
    <2>2. CASE lockState' = lockState /\ Holders = {}
      <3>1. lockState.count = 0
        BY <2>2, FS_EmptySet DEF IInv, CountHolders
      <3>2. ~lockState.write
        BY <2>2 DEF IInv, WriteBit, Writes, Holds, Holders
      <3>3. QED BY <2>2, <3>1, <3>2
    <2>3. QED BY <2>1, <2>2
  <1>3. CountHolders'
    <2>1. Holders' = {}
      BY <1>1 DEF Holders, Holds
    <2>2. QED BY <1>2, <2>1, FS_EmptySet DEF CountHolders
  <1>4. /\ Alone' /\ WriteBit' /\ ReadFree' /\ OwnerRecorded' /\ SwapUnlocks'
        /\ Quiet'
    BY <1>1, <1>2 DEF Alone, WriteBit, ReadFree, OwnerRecorded, SwapUnlocks,
                      Quiet
  <1>5. MapsReceived'
    BY DEF IInv, MapsReceived, Mappers
  <1>6. QED BY <1>3, <1>4, <1>5 DEF IInv

\* The invariant is kept by gralloc_register_buffer.
LEMMA RegisterKeeps == ASSUME IInv, Register PROVE IInv'
  <1>1. \A t \in Threads : pc[t] = "idle"
    BY DEF IInv, Quiet, Register
  <1>2. Holders = {}
    BY <1>1 DEF Holders, AfterCas
  <1>3. TypeOK'
    <2>1. /\ base' = base \/ base' = FALSE
          /\ lockState' = lockState \/ lockState' = Unlocked
          /\ writeOwner' = writeOwner \/ writeOwner' = NoThread
      BY DEF Register
    <2>2. base' \in BOOLEAN
      <3>1. base \in BOOLEAN
        BY DEF IInv, TypeOK
      <3>2. QED BY <2>1, <3>1
    <2>3. lockState' \in States
      <3>1. lockState \in States /\ Unlocked \in States
        BY DEF IInv, TypeOK, Unlocked, States
      <3>2. QED BY <2>1, <3>1
    <2>4. writeOwner' \in Threads \cup {NoThread}
      BY <2>1 DEF IInv, TypeOK
    <2>5. /\ phase' = "registered"
          /\ UNCHANGED <<kind, needsFlush, mappings, sMapLock, pc, usage, current,
                         new, vaddr>>
      BY DEF Register, locals
    <2>6. QED BY <2>2, <2>3, <2>4, <2>5 DEF IInv, TypeOK
  <1>4. QED
    BY <1>1, <1>2, <1>3, NobodyKeeps DEF Register, locals

\* The invariant is kept by gralloc_unregister_buffer.
LEMMA UnregisterKeeps == ASSUME IInv, Unregister PROVE IInv'
  <1>1. TypeOK'
    <2>1. /\ phase' = "gone" /\ pc' = [t \in Threads |-> "idle"]
          /\ usage' = [t \in Threads |-> "hw_read"]
          /\ UNCHANGED <<kind, needsFlush, sMapLock, current, new, vaddr>>
      BY DEF Unregister
    <2>2. /\ mappings' = mappings \/ mappings' = mappings - 1
          /\ base' = base \/ base' = FALSE
          /\ lockState' = lockState \/ lockState' = Unlocked
          /\ writeOwner' = writeOwner \/ writeOwner' = NoThread
      BY DEF Unregister
    <2>3. mappings' \in Int
      <3>1. mappings \in Int
        BY DEF IInv, TypeOK
      <3>2. QED BY <2>2, <3>1
    <2>4. base' \in BOOLEAN
      <3>1. base \in BOOLEAN
        BY DEF IInv, TypeOK
      <3>2. QED BY <2>2, <3>1
    <2>5. lockState' \in States
      <3>1. lockState \in States /\ Unlocked \in States
        BY DEF IInv, TypeOK, Unlocked, States
      <3>2. QED BY <2>2, <3>1
    <2>6. writeOwner' \in Threads \cup {NoThread}
      BY <2>2 DEF IInv, TypeOK
    <2>7. pc' \in [Threads -> PCs] /\ usage' \in [Threads -> Usages]
      BY <2>1 DEF PCs, Usages
    <2>8. QED BY <2>1, <2>3, <2>4, <2>5, <2>6, <2>7 DEF IInv, TypeOK
  <1>2. /\ phase' = "gone" /\ kind' = kind
        /\ \A t \in Threads : pc'[t] = "idle"
    BY DEF Unregister
  <1>3. CASE kind = "received"
    BY <1>1, <1>2, <1>3, NobodyKeeps DEF Unregister
  <1>4. CASE kind # "received"
    <2>1. \A t \in Threads : pc[t] = "idle"
      BY <1>4 DEF IInv, TypeOK, Kinds, MapsReceived, Mappers, Unregister
    <2>2. Holders = {}
      BY <2>1 DEF Holders, AfterCas
    <2>3. QED BY <1>1, <1>2, <1>4, <2>2, NobodyKeeps DEF Unregister
  <1>5. QED BY <1>3, <1>4

\* The invariant mentions only the variables of vars.
LEMMA StutterKeeps == ASSUME IInv, UNCHANGED vars PROVE IInv'
  BY DEF IInv, vars, TypeOK, Alone, WriteBit, CountHolders, ReadFree,
         OwnerRecorded, SwapUnlocks, Quiet, MapsReceived, Writes, Holds, Holders

\* The inductive invariant holds in every behaviour.
THEOREM Invariance == Spec => []IInv
  <1>1. Init => IInv
    BY InitIInv
  <1>2. IInv /\ [Next]_vars => IInv'
    <2> SUFFICES ASSUME IInv, [Next]_vars PROVE IInv'
      OBVIOUS
    <2>1. CASE Register
      BY <2>1, RegisterKeeps
    <2>2. CASE Unregister
      BY <2>2, UnregisterKeeps
    <2>3. ASSUME NEW t \in Threads, LockCall(t) \/ UnlockCall(t) \/ InCall(t)
          PROVE  IInv'
      BY <2>3, LockCallKeeps, LockReadKeeps, LockCasKeeps, StoreOwnerKeeps,
         MapLockKeeps, MapKeeps, SetMappedKeeps, MapUnlockKeeps, LockReturnKeeps,
         UnlockCallKeeps, FlushKeeps, UnlockReadKeeps, UnlockCasKeeps DEF InCall
    <2>4. CASE UNCHANGED vars
      BY <2>4, StutterKeeps
    <2>5. QED BY <2>1, <2>2, <2>3, <2>4 DEF Next
  <1>3. QED BY <1>1, <1>2, PTL DEF Spec

\* The variables have their types, for any number of threads.
THEOREM TypeCorrect == Spec => []TypeOK
  <1>1. IInv => TypeOK
    BY DEF IInv
  <1>2. QED BY <1>1, Invariance, PTL

\* A thread that writes the buffer has it alone, for any number of threads
\* and however their reads and swaps of lockState interleave.
THEOREM WriterAlwaysAlone == Spec => []WriterAlone
  <1>1. IInv => WriterAlone
    <2> SUFFICES ASSUME IInv, NEW t \in HoldingWriters PROVE Holders = {t}
      BY DEF WriterAlone
    <2>1. t \in Threads /\ Writes(t) /\ Holds(t)
      BY DEF HoldingWriters, Holders, Writes, Holds
    <2>2. QED BY <2>1 DEF IInv, Alone, Holders, Holds
  <1>2. QED BY <1>1, Invariance, PTL

\* The lock word tells who holds the buffer: gralloc_unlock never leaves
\* WRITE set, nor a count, by a thread that is through with it.
THEOREM LockWordAlwaysAgrees == Spec => []LockWordAgrees
  <1>1. IInv => LockWordAgrees
    <2> SUFFICES ASSUME IInv PROVE LockWordAgrees
      OBVIOUS
    <2>1. HoldingWriters # {} <=> \E t \in Threads : Writes(t)
      BY DEF HoldingWriters, Holders, Writes, Holds
    <2>2. QED BY <2>1 DEF IInv, WriteBit, CountHolders, LockWordAgrees
  <1>2. QED BY <1>1, Invariance, PTL

-----------------------------------------------------------------------------
(***************************************************************************)
(* The mapping.  sMapLock and the MAPPED bit let one thread map, once; no  *)
(* swap takes the bit back.  A writer is alone, so the flag that is up is  *)
(* the one it set.                                                         *)
(***************************************************************************)

\* sMapLock is held from MapLock to MapUnlock.
InMap == {"mapping", "setmapped", "mapped", "mapfailed"}
MapLockOK == \A t \in Threads : pc[t] \in InMap <=> sMapLock = t

\* MAPPED is set by whoever maps, and never taken back by a swap: what was
\* read as mapped is mapped, and nobody maps what is.
MappedBit == \A t \in Threads :
    /\ pc[t] \in {"mapping", "setmapped"} => ~lockState.mapped
    /\ pc[t] \in {"lockcas", "owner", "unlockcas"} /\ current[t].mapped
         => lockState.mapped
    /\ pc[t] = "mapped" => lockState.mapped
    /\ pc[t] \in {"got", "held", "flush"} /\ usage[t] \in Software
         => lockState.mapped

\* A received buffer is mapped when the bit says so, or is about to; the
\* others were mapped before, elsewhere.
MapCount ==
    /\ lockState.mapped => base
    /\ kind # "received" => base /\ mappings = 0
    /\ kind = "received" /\ lockState.mapped => mappings = 1
    /\ kind = "received" /\ ~lockState.mapped /\ phase = "registered"
         => \/ mappings = 0
            \/ mappings = 1 /\ base /\ \E t \in Threads : pc[t] = "setmapped"
    /\ kind = "received" /\ phase # "registered"
         => mappings = 0 /\ ~lockState.mapped
    /\ \A t \in Threads :
         pc[t] = "mapping" /\ kind = "received" => mappings = 0
    /\ \A t \in Threads : pc[t] = "setmapped" =>
         base /\ (kind = "received" => mappings = 1)

\* A thread that may use the buffer with the CPU was given its address.
AddressGiven == \A t \in Threads :
    pc[t] = "held" /\ usage[t] \in Software => vaddr[t]

\* Between its store of the flag and its unlock a thread that writes with the
\* CPU finds the flag up; and the flag that is up was set by such a thread.
Unflushed == {"map", "mapping", "setmapped", "mapped", "mapfailed", "got",
              "held"}
FlagUp   == \A t \in Threads :
    pc[t] \in Unflushed /\ usage[t] = "sw_write"
      => needsFlush \/ kind = "framebuffer"
FlagSet  == needsFlush /\ phase # "gone" =>
    \E t \in Threads : /\ pc[t] \in Unflushed \cup {"flush", "lost"}
                       /\ usage[t] = "sw_write"
Flushers == \A t \in Threads : pc[t] = "flush" => usage[t] = "sw_write"

JInv == /\ MapLockOK /\ MappedBit /\ MapCount /\ AddressGiven
        /\ FlagUp /\ FlagSet /\ Flushers

\* A step of the abstract lock.
LockStep == [Lock!Next]_<<Holders \ HoldingWriters, HoldingWriters>>

\* Neither who holds the buffer nor who writes it changes.
SameHolders == Holders' = Holders /\ HoldingWriters' = HoldingWriters

-----------------------------------------------------------------------------

\* Nothing is mapped, flagged or held at the start.
LEMMA InitJInv == Init => JInv
  <1> SUFFICES ASSUME Init PROVE JInv
    OBVIOUS
  <1>1. MapLockOK
    BY NoThreadAssumption DEF Init, MapLockOK, InMap
  <1>2. MappedBit /\ MapCount /\ AddressGiven
    BY DEF Init, MappedBit, MapCount, AddressGiven, Unlocked, Kinds
  <1>3. FlagUp /\ FlagSet /\ Flushers
    BY DEF Init, FlagUp, FlagSet, Flushers, Unflushed
  <1>4. QED BY <1>1, <1>2, <1>3 DEF JInv

\* A thread that enters holds nothing yet.
LEMMA LockCallKeepsMap ==
    ASSUME IInv, JInv, NEW t \in Threads, LockCall(t) PROVE JInv'
  <1>1. MapLockOK'
    BY DEF IInv, TypeOK, JInv, MapLockOK, InMap, LockCall, Goto, Forget,
       handle, locals
  <1>2. MappedBit'
    BY DEF IInv, TypeOK, JInv, MappedBit, MapLockOK, InMap, MapCount,
       States, Unlocked, Quiet, LockCall, Goto, Forget, handle, locals
  <1>3. MapCount'
    BY DEF IInv, TypeOK, JInv, MapCount, MapLockOK, MappedBit, InMap,
       MapsReceived, Mappers, States, Kinds, Unlocked, Quiet, LockCall,
       Goto, Forget, handle, locals
  <1>4. AddressGiven'
    BY DEF IInv, TypeOK, JInv, AddressGiven, MappedBit, MapCount, LockCall,
       Goto, Forget, handle, locals
  <1>5. FlagUp'
    BY DEF IInv, TypeOK, JInv, FlagUp, Unflushed, Software, Usages,
       LockCall, Goto, Forget, handle, locals
  <1>6. FlagSet'
    BY DEF IInv, TypeOK, JInv, FlagSet, FlagUp, Unflushed, Quiet, Usages,
       LockCall, Goto, Forget, handle, locals
  <1>7. Flushers'
    BY DEF IInv, TypeOK, JInv, Flushers, FlagSet, FlagUp, Unflushed, Usages,
       Quiet, LockCall, Goto, Forget, handle, locals
  <1>8. QED BY <1>1, <1>2, <1>3, <1>4, <1>5, <1>6, <1>7 DEF JInv

\* What is read as mapped is mapped.
LEMMA LockReadKeepsMap ==
    ASSUME IInv, JInv, NEW t \in Threads, LockRead(t) PROVE JInv'
  <1>1. MapLockOK'
    BY DEF IInv, TypeOK, JInv, MapLockOK, InMap, LockRead, Goto, Forget,
       handle, locals
  <1>2. MappedBit'
    BY DEF IInv, TypeOK, JInv, MappedBit, MapLockOK, InMap, MapCount,
       States, Unlocked, Quiet, LockRead, Goto, Forget, handle, locals
  <1>3. MapCount'
    BY DEF IInv, TypeOK, JInv, MapCount, MapLockOK, MappedBit, InMap,
       MapsReceived, Mappers, States, Kinds, Unlocked, Quiet, LockRead,
       Goto, Forget, handle, locals
  <1>4. AddressGiven'
    BY DEF IInv, TypeOK, JInv, AddressGiven, MappedBit, MapCount, LockRead,
       Goto, Forget, handle, locals
  <1>5. FlagUp'
    BY DEF IInv, TypeOK, JInv, FlagUp, Unflushed, Software, Usages,
       LockRead, Goto, Forget, handle, locals
  <1>6. FlagSet'
    BY DEF IInv, TypeOK, JInv, FlagSet, FlagUp, Unflushed, Quiet, Usages,
       LockRead, Goto, Forget, handle, locals
  <1>7. Flushers'
    BY DEF IInv, TypeOK, JInv, Flushers, FlagSet, FlagUp, Unflushed, Usages,
       Quiet, LockRead, Goto, Forget, handle, locals
  <1>8. QED BY <1>1, <1>2, <1>3, <1>4, <1>5, <1>6, <1>7 DEF JInv

\* A lock keeps the MAPPED bit, and is a step of the abstract lock when it
\* succeeds.
LEMMA LockCasKeepsMap ==
    ASSUME IInv, JInv, NEW t \in Threads, LockCas(t) PROVE JInv'
  <1>1. MapLockOK'
    BY DEF IInv, TypeOK, JInv, MapLockOK, InMap, LockCas, Goto, Forget,
       handle, locals
  <1>2. MappedBit'
    <2>1. /\ lockState'.mapped = lockState.mapped
          /\ UNCHANGED <<kind, phase, base, mappings, usage>>
      BY LockedFields DEF IInv, TypeOK, LockCas
    <2>2. \A u \in Threads : /\ current'[u] = current[u] \/ pc'[u] = "lock"
                             /\ pc'[u] = pc[u] \/ pc'[u] \in {"lock", "owner"}
      BY DEF IInv, TypeOK, LockCas, Goto, Forget
    <2>3. pc[t] = "lockcas" /\ (pc'[t] = "owner" => lockState = current[t])
      BY DEF IInv, TypeOK, LockCas, Goto
    <2>4. \A u \in Threads \ {t} : pc'[u] = pc[u] /\ current'[u] = current[u]
      BY DEF IInv, TypeOK, LockCas, Goto, Forget
    <2>5. QED BY <2>1, <2>2, <2>3, <2>4 DEF JInv, MappedBit
  <1>3. MapCount'
    <2>1. /\ lockState'.mapped = lockState.mapped
          /\ UNCHANGED <<kind, phase, base, mappings, usage>>
      BY LockedFields DEF IInv, TypeOK, LockCas
    <2>2. \A u \in Threads : /\ current'[u] = current[u] \/ pc'[u] = "lock"
                             /\ pc'[u] = pc[u] \/ pc'[u] \in {"lock", "owner"}
      BY DEF IInv, TypeOK, LockCas, Goto, Forget
    <2>3. pc[t] = "lockcas" /\ (pc'[t] = "owner" => lockState = current[t])
      BY DEF IInv, TypeOK, LockCas, Goto
    <2>4. \A u \in Threads \ {t} : pc'[u] = pc[u] /\ current'[u] = current[u]
      BY DEF IInv, TypeOK, LockCas, Goto, Forget
    <2>5. QED BY <2>1, <2>2, <2>3, <2>4 DEF JInv, MapCount
  <1>4. AddressGiven'
    BY DEF IInv, TypeOK, JInv, AddressGiven, MappedBit, MapCount, LockCas,
       Goto, Forget, handle, locals
  <1>5. FlagUp'
    BY DEF IInv, TypeOK, JInv, FlagUp, Unflushed, Software, Usages, LockCas,
       Goto, Forget, handle, locals
  <1>6. FlagSet'
    BY DEF IInv, TypeOK, JInv, FlagSet, FlagUp, Unflushed, Quiet, Usages,
       LockCas, Goto, Forget, handle, locals
  <1>7. Flushers'
    BY DEF IInv, TypeOK, JInv, Flushers, FlagSet, FlagUp, Unflushed, Usages,
       Quiet, LockCas, Goto, Forget, handle, locals
  <1>8. QED BY <1>1, <1>2, <1>3, <1>4, <1>5, <1>6, <1>7 DEF JInv

\* The flag goes up with the thread that writes.
LEMMA StoreOwnerKeepsMap ==
    ASSUME IInv, JInv, NEW t \in Threads, StoreOwner(t) PROVE JInv'
  <1>1. MapLockOK'
    BY DEF IInv, TypeOK, JInv, MapLockOK, InMap, StoreOwner, Goto, Forget,
       handle, locals
  <1>2. MappedBit'
    BY DEF IInv, TypeOK, JInv, MappedBit, MapLockOK, InMap, MapCount,
       States, Unlocked, Quiet, StoreOwner, Goto, Forget, handle, locals
  <1>3. MapCount'
    BY DEF IInv, TypeOK, JInv, MapCount, MapLockOK, MappedBit, InMap,
       MapsReceived, Mappers, States, Kinds, Unlocked, Quiet, StoreOwner,
       Goto, Forget, handle, locals
  <1>4. AddressGiven'
    BY DEF IInv, TypeOK, JInv, AddressGiven, MappedBit, MapCount,
       StoreOwner, Goto, Forget, handle, locals
  <1>5. FlagUp'
    BY DEF IInv, TypeOK, JInv, FlagUp, Unflushed, Software, Usages,
       StoreOwner, Goto, Forget, handle, locals
  <1>6. FlagSet'
    BY DEF IInv, TypeOK, JInv, FlagSet, FlagUp, Unflushed, Quiet, Usages,
       StoreOwner, Goto, Forget, handle, locals
  <1>7. Flushers'
    BY DEF IInv, TypeOK, JInv, Flushers, FlagSet, FlagUp, Unflushed, Usages,
       Quiet, StoreOwner, Goto, Forget, handle, locals
  <1>8. QED BY <1>1, <1>2, <1>3, <1>4, <1>5, <1>6, <1>7 DEF JInv

\* The bit is looked at again with sMapLock held.
LEMMA MapLockKeepsMap ==
    ASSUME IInv, JInv, NEW t \in Threads, MapLock(t) PROVE JInv'
  <1>1. MapLockOK'
    BY NoThreadAssumption DEF IInv, TypeOK, JInv, MapLockOK, InMap, MapLock,
       Goto, Forget, handle, locals
  <1>2. MappedBit'
    BY DEF IInv, TypeOK, JInv, MappedBit, MapLockOK, InMap, MapCount,
       States, Unlocked, Quiet, MapLock, Goto, Forget, handle, locals
  <1>3. MapCount'
    BY NoThreadAssumption DEF IInv, TypeOK, JInv, MapCount, MapLockOK,
       MappedBit, InMap, MapsReceived, Mappers, States, Kinds, Unlocked,
       Quiet, MapLock, Goto, Forget, handle, locals
  <1>4. AddressGiven'
    BY DEF IInv, TypeOK, JInv, AddressGiven, MappedBit, MapCount, MapLock,
       Goto, Forget, handle, locals
  <1>5. FlagUp'
    BY DEF IInv, TypeOK, JInv, FlagUp, Unflushed, Software, Usages, MapLock,
       Goto, Forget, handle, locals
  <1>6. FlagSet'
    BY DEF IInv, TypeOK, JInv, FlagSet, FlagUp, Unflushed, Quiet, Usages,
       MapLock, Goto, Forget, handle, locals
  <1>7. Flushers'
    BY DEF IInv, TypeOK, JInv, Flushers, FlagSet, FlagUp, Unflushed, Usages,
       Quiet, MapLock, Goto, Forget, handle, locals
  <1>8. QED BY <1>1, <1>2, <1>3, <1>4, <1>5, <1>6, <1>7 DEF JInv

\* It is this thread's to map; no other thread can be at it.
LEMMA MapKeepsMap ==
    ASSUME IInv, JInv, NEW t \in Threads, Map(t) PROVE JInv'
  <1>1. MapLockOK'
    BY DEF IInv, TypeOK, JInv, MapLockOK, InMap, Map, Goto, Forget, handle,
       locals
  <1>2. MappedBit'
    BY DEF IInv, TypeOK, JInv, MappedBit, MapLockOK, InMap, MapCount,
       States, Unlocked, Quiet, Map, Goto, Forget, handle, locals
  <1>3. MapCount'
    <2>1. pc[t] = "mapping" /\ phase = "registered" /\ ~lockState.mapped
      BY DEF IInv, Quiet, TypeOK, Map, JInv, MappedBit
    <2>2. \A u \in Threads : pc[u] \in InMap => u = t
      BY <2>1 DEF JInv, MapLockOK, InMap
    <2>3. pc'[t] \in {"setmapped", "mapfailed"}
          /\ \A u \in Threads \ {t} : pc'[u] = pc[u]
      BY DEF IInv, TypeOK, Map, Goto
    <2>4. UNCHANGED <<kind, phase, lockState>>
      BY DEF Map
    <2>5. CASE kind = "framebuffer"
      BY <2>1, <2>2, <2>3, <2>4, <2>5 DEF JInv, MapCount, InMap, Map
    <2>6. CASE kind = "own"
      BY <2>1, <2>6 DEF IInv, MapsReceived, Mappers
    <2>7. CASE kind = "received"
      <3>1. mappings = 0
        BY <2>1, <2>7 DEF JInv, MapCount
      <3>2. \/ pc'[t] = "setmapped" /\ base' = TRUE /\ mappings' = 1
            \/ pc'[t] = "mapfailed" /\ mappings' = 0
        BY <2>7, <3>1 DEF Map, Goto, IInv, TypeOK
      <3>3. QED BY <2>1, <2>2, <2>3, <2>4, <2>7, <3>2 DEF MapCount, InMap
    <2>8. QED BY <2>5, <2>6, <2>7 DEF IInv, TypeOK, Kinds
  <1>4. AddressGiven'
    BY DEF IInv, TypeOK, JInv, AddressGiven, MappedBit, MapCount, Map, Goto,
       Forget, handle, locals
  <1>5. FlagUp'
    BY DEF IInv, TypeOK, JInv, FlagUp, Unflushed, Software, Usages, Map,
       Goto, Forget, handle, locals
  <1>6. FlagSet'
    BY DEF IInv, TypeOK, JInv, FlagSet, FlagUp, Unflushed, Quiet, Usages,
       Map, Goto, Forget, handle, locals
  <1>7. Flushers'
    BY DEF IInv, TypeOK, JInv, Flushers, FlagSet, FlagUp, Unflushed, Usages,
       Quiet, Map, Goto, Forget, handle, locals
  <1>8. QED BY <1>1, <1>2, <1>3, <1>4, <1>5, <1>6, <1>7 DEF JInv

\* The bit follows the mapping.
LEMMA SetMappedKeepsMap ==
    ASSUME IInv, JInv, NEW t \in Threads, SetMapped(t) PROVE JInv'
  <1>1. MapLockOK'
    BY DEF IInv, TypeOK, JInv, MapLockOK, InMap, SetMapped, Goto, Forget,
       handle, locals
  <1>2. MappedBit'
    BY DEF IInv, TypeOK, JInv, MappedBit, MapLockOK, InMap, MapCount,
       States, Unlocked, Quiet, SetMapped, Goto, Forget, handle, locals
  <1>3. MapCount'
    BY DEF IInv, TypeOK, JInv, MapCount, MapLockOK, MappedBit, InMap,
       MapsReceived, Mappers, States, Kinds, Unlocked, Quiet, SetMapped,
       Goto, Forget, handle, locals
  <1>4. AddressGiven'
    BY DEF IInv, TypeOK, JInv, AddressGiven, MappedBit, MapCount, SetMapped,
       Goto, Forget, handle, locals
  <1>5. FlagUp'
    BY DEF IInv, TypeOK, JInv, FlagUp, Unflushed, Software, Usages,
       SetMapped, Goto, Forget, handle, locals
  <1>6. FlagSet'
    BY DEF IInv, TypeOK, JInv, FlagSet, FlagUp, Unflushed, Quiet, Usages,
       SetMapped, Goto, Forget, handle, locals
  <1>7. Flushers'
    BY DEF IInv, TypeOK, JInv, Flushers, FlagSet, FlagUp, Unflushed, Usages,
       Quiet, SetMapped, Goto, Forget, handle, locals
  <1>8. QED BY <1>1, <1>2, <1>3, <1>4, <1>5, <1>6, <1>7 DEF JInv

\* The thread goes on with the address, or is lost.
LEMMA MapUnlockKeepsMap ==
    ASSUME IInv, JInv, NEW t \in Threads, MapUnlock(t) PROVE JInv'
  <1>1. MapLockOK'
    BY NoThreadAssumption DEF IInv, TypeOK, JInv, MapLockOK, InMap,
       MapUnlock, Goto, Forget, handle, locals
  <1>2. MappedBit'
    BY DEF IInv, TypeOK, JInv, MappedBit, MapLockOK, InMap, MapCount,
       States, Unlocked, Quiet, MapUnlock, Goto, Forget, handle, locals
  <1>3. MapCount'
    BY DEF IInv, TypeOK, JInv, MapCount, MapLockOK, MappedBit, InMap,
       MapsReceived, Mappers, States, Kinds, Unlocked, Quiet, MapUnlock,
       Goto, Forget, handle, locals
  <1>4. AddressGiven'
    BY DEF IInv, TypeOK, JInv, AddressGiven, MappedBit, MapCount, MapUnlock,
       Goto, Forget, handle, locals
  <1>5. FlagUp'
    BY DEF IInv, TypeOK, JInv, FlagUp, Unflushed, Software, Usages,
       MapUnlock, Goto, Forget, handle, locals
  <1>6. FlagSet'
    BY DEF IInv, TypeOK, JInv, FlagSet, FlagUp, Unflushed, Quiet, Usages,
       MapUnlock, Goto, Forget, handle, locals
  <1>7. Flushers'
    BY DEF IInv, TypeOK, JInv, Flushers, FlagSet, FlagUp, Unflushed, Usages,
       Quiet, MapUnlock, Goto, Forget, handle, locals
  <1>8. QED BY <1>1, <1>2, <1>3, <1>4, <1>5, <1>6, <1>7 DEF JInv

\* The address is given out.
LEMMA LockReturnKeepsMap ==
    ASSUME IInv, JInv, NEW t \in Threads, LockReturn(t) PROVE JInv'
  <1>1. MapLockOK'
    BY DEF IInv, TypeOK, JInv, MapLockOK, InMap, LockReturn, Goto, Forget,
       handle, locals
  <1>2. MappedBit'
    BY DEF IInv, TypeOK, JInv, MappedBit, MapLockOK, InMap, MapCount,
       States, Unlocked, Quiet, LockReturn, Goto, Forget, handle, locals
  <1>3. MapCount'
    BY DEF IInv, TypeOK, JInv, MapCount, MapLockOK, MappedBit, InMap,
       MapsReceived, Mappers, States, Kinds, Unlocked, Quiet, LockReturn,
       Goto, Forget, handle, locals
  <1>4. AddressGiven'
    BY DEF IInv, TypeOK, JInv, AddressGiven, MappedBit, MapCount,
       LockReturn, Goto, Forget, handle, locals
  <1>5. FlagUp'
    BY DEF IInv, TypeOK, JInv, FlagUp, Unflushed, Software, Usages,
       LockReturn, Goto, Forget, handle, locals
  <1>6. FlagSet'
    BY DEF IInv, TypeOK, JInv, FlagSet, FlagUp, Unflushed, Quiet, Usages,
       LockReturn, Goto, Forget, handle, locals
  <1>7. Flushers'
    BY DEF IInv, TypeOK, JInv, Flushers, FlagSet, FlagUp, Unflushed, Usages,
       Quiet, LockReturn, Goto, Forget, handle, locals
  <1>8. QED BY <1>1, <1>2, <1>3, <1>4, <1>5, <1>6, <1>7 DEF JInv

\* Who finds the flag up has set it: a writer is alone.
LEMMA UnlockCallKeepsMap ==
    ASSUME IInv, JInv, NEW t \in Threads, UnlockCall(t) PROVE JInv'
  <1>1. MapLockOK'
    BY DEF IInv, TypeOK, JInv, MapLockOK, InMap, UnlockCall, Goto, Forget,
       handle, locals
  <1>2. MappedBit'
    BY DEF IInv, TypeOK, JInv, MappedBit, MapLockOK, InMap, MapCount,
       States, Unlocked, Quiet, UnlockCall, Goto, Forget, handle, locals
  <1>3. MapCount'
    BY DEF IInv, TypeOK, JInv, MapCount, MapLockOK, MappedBit, InMap,
       MapsReceived, Mappers, States, Kinds, Unlocked, Quiet, UnlockCall,
       Goto, Forget, handle, locals
  <1>4. AddressGiven'
    BY DEF IInv, TypeOK, JInv, AddressGiven, MappedBit, MapCount,
       UnlockCall, Goto, Forget, handle, locals
  <1>5. FlagUp'
    BY DEF IInv, TypeOK, JInv, FlagUp, Unflushed, Software, Usages,
       UnlockCall, Goto, Forget, handle, locals
  <1>6. FlagSet'
    BY DEF IInv, TypeOK, JInv, FlagSet, FlagUp, Unflushed, Quiet, Usages,
       UnlockCall, Goto, Forget, handle, locals
  <1>7. Flushers'
    BY DEF IInv, TypeOK, JInv, Flushers, FlagSet, FlagUp, Unflushed, Usages,
       Quiet, UnlockCall, Goto, Forget, handle, locals, Alone, Writes,
       Holds, AfterCas, Writing
  <1>8. QED BY <1>1, <1>2, <1>3, <1>4, <1>5, <1>6, <1>7 DEF JInv

\* The flag goes down with the writer still alone.
LEMMA FlushKeepsMap ==
    ASSUME IInv, JInv, NEW t \in Threads, Flush(t) PROVE JInv'
  <1>1. MapLockOK'
    BY DEF IInv, TypeOK, JInv, MapLockOK, InMap, Flush, Goto, Forget,
       handle, locals
  <1>2. MappedBit'
    BY DEF IInv, TypeOK, JInv, MappedBit, MapLockOK, InMap, MapCount,
       States, Unlocked, Quiet, Flush, Goto, Forget, handle, locals
  <1>3. MapCount'
    BY DEF IInv, TypeOK, JInv, MapCount, MapLockOK, MappedBit, InMap,
       MapsReceived, Mappers, States, Kinds, Unlocked, Quiet, Flush, Goto,
       Forget, handle, locals
  <1>4. AddressGiven'
    BY DEF IInv, TypeOK, JInv, AddressGiven, MappedBit, MapCount, Flush,
       Goto, Forget, handle, locals
  <1>5. FlagUp'
    BY DEF IInv, TypeOK, JInv, FlagUp, Unflushed, Software, Usages, Flush,
       Goto, Forget, handle, locals, Alone, Writes, Holds, AfterCas, Writing
  <1>6. FlagSet'
    BY DEF IInv, TypeOK, JInv, FlagSet, FlagUp, Unflushed, Quiet, Usages,
       Flush, Goto, Forget, handle, locals
  <1>7. Flushers'
    BY DEF IInv, TypeOK, JInv, Flushers, FlagSet, FlagUp, Unflushed, Usages,
       Quiet, Flush, Goto, Forget, handle, locals
  <1>8. QED BY <1>1, <1>2, <1>3, <1>4, <1>5, <1>6, <1>7 DEF JInv

\* A thread that holds the buffer is counted, so it goes on.
LEMMA UnlockReadKeepsMap ==
    ASSUME IInv, JInv, NEW t \in Threads, UnlockRead(t) PROVE JInv'
  <1>1. MapLockOK'
    BY DEF IInv, TypeOK, JInv, MapLockOK, InMap, UnlockRead, Goto, Forget,
       handle, locals
  <1>2. MappedBit'
    BY DEF IInv, TypeOK, JInv, MappedBit, MapLockOK, InMap, MapCount,
       States, Unlocked, Quiet, UnlockRead, Goto, Forget, handle, locals
  <1>3. MapCount'
    BY DEF IInv, TypeOK, JInv, MapCount, MapLockOK, MappedBit, InMap,
       MapsReceived, Mappers, States, Kinds, Unlocked, Quiet, UnlockRead,
       Goto, Forget, handle, locals
  <1>4. AddressGiven'
    BY DEF IInv, TypeOK, JInv, AddressGiven, MappedBit, MapCount,
       UnlockRead, Goto, Forget, handle, locals
  <1>5. FlagUp'
    BY DEF IInv, TypeOK, JInv, FlagUp, Unflushed, Software, Usages,
       UnlockRead, Goto, Forget, handle, locals
  <1>6. FlagSet'
    BY DEF IInv, TypeOK, JInv, FlagSet, FlagUp, Unflushed, Quiet, Usages,
       UnlockRead, Goto, Forget, handle, locals
  <1>7. Flushers'
    BY DEF IInv, TypeOK, JInv, Flushers, FlagSet, FlagUp, Unflushed, Usages,
       Quiet, UnlockRead, Goto, Forget, handle, locals
  <1>8. QED BY <1>1, <1>2, <1>3, <1>4, <1>5, <1>6, <1>7 DEF JInv

\* An unlock keeps the MAPPED bit, and releases the abstract lock when it
\* succeeds.
LEMMA UnlockCasKeepsMap ==
    ASSUME IInv, JInv, NEW t \in Threads, UnlockCas(t) PROVE JInv'
  <1>1. MapLockOK'
    BY DEF IInv, TypeOK, JInv, MapLockOK, InMap, UnlockCas, Goto, Forget,
       handle, locals, SwapUnlocks, AfterCas, PCs
  <1>2. MappedBit'
    BY DEF IInv, TypeOK, JInv, MappedBit, MapLockOK, InMap, MapCount,
       States, Unlocked, Quiet, UnlockCas, Goto, Forget, handle, locals,
       SwapUnlocks, AfterCas, PCs
  <1>3. MapCount'
    BY DEF IInv, TypeOK, JInv, MapCount, MapLockOK, MappedBit, InMap,
       MapsReceived, Mappers, States, Kinds, Unlocked, Quiet, UnlockCas,
       Goto, Forget, handle, locals, SwapUnlocks, AfterCas, PCs
  <1>4. AddressGiven'
    BY DEF IInv, TypeOK, JInv, AddressGiven, MappedBit, MapCount, UnlockCas,
       Goto, Forget, handle, locals, SwapUnlocks, AfterCas, PCs
  <1>5. FlagUp'
    BY DEF IInv, TypeOK, JInv, FlagUp, Unflushed, Software, Usages,
       UnlockCas, Goto, Forget, handle, locals, SwapUnlocks, AfterCas, PCs
  <1>6. FlagSet'
    BY DEF IInv, TypeOK, JInv, FlagSet, FlagUp, Unflushed, Quiet, Usages,
       UnlockCas, Goto, Forget, handle, locals, SwapUnlocks, AfterCas, PCs
  <1>7. Flushers'
    BY DEF IInv, TypeOK, JInv, Flushers, FlagSet, FlagUp, Unflushed, Usages,
       Quiet, UnlockCas, Goto, Forget, handle, locals, SwapUnlocks,
       AfterCas, PCs
  <1>8. QED BY <1>1, <1>2, <1>3, <1>4, <1>5, <1>6, <1>7 DEF JInv

\* Registering finds nothing mapped and nobody in a call.
LEMMA RegisterKeepsMap ==
    ASSUME IInv, JInv, Register PROVE JInv'
  <1>1. MapLockOK'
    BY DEF IInv, TypeOK, JInv, MapLockOK, InMap, Register, Goto, Forget,
       handle, locals
  <1>2. MappedBit'
    BY DEF IInv, TypeOK, JInv, MappedBit, MapLockOK, InMap, MapCount,
       States, Unlocked, Quiet, Register, Goto, Forget, handle, locals
  <1>3. MapCount'
    BY DEF IInv, TypeOK, JInv, MapCount, MapLockOK, MappedBit, InMap,
       MapsReceived, Mappers, States, Kinds, Unlocked, Quiet, Register,
       Goto, Forget, handle, locals
  <1>4. AddressGiven'
    BY DEF IInv, TypeOK, JInv, AddressGiven, MappedBit, MapCount, Register,
       Goto, Forget, handle, locals
  <1>5. FlagUp'
    BY DEF IInv, TypeOK, JInv, FlagUp, Unflushed, Software, Usages,
       Register, Goto, Forget, handle, locals
  <1>6. FlagSet'
    BY DEF IInv, TypeOK, JInv, FlagSet, FlagUp, Unflushed, Quiet, Usages,
       Register, Goto, Forget, handle, locals
  <1>7. Flushers'
    BY DEF IInv, TypeOK, JInv, Flushers, FlagSet, FlagUp, Unflushed, Usages,
       Quiet, Register, Goto, Forget, handle, locals
  <1>8. QED BY <1>1, <1>2, <1>3, <1>4, <1>5, <1>6, <1>7 DEF JInv

\* Unregistering unmaps what was mapped, and drops the abstract lock.
LEMMA UnregisterKeepsMap ==
    ASSUME IInv, JInv, Unregister PROVE JInv'
  <1>1. MapLockOK'
    BY DEF IInv, TypeOK, JInv, MapLockOK, InMap, Unregister, Goto, Forget,
       handle, locals
  <1>2. MappedBit'
    BY DEF IInv, TypeOK, JInv, MappedBit, MapLockOK, InMap, MapCount,
       States, Unlocked, Quiet, Unregister, Goto, Forget, handle, locals
  <1>3. MapCount'
    BY DEF IInv, TypeOK, JInv, MapCount, MapLockOK, MappedBit, InMap,
       MapsReceived, Mappers, States, Kinds, Unlocked, Quiet, Unregister,
       Goto, Forget, handle, locals
  <1>4. AddressGiven'
    BY DEF IInv, TypeOK, JInv, AddressGiven, MappedBit, MapCount,
       Unregister, Goto, Forget, handle, locals
  <1>5. FlagUp'
    BY DEF IInv, TypeOK, JInv, FlagUp, Unflushed, Software, Usages,
       Unregister, Goto, Forget, handle, locals
  <1>6. FlagSet'
    BY DEF IInv, TypeOK, JInv, FlagSet, FlagUp, Unflushed, Quiet, Usages,
       Unregister, Goto, Forget, handle, locals
  <1>7. Flushers'
    BY DEF IInv, TypeOK, JInv, Flushers, FlagSet, FlagUp, Unflushed, Usages,
       Quiet, Unregister, Goto, Forget, handle, locals
  <1>8. QED BY <1>1, <1>2, <1>3, <1>4, <1>5, <1>6, <1>7 DEF JInv

\* Every step keeps the second invariant, given the first.
LEMMA NextKeepsMap == IInv /\ JInv /\ [Next]_vars => JInv'
  <1> SUFFICES ASSUME IInv, JInv, [Next]_vars PROVE JInv' OBVIOUS
  <1>1. CASE UNCHANGED vars
    BY <1>1 DEF JInv, MapLockOK, MappedBit, MapCount, AddressGiven, FlagUp,
                FlagSet, Flushers, vars
  <1>2. ASSUME NEW t \in Threads, LockCall(t) \/ UnlockCall(t) \/ InCall(t)
        PROVE  JInv'
    BY <1>2, LockCallKeepsMap, LockReadKeepsMap, LockCasKeepsMap,
       StoreOwnerKeepsMap, MapLockKeepsMap, MapKeepsMap, SetMappedKeepsMap,
       MapUnlockKeepsMap, LockReturnKeepsMap, UnlockCallKeepsMap,
       FlushKeepsMap, UnlockReadKeepsMap, UnlockCasKeepsMap DEF InCall
  <1>3. QED
    BY <1>1, <1>2, RegisterKeepsMap, UnregisterKeepsMap DEF Next

\* The second invariant, on which the next theorems rest.
THEOREM MapInvariance == Spec => []JInv
  <1>1. IInv /\ JInv /\ [Next]_vars => JInv'
    BY NextKeepsMap
  <1>2. QED BY <1>1, InitJInv, Invariance, PTL DEF Spec

\* Whoever was told that the CPU may use the buffer has its address while it
\* is mapped, one thread maps it, and unregistering leaves nothing mapped.
THEOREM AlwaysMappedForUsers == Spec => []MappedForUsers
  <1>1. JInv => MappedForUsers
    <2> SUFFICES ASSUME JInv PROVE HeldIsMapped /\ MappedOnce
      BY DEF MappedForUsers
    <2>1. HeldIsMapped
      BY DEF JInv, HeldIsMapped, AddressGiven, MappedBit, MapCount, Flushers,
             Software
    <2>2. MappedOnce
      BY DEF JInv, MappedOnce, MapCount
    <2>3. QED BY <2>1, <2>2
  <1>2. QED BY <1>1, MapInvariance, PTL

\* The flag is up while a thread that wrote with the CPU has the buffer, and
\* down when none has: the cache is clean for the next user.
THEOREM AlwaysFlushedBeforeRelease == Spec => []FlushedBeforeRelease
  <1>1. JInv => FlushedBeforeRelease
    <2> SUFFICES ASSUME JInv PROVE FlushedBeforeRelease
      OBVIOUS
    <2>1. \A t \in Threads : pc[t] = "held" /\ usage[t] = "sw_write" =>
            needsFlush \/ kind = "framebuffer"
      BY DEF JInv, FlagUp, Unflushed
    <2>2. ASSUME needsFlush, phase # "gone"
          PROVE  \E t \in HoldingWriters : usage[t] = "sw_write"
      BY <2>2 DEF JInv, FlagSet, Unflushed, HoldingWriters, Holders, AfterCas,
                  Writing
    <2>3. QED BY <2>1, <2>2 DEF FlushedBeforeRelease
  <1>2. QED BY <1>1, MapInvariance, PTL

-----------------------------------------------------------------------------
(* The refinement of ReadersWriter *)

\* No thread holds the buffer at the start.
LEMMA InitRefines == Init => Lock!Init
  BY DEF Init, Lock!Init, Holders, HoldingWriters, AfterCas

\* A step that leaves the holders alone is a stutter of the abstract lock.
LEMMA SameIsStutter == SameHolders => LockStep
  BY DEF SameHolders, LockStep

\* The steps of a call but the two swaps and the end of an unlock that is
\* refused leave the holders alone.
LEMMA OthersRefine ==
    ASSUME IInv, NEW t \in Threads,
           \/ LockCall(t) \/ LockRead(t) \/ StoreOwner(t) \/ MapLock(t)
           \/ Map(t) \/ SetMapped(t) \/ MapUnlock(t) \/ LockReturn(t)
           \/ UnlockCall(t) \/ Flush(t)
    PROVE  SameHolders
  <1>1. CASE LockCall(t) \/ LockRead(t)
    BY <1>1 DEF IInv, TypeOK, SameHolders, Holders, HoldingWriters, AfterCas,
                LockCall, LockRead, Goto
  <1>2. CASE ~(LockCall(t) \/ LockRead(t))
    <2>1. usage' = usage /\ pc[t] \in AfterCas
      BY <1>2 DEF AfterCas, StoreOwner, MapLock, Map, SetMapped, MapUnlock,
                  LockReturn, UnlockCall, Flush
    <2>2. \E l \in AfterCas : pc' = [pc EXCEPT ![t] = l]
      BY <1>2 DEF AfterCas, StoreOwner, MapLock, Map, SetMapped, MapUnlock,
                  LockReturn, UnlockCall, Flush, Goto
    <2>3. \A u \in Threads : pc'[u] \in AfterCas <=> pc[u] \in AfterCas
      BY <2>1, <2>2 DEF IInv, TypeOK
    <2>4. QED BY <2>1, <2>3 DEF SameHolders, Holders, HoldingWriters
  <1>3. QED BY <1>1, <1>2

\* A lock acquires when its swap succeeds: what it read is what is there, and
\* let it try.
LEMMA LockCasRefines ==
    ASSUME IInv, NEW t \in Threads, LockCas(t)
    PROVE  LockStep
  <1>1. CASE lockState # current[t]
    <2>1. SameHolders
      BY <1>1 DEF IInv, TypeOK, LockCas, Goto, SameHolders, Holders,
                  HoldingWriters, AfterCas
    <2>2. QED BY <2>1, SameIsStutter
  <1>2. CASE lockState = current[t]
    <2>1. /\ pc[t] = "lockcas" /\ usage' = usage
          /\ pc' = [pc EXCEPT ![t] = "owner"]
      BY <1>2 DEF LockCas, Goto
    <2>2. /\ t \notin Holders /\ Holders' = Holders \cup {t}
          /\ HoldingWriters' = IF usage[t] \in Writing
                               THEN HoldingWriters \cup {t}
                               ELSE HoldingWriters
      BY <2>1 DEF IInv, TypeOK, Holders, HoldingWriters, AfterCas
    <2>3. ~Busy(lockState, usage[t])
      BY <1>2, <2>1 DEF IInv, ReadFree
    <2>4. HoldingWriters = {}
      BY <2>3 DEF Busy, IInv, WriteBit, Writes, Holds, HoldingWriters, Holders
    <2>5. CASE usage[t] \notin Writing
      <3>1. Lock!AcquireRead(t)
        BY <2>2, <2>4, <2>5 DEF Lock!AcquireRead
      <3>2. QED BY <3>1 DEF LockStep, Lock!Next
    <2>6. CASE usage[t] \in Writing
      <3>1. ~(lockState.count > 0) /\ lockState.count = Cardinality(Holders)
        BY <2>3, <2>6 DEF Busy, IInv, CountHolders
      <3>2. Cardinality(Holders) \in Nat
        BY HoldersFinite, FS_CardinalityType
      <3>3. Cardinality(Holders) = 0
        BY <3>1, <3>2
      <3>4. Holders = {}
        BY <3>3, HoldersFinite, FS_EmptySet
      <3>5. Lock!AcquireWrite(t)
        BY <2>2, <2>4, <2>6, <3>4 DEF Lock!AcquireWrite
      <3>6. QED BY <3>5 DEF LockStep, Lock!Next
    <2>7. QED BY <2>5, <2>6
  <1>3. QED BY <1>1, <1>2

\* An unlock releases when its swap succeeds.
LEMMA UnlockRefines ==
    ASSUME IInv, NEW t \in Threads, UnlockRead(t) \/ UnlockCas(t)
    PROVE  LockStep
  <1>1. ASSUME usage' = usage, NEW l \in {"unlock", "unlockcas"},
               pc[t] \in {"unlock", "unlockcas"}, Goto(t, l)
        PROVE  LockStep
    <2>1. SameHolders
      BY <1>1 DEF IInv, TypeOK, Goto, SameHolders, Holders, HoldingWriters,
                  AfterCas
    <2>2. QED BY <2>1, SameIsStutter
  <1>2. CASE UnlockRead(t)
    <2>1. Holds(t)
      BY <1>2 DEF UnlockRead, Holds, AfterCas
    <2>2. lockState.count # 0
      BY <2>1, HolderCounted DEF IInv
    <2>3. QED BY <1>1, <1>2, <2>2 DEF UnlockRead
  <1>3. CASE UnlockCas(t) /\ lockState # current[t]
    BY <1>1, <1>3 DEF UnlockCas
  <1>4. CASE UnlockCas(t) /\ lockState = current[t]
    <2>1. /\ pc[t] = "unlockcas" /\ pc' = [pc EXCEPT ![t] = "idle"]
          /\ usage' = [usage EXCEPT ![t] = "hw_read"]
      BY <1>4 DEF UnlockCas, Goto
    <2>2. /\ t \in Holders /\ Holders' = Holders \ {t}
          /\ HoldingWriters' = HoldingWriters \ {t}
      BY <2>1 DEF IInv, TypeOK, Holders, HoldingWriters, AfterCas
    <2>3. Lock!Release(t)
      BY <2>2 DEF Lock!Release, HoldingWriters
    <2>4. QED BY <2>3 DEF LockStep, Lock!Next
  <1>5. QED BY <1>2, <1>3, <1>4

\* Registering happens before anybody holds the buffer, and unregistering
\* drops what a failed mapping left.
LEMMA RegisteringRefines ==
    ASSUME IInv, Register \/ Unregister
    PROVE  LockStep
  <1>1. CASE Register
    <2>1. SameHolders
      BY <1>1 DEF Register, locals, SameHolders, Holders, HoldingWriters
    <2>2. QED BY <2>1, SameIsStutter
  <1>2. CASE Unregister
    <2>1. Holders' = {} /\ HoldingWriters' = {}
      BY <1>2 DEF Unregister, Holders, HoldingWriters, AfterCas
    <2>2. Lock!Drop
      BY <2>1 DEF Lock!Drop
    <2>3. QED BY <2>2 DEF LockStep, Lock!Next
  <1>3. QED BY <1>1, <1>2

\* gralloc_lock and gralloc_unlock implement a readers-writer lock, for any
\* number of threads.
THEOREM ImplementsLock == Spec => LockSpec
  <1>1. IInv /\ [Next]_vars => LockStep
    <2> SUFFICES ASSUME IInv, [Next]_vars PROVE LockStep OBVIOUS
    <2>1. CASE UNCHANGED vars
      <3>1. SameHolders
        BY <2>1 DEF vars, SameHolders, Holders, HoldingWriters
      <3>2. QED BY <3>1, SameIsStutter
    <2>2. QED BY <2>1, OthersRefine, SameIsStutter, LockCasRefines,
                 UnlockRefines, RegisteringRefines DEF Next, InCall
  <1>2. QED BY <1>1, InitRefines, Invariance, PTL
            DEF Spec, LockSpec, Lock!Spec, LockStep
=============================================================================
