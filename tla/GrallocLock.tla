---------------------------- MODULE GrallocLock -----------------------------
(***************************************************************************)
(* gralloc_lock, gralloc_unlock and gralloc_(un)register_buffer of         *)
(* src/libgralloc/mapper.cpp on one buffer handle of a process, called by  *)
(* the process's threads.  lockState is read and then compared and swapped *)
(* in separate steps; sMapLock is held from MapLock to MapUnlock.          *)
(*                                                                         *)
(* A thread here is one use of the buffer: it locks, and unlocks what it   *)
(* locked if the call returned 0.  The handle comes in three kinds: made   *)
(* by this process, received from another one, or a framebuffer handle.    *)
(***************************************************************************)
EXTENDS Integers, FiniteSets

CONSTANTS Threads, NoThread

ASSUME NoThreadAssumption == NoThread \notin Threads

ASSUME FiniteThreads == IsFiniteSet(Threads)

VARIABLES kind,        \* what sort of handle this is
          phase,       \* "new", "registered" or "gone"
          lockState,   \* the bits WRITE and MAPPED, and the count of locks
          writeOwner,
          needsFlush,  \* PRIV_FLAGS_NEEDS_FLUSH of hnd->flags
          base,        \* whether hnd->base is an address or 0
          mappings,    \* calls of mmap for the handle less those of munmap
          sMapLock,    \* the thread holding it
          pc,          \* where in its call each thread is
          usage,       \* what each thread locks the buffer for
          current,     \* current_value of each thread
          new,         \* new_value of each thread in unlock
          vaddr        \* whether each thread was given an address

handle == <<kind, phase, lockState, writeOwner, needsFlush, base, mappings, sMapLock>>
locals == <<pc, usage, current, new, vaddr>>
vars   == <<kind, phase, lockState, writeOwner, needsFlush, base, mappings,
            sMapLock, pc, usage, current, new, vaddr>>

Kinds   == {"own", "received", "framebuffer"}
Usages  == {"sw_read", "sw_write", "hw_read", "hw_render"}
Writing == {"sw_write", "hw_render"}
Software == {"sw_read", "sw_write"}

Unlocked == [write |-> FALSE, mapped |-> FALSE, count |-> 0]

\* Where the thread's lock counts in lockState.
AfterCas == {"owner", "map", "mapping", "mapped", "setmapped", "mapfailed",
             "got", "held", "flush", "unlock", "unlockcas", "lost"}
PCs == AfterCas \cup {"idle", "lock", "lockcas"}

Init == /\ kind \in Kinds
        /\ phase = "new"
        /\ lockState = [Unlocked EXCEPT !.mapped = (kind = "own")]
        /\ writeOwner = NoThread
        /\ needsFlush = FALSE
        /\ base = (kind # "received")
        /\ mappings = 0
        /\ sMapLock = NoThread
        /\ pc = [t \in Threads |-> "idle"]
        /\ usage = [t \in Threads |-> "hw_read"]
        /\ current = [t \in Threads |-> Unlocked]
        /\ new = [t \in Threads |-> Unlocked]
        /\ vaddr = [t \in Threads |-> FALSE]

Goto(t, l) == pc' = [pc EXCEPT ![t] = l]

\* current_value is given a fixed value once nothing reads it any more, and
\* so are the other locals: states do not differ in what is dead.
Forget(t) == current' = [current EXCEPT ![t] = Unlocked]

-----------------------------------------------------------------------------
(* gralloc_register_buffer and gralloc_unregister_buffer *)

Register ==
    /\ phase = "new"
    /\ phase' = "registered"
    /\ IF kind = "received"
       THEN base' = FALSE /\ lockState' = Unlocked /\ writeOwner' = NoThread
       ELSE UNCHANGED <<base, lockState, writeOwner>>
    /\ UNCHANGED <<kind, needsFlush, mappings, sMapLock, locals>>

\* Called when no thread uses the buffer.  A lock whose mapping failed may
\* still be counted; the code logs it.
Unregister ==
    /\ phase = "registered"
    /\ \A t \in Threads : pc[t] \in {"idle", "lost"}
    /\ phase' = "gone"
    /\ IF kind = "received"
       THEN /\ mappings' = IF lockState.mapped THEN mappings - 1 ELSE mappings
            /\ base' = FALSE /\ lockState' = Unlocked /\ writeOwner' = NoThread
       ELSE UNCHANGED <<mappings, base, lockState, writeOwner>>
    /\ pc' = [t \in Threads |-> "idle"]
    /\ usage' = [t \in Threads |-> "hw_read"]
    /\ UNCHANGED <<kind, needsFlush, sMapLock, current, new, vaddr>>

-----------------------------------------------------------------------------
(* gralloc_lock *)

LockCall(t) ==
    /\ phase = "registered" /\ pc[t] = "idle"
    /\ \E u \in Usages : usage' = [usage EXCEPT ![t] = u]
    /\ Goto(t, "lock")
    /\ UNCHANGED <<handle, current, new, vaddr>>

\* Faulty variant: a writer does not look for readers.
BusyIfWritten(s, u) == s.write

Busy(s, u) == s.write \/ (s.count > 0 /\ u \in Writing)

LockRead(t) ==
    /\ pc[t] = "lock"
    /\ IF Busy(lockState, usage[t])
       THEN /\ Goto(t, "idle")
            /\ usage' = [usage EXCEPT ![t] = "hw_read"]
            /\ UNCHANGED current
       ELSE /\ Goto(t, "lockcas")
            /\ current' = [current EXCEPT ![t] = lockState]
            /\ UNCHANGED usage
    /\ UNCHANGED <<handle, new, vaddr>>

Locked(s, u) ==
    [s EXCEPT !.write = @ \/ u \in Writing, !.count = @ + 1]

\* Faulty variant: the new value is stored without comparing.
LockStore(t) ==
    /\ pc[t] = "lockcas"
    /\ lockState' = Locked(current[t], usage[t])
    /\ Goto(t, "owner")
    /\ UNCHANGED <<kind, phase, writeOwner, needsFlush, base, mappings, sMapLock,
                   current, usage, new, vaddr>>

LockCas(t) ==
    /\ pc[t] = "lockcas"
    /\ IF lockState = current[t]
       THEN /\ lockState' = Locked(current[t], usage[t])
            /\ Goto(t, "owner")
            /\ UNCHANGED current
       ELSE Goto(t, "lock") /\ Forget(t) /\ UNCHANGED lockState
    /\ UNCHANGED <<kind, phase, writeOwner, needsFlush, base, mappings, sMapLock,
                   usage, new, vaddr>>

\* The writer's tid, and the flag that has the cache cleaned at unlock.
StoreOwner(t) ==
    /\ pc[t] = "owner"
    /\ writeOwner' = IF usage[t] \in Writing THEN t ELSE writeOwner
    /\ needsFlush' = (needsFlush \/ (usage[t] = "sw_write" /\ kind # "framebuffer"))
    /\ Goto(t, IF usage[t] \in Software /\ ~current[t].mapped THEN "map"
                                                               ELSE "got")
    /\ Forget(t)
    /\ UNCHANGED <<kind, phase, lockState, base, mappings, sMapLock,
                   usage, new, vaddr>>

MapLock(t) ==
    /\ pc[t] = "map" /\ sMapLock = NoThread
    /\ sMapLock' = t
    /\ Goto(t, IF lockState.mapped THEN "mapped" ELSE "mapping")
    /\ UNCHANGED <<kind, phase, lockState, writeOwner, needsFlush, base, mappings,
                   usage, current, new, vaddr>>

\* gralloc_map; it has nothing to do for a framebuffer handle.
Map(t) ==
    /\ pc[t] = "mapping"
    /\ \/ /\ kind = "framebuffer"
          /\ Goto(t, "setmapped")
          /\ UNCHANGED <<base, mappings>>
       \/ /\ kind # "framebuffer"
          /\ base' = TRUE /\ mappings' = mappings + 1
          /\ Goto(t, "setmapped")
       \/ /\ kind # "framebuffer"                        \* MAP_FAILED
          /\ base' = FALSE
          /\ Goto(t, "mapfailed")
          /\ UNCHANGED mappings
    /\ UNCHANGED <<kind, phase, lockState, writeOwner, needsFlush, sMapLock,
                   usage, current, new, vaddr>>

SetMapped(t) ==
    /\ pc[t] = "setmapped"
    /\ lockState' = [lockState EXCEPT !.mapped = TRUE]
    /\ Goto(t, "mapped")
    /\ UNCHANGED <<kind, phase, writeOwner, needsFlush, base, mappings, sMapLock,
                   usage, current, new, vaddr>>

\* Faulty variant: the error of gralloc_map is ignored.
MapUnlockIgnoring(t) ==
    /\ pc[t] \in {"mapped", "mapfailed"}
    /\ sMapLock' = NoThread
    /\ Goto(t, "got")
    /\ UNCHANGED <<kind, phase, lockState, writeOwner, needsFlush, base, mappings,
                   usage, current, new, vaddr>>

\* Faulty variant: an error is returned with sMapLock still held.
MapUnlockForgetting(t) ==
    /\ pc[t] \in {"mapped", "mapfailed"}
    /\ sMapLock' = IF pc[t] = "mapped" THEN NoThread ELSE t
    /\ Goto(t, IF pc[t] = "mapped" THEN "got" ELSE "lost")
    /\ UNCHANGED <<kind, phase, lockState, writeOwner, needsFlush, base, mappings,
                   usage, current, new, vaddr>>

\* The error of gralloc_map is returned with the lock still counted.
MapUnlock(t) ==
    /\ pc[t] \in {"mapped", "mapfailed"}
    /\ sMapLock' = NoThread
    /\ Goto(t, IF pc[t] = "mapped" THEN "got" ELSE "lost")
    /\ UNCHANGED <<kind, phase, lockState, writeOwner, needsFlush, base, mappings,
                   usage, current, new, vaddr>>

LockReturn(t) ==
    /\ pc[t] = "got"
    /\ vaddr' = [vaddr EXCEPT ![t] = usage[t] \in Software /\ base]
    /\ Goto(t, "held")
    /\ UNCHANGED <<handle, usage, current, new>>

-----------------------------------------------------------------------------
(* gralloc_unlock *)

UnlockCall(t) ==
    /\ pc[t] = "held"
    /\ Goto(t, IF needsFlush THEN "flush" ELSE "unlock")
    /\ vaddr' = [vaddr EXCEPT ![t] = FALSE]
    /\ UNCHANGED <<handle, usage, current, new>>

\* Faulty variant: the flag is not cleared by the flush.
FlushAgain(t) ==
    /\ pc[t] = "flush"
    /\ Goto(t, "unlock")
    /\ UNCHANGED <<handle, usage, current, new, vaddr>>

\* PMEM_CLEAN_CACHES at hnd->base.
Flush(t) ==
    /\ pc[t] = "flush"
    /\ needsFlush' = FALSE
    /\ Goto(t, "unlock")
    /\ UNCHANGED <<kind, phase, lockState, writeOwner, base, mappings, sMapLock,
                   usage, current, new, vaddr>>

Mine(t) == lockState.write /\ writeOwner = t

UnlockRead(t) ==
    /\ pc[t] = "unlock"
    /\ writeOwner' = IF Mine(t) THEN NoThread ELSE writeOwner
    /\ IF lockState.count = 0
       THEN /\ Goto(t, "idle")                             \* -EINVAL
            /\ usage' = [usage EXCEPT ![t] = "hw_read"]
            /\ UNCHANGED <<current, new>>
       ELSE /\ Goto(t, "unlockcas")
            /\ current' = [current EXCEPT ![t] = lockState]
            /\ new' = [new EXCEPT ![t] = [lockState EXCEPT
                                            !.write = @ /\ ~Mine(t),
                                            !.count = @ - 1]]
            /\ UNCHANGED usage
    /\ UNCHANGED <<kind, phase, lockState, needsFlush, base, mappings, sMapLock,
                   vaddr>>

\* Faulty variant: the new value is stored without comparing.
UnlockStore(t) ==
    /\ pc[t] = "unlockcas"
    /\ lockState' = new[t]
    /\ Goto(t, "idle")
    /\ usage' = [usage EXCEPT ![t] = "hw_read"]
    /\ Forget(t)
    /\ new' = [new EXCEPT ![t] = Unlocked]
    /\ UNCHANGED <<kind, phase, writeOwner, needsFlush, base, mappings, sMapLock,
                   vaddr>>

UnlockCas(t) ==
    /\ pc[t] = "unlockcas"
    /\ IF lockState = current[t]
       THEN /\ lockState' = new[t]
            /\ Goto(t, "idle")
            /\ usage' = [usage EXCEPT ![t] = "hw_read"]
       ELSE Goto(t, "unlock") /\ UNCHANGED <<lockState, usage>>
    /\ Forget(t)
    /\ new' = [new EXCEPT ![t] = Unlocked]
    /\ UNCHANGED <<kind, phase, writeOwner, needsFlush, base, mappings, sMapLock,
                   vaddr>>

-----------------------------------------------------------------------------

InCall(t) == \/ LockRead(t) \/ LockCas(t) \/ StoreOwner(t)
             \/ MapLock(t) \/ Map(t) \/ SetMapped(t) \/ MapUnlock(t)
             \/ LockReturn(t)
             \/ Flush(t) \/ UnlockRead(t) \/ UnlockCas(t)

Next == \/ Register \/ Unregister
        \/ \E t \in Threads : LockCall(t) \/ UnlockCall(t) \/ InCall(t)

Spec == Init /\ [][Next]_vars

\* A thread goes on in a call it has begun.
FairSpec == Spec /\ \A t \in Threads : WF_vars(InCall(t))

-----------------------------------------------------------------------------
(* Properties *)

States == [write : BOOLEAN, mapped : BOOLEAN, count : Int]

\* The variables have their types.
TypeOK == /\ kind \in Kinds
          /\ phase \in {"new", "registered", "gone"}
          /\ lockState \in States
          /\ writeOwner \in Threads \cup {NoThread}
          /\ needsFlush \in BOOLEAN /\ base \in BOOLEAN /\ mappings \in Int
          /\ sMapLock \in Threads \cup {NoThread}
          /\ pc \in [Threads -> PCs]
          /\ usage \in [Threads -> Usages]
          /\ current \in [Threads -> States]
          /\ new \in [Threads -> States]
          /\ vaddr \in [Threads -> BOOLEAN]

Holders == {t \in Threads : pc[t] \in AfterCas}
HoldingWriters == {t \in Holders : usage[t] \in Writing}

\* A thread that writes the buffer has it alone, however the calls of several
\* threads interleave (the compare-and-swap loop of gralloc_lock).
WriterAlone == \A t \in HoldingWriters : Holders = {t}

\* The lock word tells who holds the buffer: as many locks as it counts, and
\* WRITE set exactly while a writer holds it.  In particular the owner test
\* of gralloc_unlock never leaves WRITE set by a writer that is gone.
LockWordAgrees == /\ lockState.count = Cardinality(Holders)
                  /\ lockState.write <=> HoldingWriters # {}

\* A thread told that it has the buffer for the CPU has its address, while
\* the buffer is mapped (the MAPPED bit may have been read before the map).
HeldIsMapped == \A t \in Threads :
    /\ pc[t] = "held" /\ usage[t] \in Software => vaddr[t] /\ base
    /\ pc[t] = "flush" => base

\* Of the threads that first use a received buffer one maps it, and
\* unregistering leaves nothing mapped (gralloc_map, gralloc_unmap).
MappedOnce == /\ mappings <= 1
              /\ phase = "gone" => mappings = 0

\* The buffer is mapped once, as long as a thread may use its address and not
\* after it was unregistered, whoever maps it.
MappedForUsers == HeldIsMapped /\ MappedOnce

\* What the CPU wrote is flushed before any other user gets the buffer: the
\* flag is up while its writer has the buffer and down when nobody has.
FlushedBeforeRelease ==
    /\ \A t \in Threads : pc[t] = "held" /\ usage[t] = "sw_write" =>
          needsFlush \/ kind = "framebuffer"
    /\ needsFlush /\ phase # "gone" =>
          \E t \in HoldingWriters : usage[t] = "sw_write"

\* A thread whose lock is counted gets its answer; no path keeps sMapLock.
LockAnswered == \A t \in Threads :
    pc[t] = "owner" ~> pc[t] \in {"held", "lost"}

Lock == INSTANCE ReadersWriter WITH Users   <- Threads,
                                    readers <- Holders \ HoldingWriters,
                                    writers <- HoldingWriters

\* The calls implement a readers-writer lock.
LockSpec == Lock!Spec
=============================================================================
