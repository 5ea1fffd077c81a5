------------------------------ MODULE FbAlloc -------------------------------
(***************************************************************************)
(* Framebuffer handles of src/libgralloc/gpu.cpp: which slots of the       *)
(* framebuffer are handed out, kept in the module's bufferMask.            *)
(* gralloc_alloc_framebuffer holds the module's lock from end to end;      *)
(* free_impl clears its bit without it.  bufferMask is updated by a load   *)
(* and a store.                                                            *)
(*                                                                         *)
(* The names leave room for those of FbPost, which posts these buffers: a  *)
(* module may extend both.                                                 *)
(***************************************************************************)
EXTENDS Integers, FiniteSets

CONSTANTS Threads, NoThread,
          MaxBuffers,   \* bound: the panel has room for 1..MaxBuffers buffers
          MaxHandles    \* bound: the handles a client has at a time

ASSUME FbAllocAssumption == /\ NoThread \notin Threads
                            /\ MaxBuffers \in Nat \ {0}
                            /\ MaxHandles \in Nat

VARIABLES framebuffer,   \* "null", "mapped", or "unmapped": made, its base is 0
          numBuffers,
          bufferMask,    \* the slots whose bit is set
          lock,          \* the thread holding the module's lock
          handles,       \* the handles clients have: [id, slot]
          pc,
          bufferMaskL,   \* the local copy of bufferMask
          loaded,        \* what an update of bufferMask loaded
          slot           \* the slot an update sets or clears

module    == <<framebuffer, numBuffers, bufferMask, lock, handles>>
allocVars == <<framebuffer, numBuffers, bufferMask, lock, handles, pc,
               bufferMaskL, loaded, slot>>

Slots == 0..(MaxBuffers - 1)
Ids   == 1..MaxHandles

AllocInit == /\ framebuffer = "null" /\ numBuffers = 0 /\ bufferMask = {}
             /\ lock = NoThread /\ handles = {}
             /\ pc = [t \in Threads |-> "idle"]
             /\ bufferMaskL = [t \in Threads |-> {}]
             /\ loaded = [t \in Threads |-> {}]
             /\ slot = [t \in Threads |-> 0]

Goto(t, l) == pc' = [pc EXCEPT ![t] = l]

\* The locals are dead, and the lock, if the thread had it, is given back.
Return(t) == /\ Goto(t, "idle")
             /\ bufferMaskL' = [bufferMaskL EXCEPT ![t] = {}]
             /\ loaded' = [loaded EXCEPT ![t] = {}]
             /\ slot' = [slot EXCEPT ![t] = 0]
             /\ lock' = IF lock = t THEN NoThread ELSE lock

-----------------------------------------------------------------------------
(* gralloc_alloc_framebuffer *)

\* (A usage with PMEM_ADSP is refused at once, and changes nothing.)
Alloc(t) ==
    /\ pc[t] = "idle" /\ lock = NoThread /\ Cardinality(handles) < MaxHandles
    /\ lock' = t
    /\ Goto(t, IF framebuffer = "null" THEN "map" ELSE "read")
    /\ UNCHANGED <<framebuffer, numBuffers, bufferMask, handles, bufferMaskL,
                   loaded, slot>>

MapSucceeds(t) ==
    /\ pc[t] = "map"
    /\ framebuffer' = "mapped"
    /\ numBuffers' \in 1..MaxBuffers
    /\ bufferMask' = {}
    /\ Goto(t, "read")
    /\ UNCHANGED <<lock, handles, bufferMaskL, loaded, slot>>

\* Anything up to the creation of the display thread failed.
MapFailsEarly(t) ==
    /\ pc[t] = "map"
    /\ Return(t)
    /\ UNCHANGED <<framebuffer, numBuffers, bufferMask, handles>>

\* mmap failed, when framebuffer, numBuffers and bufferMask are set.
MapFailsLate(t) ==
    /\ pc[t] = "map"
    /\ framebuffer' = "unmapped"
    /\ numBuffers' \in 1..MaxBuffers
    /\ bufferMask' = {}
    /\ Return(t)
    /\ UNCHANGED handles

\* One buffer is not flipped: the client gets a regular buffer instead.
ReadMask(t) ==
    /\ pc[t] = "read"
    /\ IF numBuffers = 1 \/ Cardinality(bufferMask) = numBuffers
       THEN Return(t)
       ELSE /\ bufferMaskL' = [bufferMaskL EXCEPT ![t] = bufferMask]
            /\ Goto(t, "set")
            /\ UNCHANGED <<lock, loaded, slot>>
    /\ UNCHANGED <<framebuffer, numBuffers, bufferMask, handles>>

IsFirstFree(mask, i) == i \notin mask /\ \A j \in 0..(i - 1) : j \in mask

LoadToSet(t) ==
    /\ pc[t] = "set"
    /\ \E i \in 0..MaxBuffers :
                        /\ IsFirstFree(bufferMaskL[t], i)
                        /\ slot' = [slot EXCEPT ![t] = i]
    /\ loaded' = [loaded EXCEPT ![t] = bufferMask]
    /\ Goto(t, "store")
    /\ UNCHANGED <<module, bufferMaskL>>

\* The store, and the return of a handle for the slot.
StoreSet(t) ==
    /\ pc[t] = "store"
    /\ bufferMask' = loaded[t] \cup {slot[t]}
    /\ \E id \in Ids : /\ \A h \in handles : h.id # id
                       /\ \A j \in 1..(id - 1) : \E h \in handles : h.id = j
                       /\ handles' = handles \cup {[id |-> id, slot |-> slot[t]]}
    /\ Return(t)
    /\ UNCHANGED <<framebuffer, numBuffers>>

-----------------------------------------------------------------------------
(* free_impl of a framebuffer handle *)

LoadToClear(t) ==
    /\ pc[t] = "idle"
    /\ \E h \in handles : /\ handles' = handles \ {h}
                          /\ slot' = [slot EXCEPT ![t] = h.slot]
    /\ loaded' = [loaded EXCEPT ![t] = bufferMask]
    /\ Goto(t, "clear")
    /\ UNCHANGED <<framebuffer, numBuffers, bufferMask, lock, bufferMaskL>>

\* Faulty variant: the slot's bit is not cleared.
StoreUncleared(t) ==
    /\ pc[t] = "clear"
    /\ bufferMask' = loaded[t]
    /\ Return(t)
    /\ UNCHANGED <<framebuffer, numBuffers, handles>>

StoreClear(t) ==
    /\ pc[t] = "clear"
    /\ bufferMask' = loaded[t] \ {slot[t]}
    /\ Return(t)
    /\ UNCHANGED <<framebuffer, numBuffers, handles>>

-----------------------------------------------------------------------------

InCall(t) == \/ MapSucceeds(t) \/ MapFailsEarly(t) \/ MapFailsLate(t)
             \/ ReadMask(t) \/ LoadToSet(t) \/ StoreSet(t) \/ StoreClear(t)

AllocNext == \E t \in Threads : Alloc(t) \/ LoadToClear(t) \/ InCall(t)

AllocSpec == AllocInit /\ [][AllocNext]_allocVars

-----------------------------------------------------------------------------
(* Properties *)

\* The variables have their types.
HandleTypes == /\ framebuffer \in {"null", "mapped", "unmapped"}
               /\ numBuffers \in 0..MaxBuffers
               /\ bufferMask \subseteq Slots
               /\ lock \in Threads \cup {NoThread}
               /\ handles \subseteq [id : Ids, slot : Slots]
               /\ pc \in [Threads -> {"idle", "map", "read", "set", "store",
                                      "clear"}]
               /\ bufferMaskL \in [Threads -> SUBSET Slots]
               /\ loaded \in [Threads -> SUBSET Slots]
               /\ slot \in [Threads -> Slots]

\* With calls of one thread the mask tells exactly which slots clients have,
\* within the framebuffer, also after a failure to map it.
MaskAgrees ==
    (\A t \in Threads : pc[t] = "idle") =>
        /\ bufferMask = {h.slot : h \in handles}
        /\ bufferMask \subseteq 0..(numBuffers - 1)

\* "find a free slot" (gralloc_alloc_framebuffer_locked): two handles never
\* are for the same part of the framebuffer.
HandlesApart == \A g, h \in handles : g.id # h.id => g.slot # h.slot

\* The mask and the handles that are out agree, and no slot is out twice.
SlotsAgree == MaskAgrees /\ HandlesApart

\* "the framebuffer is mapped once and forever"
\* (gralloc_alloc_framebuffer_locked): a handle's base is in mapped memory.
HandlesMapped == handles # {} => framebuffer = "mapped"
=============================================================================
