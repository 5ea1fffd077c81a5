--------------------------- MODULE ReadersWriter ----------------------------
(***************************************************************************)
(* What gralloc_lock and gralloc_unlock promise: a buffer is held by any   *)
(* number of users that read it, or by one that writes it.                 *)
(***************************************************************************)
CONSTANTS Users

VARIABLES readers, writers   \* the users that hold the buffer

Init == readers = {} /\ writers = {}

AcquireRead(u) == /\ u \notin readers
                  /\ writers = {}
                  /\ readers' = readers \cup {u}
                  /\ UNCHANGED writers

AcquireWrite(u) == /\ readers \cup writers = {}
                   /\ writers' = {u}
                   /\ UNCHANGED readers

Release(u) == /\ u \in readers \cup writers
              /\ readers' = readers \ {u}
              /\ writers' = writers \ {u}

\* The process drops the buffer, and with it whatever is still held.
Drop == readers' = {} /\ writers' = {}

Next == Drop \/ \E u \in Users : AcquireRead(u) \/ AcquireWrite(u) \/ Release(u)

Spec == Init /\ [][Next]_<<readers, writers>>
=============================================================================
