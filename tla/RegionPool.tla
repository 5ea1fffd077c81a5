----------------------------- MODULE RegionPool -----------------------------
(***************************************************************************)
(* What libgralloc promises of its contiguous memory: every client that    *)
(* asks is given a region of the heap, and the regions held at the same    *)
(* time never overlap.  How a region is chosen is left open.               *)
(***************************************************************************)
EXTENDS Integers

CONSTANTS Clients, Limit

VARIABLE granted   \* the region each client holds, as the bytes [from, to)

Region   == [from : 0..Limit, to : 0..Limit]
NoRegion == [from |-> 0, to |-> 0]

Apart(r, s) == r.to <= s.from \/ s.to <= r.from

Init == granted = [c \in Clients |-> NoRegion]

Grant(c) == /\ granted[c] = NoRegion
            /\ granted'[c] \in Region
            /\ granted'[c].from < granted'[c].to
            /\ \A d \in Clients \ {c} : Apart(granted[d], granted'[c])
            /\ granted' = [granted EXCEPT ![c] = granted'[c]]

Return(c) == /\ granted[c] # NoRegion
             /\ granted' = [granted EXCEPT ![c] = NoRegion]

Next == \E c \in Clients : Grant(c) \/ Return(c)

Spec == Init /\ [][Next]_granted
=============================================================================
