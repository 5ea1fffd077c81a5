---------------------------- MODULE MCRilEvent -----------------------------
(* Model checking instance of RilEvent: two timers, so that one is pending  *)
(* behind another, armed by a vendor thread and by callbacks; a client's    *)
(* descriptor is above those of the sockets it may be accepted from.        *)
EXTENDS RilEvent
CONSTANTS t1, t2, v1
MCTimers     == {t1, t2}
MCVendors    == {v1}
MCDelays     == {0, 1}
MCCommandFds == {5}
=============================================================================
