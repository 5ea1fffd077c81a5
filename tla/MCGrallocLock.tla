--------------------------- MODULE MCGrallocLock ----------------------------
(* Model checking instance of GrallocLock: three threads on one handle, the *)
(* fewest with which two compete while a third holds the buffer.            *)
EXTENDS GrallocLock
CONSTANTS t1, t2, t3
MCThreads == {t1, t2, t3}
=============================================================================
