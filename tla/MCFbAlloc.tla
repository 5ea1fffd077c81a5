----------------------------- MODULE MCFbAlloc ------------------------------
(* Model checking instance of FbAlloc: one thread, or two.                  *)
EXTENDS FbAlloc
CONSTANTS t1, t2
MCOne == {t1}
MCTwo == {t1, t2}
=============================================================================
