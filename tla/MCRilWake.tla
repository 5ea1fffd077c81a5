----------------------------- MODULE MCRilWake ------------------------------
(* Model checking instance of RilWake: one vendor thread, or two that send  *)
(* at the same time; blocks enough that malloc need not reuse one at once.  *)
EXTENDS RilWake
CONSTANTS v1, v2, i1, i2, i3
MCOne   == {v1}
MCTwo   == {v1, v2}
MCInfos == {i1, i2, i3}
=============================================================================
