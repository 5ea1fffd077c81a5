------------------------------ MODULE MCFbPost ------------------------------
(* Model checking instance of FbPost: a buffer more than there are indices, *)
(* and clients that leave the swap interval at 1 or change it.              *)
EXTENDS FbPost
CONSTANTS b1, b2, b3
MCThree == {b1, b2, b3}
MCHabits == {{1}, {0, 1}}
=============================================================================
