---------------------------- MODULE MCRilRequest ----------------------------
(* Model checking instance of RilRequest: two requests and a vendor thread  *)
(* beside the dispatch thread, which sends, too, so that a send races       *)
(* another and a close; and two connections, so that a late send finds a    *)
(* later client behind Fd.                                                  *)
EXTENDS RilRequest
CONSTANTS r1, r2, v1, disp
MCDispatch == disp
MCRequests == {r1, r2}
MCVendors  == {v1}
MCOneRequest == {r1}
=============================================================================
