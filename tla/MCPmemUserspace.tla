-------------------------- MODULE MCPmemUserspace ---------------------------
(* Model checking instance of PmemUserspace: a heap of four pages, and     *)
(* requests below, at and above a page, so that alignment leaves gaps.     *)
EXTENDS PmemUserspace
CONSTANTS b1, b2, b3
MCBuffers == {b1, b2, b3}
MCSizes   == {100, 4096, 6000}
=============================================================================
