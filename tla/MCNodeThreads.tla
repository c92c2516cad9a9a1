--------------------------- MODULE MCNodeThreads ---------------------------
(* Model checking of NodeThreads.                                          *)
EXTENDS NodeThreads
=============================================================================
