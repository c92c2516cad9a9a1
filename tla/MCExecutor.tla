----------------------------- MODULE MCExecutor -----------------------------
(* Model checking of Executor.  Processes are interchangeable: none of the *)
(* properties checked with this symmetry is a liveness property.           *)
EXTENDS Executor, TLC

Symmetry == Permutations(Process)
=============================================================================
