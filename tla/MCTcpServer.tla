---------------------------- MODULE MCTcpServer ----------------------------
(* Model checking of TcpServer.  Clients are interchangeable, which is     *)
(* used where no liveness property is checked.                             *)
EXTENDS TcpServer, TLC

Symmetry == Permutations(Id)
=============================================================================
