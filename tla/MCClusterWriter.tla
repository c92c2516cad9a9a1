-------------------------- MODULE MCClusterWriter --------------------------
(* Model checking of ClusterWriter.                                        *)
EXTENDS ClusterWriter
=============================================================================
