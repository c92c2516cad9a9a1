---------------------------- MODULE MCClusterNode ----------------------------
EXTENDS ClusterNode, TLC

IdSymmetry == Permutations(Id)
=============================================================================
