---------------------------- MODULE MCMppCluster ----------------------------
(***************************************************************************)
(* Instances of MppCluster for TLC.                                         *)
(***************************************************************************)
EXTENDS MppCluster

CONSTANTS c1, c2, n1

\* One client attaches and detaches every node.
OneOwner == [n \in Nodes |-> c1]
=============================================================================
