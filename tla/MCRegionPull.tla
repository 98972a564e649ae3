---------------------------- MODULE MCRegionPull ----------------------------
(* A region of two partitions, one of two nodes and one of a single node.  *)
EXTENDS RegionPull, TLC

CONSTANTS p1, p2, n1, n2, n3

MCPartitionOf == (n1 :> p1) @@ (n2 :> p1) @@ (n3 :> p2)
MCInitialRV == (n1 :> 1) @@ (n2 :> 2) @@ (n3 :> 1)
MCNodeOrder == <<n1, n2, n3>>
=============================================================================
