--------------------------- MODULE MCPersistence ---------------------------
(* A region of two nodes whose batches hold two events: a call of three    *)
(* events has two batches, and may change a node in both.                  *)
EXTENDS Persistence, TLC

CONSTANTS r1, n1, n2, c1

MCRegionOf == (n1 :> r1) @@ (n2 :> r1)
=============================================================================
