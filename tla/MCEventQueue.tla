---------------------------- MODULE MCEventQueue ----------------------------
(* A queue of three slots, wrapped around twice, under a reader that may   *)
(* pause between its lookup and its fetch for as long as it takes.         *)
EXTENDS EventQueue

CONSTANTS n1, n2
=============================================================================
