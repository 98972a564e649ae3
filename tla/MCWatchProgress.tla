--------------------------- MODULE MCWatchProgress ---------------------------
(* Two watches of one location that may overlap or follow each other.      *)
EXTENDS WatchSession, TLC

CONSTANTS l1, w1, w2

MCResumePoints == {l1 :> 1, l1 :> 0}
=============================================================================
