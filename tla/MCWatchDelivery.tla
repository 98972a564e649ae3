--------------------------- MODULE MCWatchDelivery ---------------------------
(* Two watches of a client whose stores lie in two locations, resumed from *)
(* what a list returned for both, for one, or from before a queue begins.  *)
EXTENDS WatchSession, TLC

CONSTANTS l1, l2, w1, w2

(* What a client is returned by a list before anything changes.            *)
ListedPoints == {(l1 :> 1) @@ (l2 :> 1)}
MCResumePoints == {(l1 :> 1) @@ (l2 :> 1), l1 :> 1, (l1 :> 0) @@ (l2 :> 1)}

(* The watches are named in the order in which they are called.            *)
CalledInOrder == watch[w2].pc # "idle" => watch[w1].pc # "idle"

(* Two events after the bookmarks: of both locations, or of the first.     *)
FewEvents == /\ Cardinality({e \in Event : version[e] # 0}) <= 4
             /\ version[Entry(l2, 3)] = 0
=============================================================================
