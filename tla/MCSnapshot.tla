----------------------------- MODULE MCSnapshot -----------------------------
(* One client, given one or both stores of a location, lists while events  *)
(* keep coming for both and fill its queue.                                *)
EXTENDS Distributor, TLC

CONSTANTS r1, l1, s1, s2, n1, n2, n3, c1, q1

MCRegionOf == l1 :> r1
MCLocOf == (s1 :> l1) @@ (s2 :> l1)
MCLocationOf == [n \in {n1, n2, n3} |-> l1]
MCStoreOf == (1 :> s1) @@ (2 :> s2) @@ (3 :> s1)
MCHashOf == (n1 :> 1) @@ (n2 :> 2) @@ (n3 :> 3)
MCClientOf == q1 :> c1
MCRequestedHostNum == q1 :> 2

(* The initial pull is over: the three nodes are stored, nobody registered. *)
AddedNode == (1 :> n1) @@ (2 :> n2) @@ (3 :> n3)
PulledInit ==
  /\ nodeEventByHash = [h \in Hashes |-> [type |-> "Added", id |-> AddedNode[h], rv |-> h]]
  /\ fed = [n \in NodeIds |-> HashOf[n]]
  /\ totalHostNum = 3
  /\ currentRVs = [loc \in Locations |-> 3]
  /\ clientId = [s \in Stores |-> None]
  /\ eventQueue = [s \in Stores |-> None]
  /\ queues = [c \in Clients |-> EmptyQueue]
  /\ snapshotReaders = {}
  /\ proc = [r \in Regions |-> Idle]
  /\ DistInit

PulledSpec == PulledInit /\ FairNext
=============================================================================
