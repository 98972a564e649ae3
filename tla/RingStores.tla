----------------------------- MODULE RingStores -----------------------------
(***************************************************************************)
(* The distributor on the hash ring: what Distributor takes as given, the  *)
(* position of a node and the store and location of a position, is         *)
(* computed as nodestore.go computes it.                                   *)
(***************************************************************************)
EXTENDS Distributor, HashRing

CONSTANTS
  RingValue    \* node -> its place in the arc of its location

(* getNodeHash and getVirtualNodeStore are all that places a node; a store *)
(* has the location it was generated for.  A node may be placed at the end *)
(* of its arc ("(lower, upper]"), but not at the end of the ring: for that *)
(* position the index is out of range, and the process panics.             *)
ASSUME RingStoresAssumption ==
  /\ LocationOf \in [NodeIds -> RegionIndexes \X ResourcePartitions]
  /\ RingValue \in [NodeIds -> 0..rpGrain]
  /\ \A n \in NodeIds : HashOf[n] # RingRange
  /\ \A n \in NodeIds :
       HashOf[n] = getNodeHash(LocationOf[n][1], LocationOf[n][2], RingValue[n])
  /\ \A h \in Hashes : StoreOf[h] = getVirtualNodeStore(h)
  /\ \A s \in Stores : LocOf[s] = <<StoreRegion(s), StorePartition(s)>>

(* A store keeps nodes of its own location, within its bounds, with one    *)
(* exception: a node at the end of its arc is kept in the first store of   *)
(* the next arc.  A client that holds that store finds events of a         *)
(* location that none of its stores has, queued under it; otherwise a      *)
(* client has events for the locations of its own stores only.             *)
AtArcEnd(n) == HashOf[n] = ArcUpper(LocationOf[n][1], LocationOf[n][2])
InOwnStore(n, s) ==
  LocOf[s] = LocationOf[n] /\ LowerBound(s) <= HashOf[n] /\ HashOf[n] < UpperBound(s)
InNextArc(n, s) ==
  LocOf[s] # LocationOf[n] /\ LowerBound(s) = HashOf[n] /\ IndexInPartition(s) = 0
StrayOnlyAtArcEnd ==
  /\ \A n \in NodeIds : nodeEventByHash[HashOf[n]] # NoNode =>
       IF AtArcEnd(n) THEN InNextArc(n, StoreOfNode(n)) ELSE InOwnStore(n, StoreOfNode(n))
  /\ \A c \in Clients, loc \in Locations : \A i \in DOMAIN queues[c][loc] :
       \/ AtArcEnd(queues[c][loc][i].id)
       \/ \E s \in Stores : Owner[s] = c /\ LocOf[s] = loc
=============================================================================
