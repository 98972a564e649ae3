---------------------------- MODULE MCAllocation ----------------------------
(* Two clients compete for the stores of two regions, two partitions each, *)
(* while nodes are still being added; one of them registers its client id  *)
(* twice.  Where a node is kept is computed on the hash ring.  List calls  *)
(* change nothing that registration reads and are left out: the snapshot   *)
(* instance has them.                                                      *)
EXTENDS RingStores, TLC

CONSTANTS n1, n2, n3, c1, c2, q1, q2, q3

(* Two nodes of one partition, the second at the end of its arc, which is  *)
(* kept in a store of another region; and one of that region that lies     *)
(* where two stores meet.                                                  *)
MCLocationOf == (n1 :> <<0, 1>>) @@ (n2 :> <<0, 1>>) @@ (n3 :> <<1, 0>>)
MCRingValue == (n1 :> 1) @@ (n2 :> 4) @@ (n3 :> 2)
MCHashOf == [n \in {n1, n2, n3} |->
               getNodeHash(MCLocationOf[n][1], MCLocationOf[n][2], MCRingValue[n])]
MCHashes == {MCHashOf[n] : n \in {n1, n2, n3}}
MCStoreOf == [h \in MCHashes |-> getVirtualNodeStore(h)]

(* Stores that never hold a node are never selected and left out.          *)
MCStores == {MCStoreOf[h] : h \in MCHashes}
MCLocOf == [s \in MCStores |-> <<StoreRegion(s), StorePartition(s)>>]
MCLocations == {MCLocOf[s] : s \in MCStores} \cup {MCLocationOf[n] : n \in {n1, n2, n3}}
MCRegionOf == [loc \in MCLocations |-> loc[1]]

MCClientOf == (q1 :> c1) @@ (q2 :> c2) @@ (q3 :> c1)
MCRequestedHostNum == (q1 :> 2) @@ (q2 :> 1) @@ (q3 :> 1)

(* Whether the client could be saved changes nothing but the answer, which *)
(* nothing reads: it always is, here.                                      *)
AllocationNext ==
  \/ \E r \in Regions : ProcessEvents(r)
  \/ \E q \in Requests :
       \/ deny(q)
       \/ allocateNodesToClient(q)
       \/ addBookmarkEvent(q)
       \/ \E s \in Stores : AssignToClient(q, s)
       \/ finishAllocation(q)
       \/ PersistClient(q) /\ registration'[q].pc = "registered"

AllocationSpec == Init /\ [][AllocationNext]_vars
=============================================================================
