--------------------------- MODULE HashRingProofs ---------------------------
(***************************************************************************)
(* Where a node is kept.  Short of the end of its arc it is kept in a      *)
(* store of its own location, within the bounds of that store; at the end  *)
(* it goes to the first store of the next arc, and its events to whoever   *)
(* holds that store.                                                       *)
(***************************************************************************)
EXTENDS RingStores, SnapshotProofs

(* Adding a multiple of the divisor moves a quotient by the factor and     *)
(* leaves the remainder.                                                   *)
LEMMA QuotientOfSum ==
  ASSUME NEW a \in Nat, NEW b \in Nat, NEW d \in Nat \ {0}
  PROVE  /\ (a * d + b) \div d = a + b \div d
         /\ (a * d + b) % d = b % d
<1> DEFINE q == b \div d
           r == b % d
<1>1. q \in Int /\ r \in 0..(d - 1) /\ b = d * q + r
  OBVIOUS
<1>2. a * d + b = d * (a + q) + r
  <2>1. d * (a + q) = d * a + d * q BY <1>1
  <2>2. d * a = a * d OBVIOUS
  <2> QED BY <1>1, <2>1, <2>2
<1> HIDE DEF q, r
<1>3. \A x \in Int, y \in Int, z \in 0..(d - 1) : x = d * y + z => x \div d = y /\ x % d = z
  OBVIOUS
<1>4. a * d + b \in Int /\ a + q \in Int BY <1>1
<1>5. (a * d + b) \div d = a + q /\ (a * d + b) % d = r BY <1>1, <1>2, <1>3, <1>4
<1> QED BY <1>5 DEF q, r

(* Multiplication by a natural number keeps the order.                     *)
LEMMA TimesMonotone ==
  ASSUME NEW x \in Int, NEW y \in Int, NEW d \in Nat, x <= y
  PROVE  x * d <= y * d
<1> DEFINE e == y - x
<1>1. e \in Nat /\ y = x + e OBVIOUS
<1> HIDE DEF e
<1>2. e * d >= 0 BY <1>1
<1>3. (x + e) * d = x * d + e * d BY <1>1
<1> QED BY <1>1, <1>2, <1>3

(* A quotient is the number of times the divisor fits.                     *)
LEMMA QuotientBounds ==
  ASSUME NEW b \in Nat, NEW d \in Nat \ {0}, NEW n \in Nat, b < n * d
  PROVE  /\ b \div d \in 0..(n - 1)
         /\ (b \div d) * d <= b /\ b < (b \div d) * d + d
<1> DEFINE q == b \div d
<1>1. q \in Int /\ b - d * q \in 0..(d - 1)
  OBVIOUS
<1> HIDE DEF q
<1>2. q * d <= b /\ b < q * d + d /\ d * q = q * d BY <1>1
<1>3. 0 <= q
  <2> SUFFICES ASSUME q < 0 PROVE FALSE BY <1>1
  <2> DEFINE p == q + 1
  <2>1. p \in Int /\ p <= 0 BY <1>1
  <2>2. q * d + d = p * d BY <1>1
  <2> HIDE DEF p
  <2>3. p * d <= 0 * d /\ 0 * d = 0 /\ p * d \in Int BY <2>1, TimesMonotone
  <2>4. q * d \in Int BY <1>1
  <2> QED BY <1>2, <2>2, <2>3, <2>4
<1>4. q < n
  <2> SUFFICES ASSUME n <= q PROVE FALSE BY <1>1
  <2>1. n * d <= q * d BY <1>1, TimesMonotone
  <2> DEFINE nd == n * d
             qd == q * d
  <2>2. nd \in Int /\ qd \in Int BY <1>1
  <2>3. nd <= qd /\ qd <= b /\ b < nd BY <1>2, <2>1
  <2> HIDE DEF nd, qd
  <2> QED BY <2>2, <2>3
<1> QED BY <1>1, <1>2, <1>3, <1>4 DEF q

(* An arc has rpGrain positions wherever it is.                            *)
LEMMA ArcUpperIs ==
  ASSUME NEW region \in RegionIndexes, NEW rp \in ResourcePartitions
  PROVE  /\ ArcUpper(region, rp) = ArcLower(region, rp) + rpGrain
         /\ ArcLower(region, rp) \in Int /\ rpGrain \in Nat \ {0}
         /\ rp = ResourcePartitionMax - 1 =>
              ArcUpper(region, rp) = ArcLower(region + 1, 0)
         /\ rp # ResourcePartitionMax - 1 =>
              ArcUpper(region, rp) = ArcLower(region, rp + 1)
         /\ rp = ResourcePartitionMax - 1 /\ region = RegionNum - 1 =>
              ArcUpper(region, rp) = RingRange
<1> USE RingAssumption DEF RegionIndexes, ResourcePartitions
<1> DEFINE P == ResourcePartitionMax
           g == rpGrain
           x == region * regionGrain
           y == rp * g
<1>0. g \in Nat \ {0} /\ P \in Nat \ {0} /\ region \in Nat /\ rp \in Nat /\ regionGrain = P * g
  BY DEF rpGrain, regionGrain
<1>1. (region + 1) * regionGrain = x + regionGrain
  BY <1>0
<1>2. rp = P - 1 => y + g = regionGrain
  <2> HIDE DEF g
  <2>1. (P - 1) * g + g = P * g
    BY <1>0
  <2> QED BY <1>0, <2>1
<1>3. region = RegionNum - 1 => RingRange = (region + 1) * regionGrain
  BY DEF RingRange
<1>4. x \in Int /\ y \in Int /\ g \in Int /\ regionGrain \in Int
  BY <1>0
<1>5. ArcLower(region, rp) = x + y
  BY DEF ArcLower
<1>6. ArcLower(region, rp + 1) = x + y + g
  <2> HIDE DEF g
  <2>1. (rp + 1) * g = rp * g + g
    BY <1>0
  <2>2. ArcLower(region, rp + 1) = x + (rp + 1) * rpGrain
    BY DEF ArcLower
  <2> QED BY <1>4, <2>1, <2>2 DEF g
<1>7. ArcLower(region + 1, 0) = x + regionGrain
  <2>1. 0 * rpGrain = 0
    BY <1>0
  <2>2. ArcLower(region + 1, 0) = (region + 1) * regionGrain + 0 * rpGrain
    BY DEF ArcLower
  <2> QED BY <1>1, <1>4, <2>1, <2>2
<1>8. rp = P - 1 => ArcUpper(region, rp) = (region + 1) * regionGrain
  BY <1>3 DEF ArcUpper
<1>9. rp # P - 1 => ArcUpper(region, rp) = ArcLower(region, rp) + g
  BY DEF ArcUpper
<1>10. rp = P - 1 /\ region = RegionNum - 1 => ArcUpper(region, rp) = RingRange
  BY DEF ArcUpper
<1> HIDE DEF g, x, y, P
<1>11. /\ ArcUpper(region, rp) = x + y + g
       /\ rp = P - 1 => ArcUpper(region, rp) = x + regionGrain
  BY ONLY <1>1, <1>2, <1>4, <1>5, <1>8, <1>9
<1> QED BY ONLY <1>0, <1>4, <1>5, <1>6, <1>7, <1>10, <1>11 DEF P, g

(* The store of a position short of the end of the arc.                    *)
LEMMA StoreInArc ==
  ASSUME NEW region \in RegionIndexes, NEW rp \in ResourcePartitions,
         NEW k \in 0..(rpGrain - 1)
  PROVE  LET hash == getNodeHash(region, rp, k)
             index == getVirtualNodeStore(hash)
         IN  /\ StoreRegion(index) = region /\ StorePartition(index) = rp
             /\ LowerBound(index) <= hash /\ hash < UpperBound(index)
             /\ k = 0 => LowerBound(index) = hash /\ IndexInPartition(index) = 0
<1> USE RingAssumption DEF RegionIndexes, ResourcePartitions
<1> DEFINE V == VNodeNumPerRP
           G == Granularity
           P == ResourcePartitionMax
           arc == region * P + rp
           i == k \div G
           hash == getNodeHash(region, rp, k)
           index == getVirtualNodeStore(hash)
<1>1. V \in Nat \ {0} /\ G \in Nat \ {0} /\ P \in Nat \ {0} /\ V * G \in Nat
  OBVIOUS
<1>2. k \in Nat /\ k < V * G
  BY DEF rpGrain
<1>3. i \in 0..(V - 1) /\ i * G <= k /\ k < i * G + G
  BY <1>1, <1>2, QuotientBounds
<1>4. arc \in Nat /\ arc * V \in Nat
  BY <1>1
<1>5. ArcLower(region, rp) = (arc * V) * G
  <2>1. ArcLower(region, rp) = region * (P * (V * G)) + rp * (V * G)
    BY DEF ArcLower, regionGrain, rpGrain
  <2>2. region * (P * (V * G)) = (region * P) * (V * G) BY <1>1
  <2>3. (region * P) * (V * G) + rp * (V * G) = arc * (V * G) BY <1>1
  <2>4. arc * (V * G) = (arc * V) * G BY <1>1, <1>4
  <2> QED BY <2>1, <2>2, <2>3, <2>4
<1> HIDE DEF arc, i
<1>6. index = arc * V + i
  <2>1. hash = (arc * V) * G + k BY <1>5 DEF getNodeHash
  <2>2. ((arc * V) * G + k) \div G = arc * V + k \div G
    <3> HIDE DEF V, G
    <3>1. G \in Nat \ {0} /\ k \in Nat /\ arc * V \in Nat BY <1>1, <1>2, <1>4
    <3> QED BY ONLY <3>1, QuotientOfSum, Zenon
  <2>3. index = hash \div G BY DEF getVirtualNodeStore
  <2> HIDE DEF hash, index
  <2> QED BY <2>1, <2>2, <2>3 DEF i
<1>7. index \div V = arc /\ index % V = i
  <2>1. i \div V = 0 /\ i % V = i BY <1>1, <1>3
  <2>2. (arc * V + i) \div V = arc + i \div V /\ (arc * V + i) % V = i % V
    <3> HIDE DEF V
    <3>1. V \in Nat \ {0} /\ i \in Nat /\ arc \in Nat BY <1>1, <1>3, <1>4
    <3> QED BY ONLY <3>1, QuotientOfSum, Zenon
  <2> HIDE DEF index
  <2> QED BY <1>4, <1>6, <2>1, <2>2
<1>8. arc \div P = region /\ arc % P = rp
  <2>1. rp \in Nat /\ rp \div P = 0 /\ rp % P = rp BY <1>1
  <2>2. (region * P + rp) \div P = region + rp \div P /\ (region * P + rp) % P = rp % P
    <3> HIDE DEF P
    <3>1. P \in Nat \ {0} /\ rp \in Nat /\ region \in Nat BY <1>1, <2>1
    <3> QED BY ONLY <3>1, QuotientOfSum, Zenon
  <2> QED BY <2>1, <2>2 DEF arc
<1>9. StoreRegion(index) = region /\ StorePartition(index) = rp /\ IndexInPartition(index) = i
  BY <1>7, <1>8 DEF StoreRegion, StorePartition, IndexInPartition
<1>10. LowerBound(index) = (arc * V) * G + i * G
  BY <1>5, <1>9 DEF LowerBound
<1>11. LowerBound(index) <= hash
  BY <1>1, <1>2, <1>3, <1>4, <1>5, <1>10 DEF getNodeHash
<1>12. hash < UpperBound(index)
  <2>1. CASE i # V - 1
    BY <2>1, <1>1, <1>2, <1>3, <1>4, <1>5, <1>9, <1>10 DEF UpperBound, IndexInPartition, getNodeHash
  <2>2. CASE i = V - 1
    <3>1. UpperBound(index) = ArcUpper(region, rp)
      BY <2>2, <1>9 DEF UpperBound
    <3>2. ArcUpper(region, rp) = ArcLower(region, rp) + rpGrain
      BY ArcUpperIs
    <3> QED BY <3>1, <3>2, <1>1, <1>2, <1>4, <1>5 DEF getNodeHash, rpGrain
  <2> QED BY <2>1, <2>2
<1>13. k = 0 => LowerBound(index) = hash /\ i = 0
  <2>1. k = 0 => i = 0
    BY <1>1 DEF i
  <2>2. 0 * G = 0 /\ (arc * V) * G \in Int
    BY <1>1, <1>4
  <2> QED BY <1>5, <1>10, <2>1, <2>2 DEF getNodeHash
<1> QED BY <1>9, <1>11, <1>12, <1>13

(* The ring is as long as its stores together.                             *)
LEMMA IndexAtRingEnd == RingRange \div Granularity = VirtualNodeNum
<1>1. RegionNum \in Nat /\ ResourcePartitionMax \in Nat /\ VNodeNumPerRP \in Nat
      /\ Granularity \in Nat \ {0}
  BY RingAssumption
<1>2. \A a, b, c, d \in Nat : a * (b * (c * d)) = (a * b * c) * d
  OBVIOUS
<1>3. RingRange = VirtualNodeNum * Granularity
  BY <1>1, <1>2 DEF RingRange, regionGrain, rpGrain, VirtualNodeNum
<1>4. VirtualNodeNum \in Nat
  <2>1. \A a, b \in Nat : a * b \in Nat
    OBVIOUS
  <2> QED BY <1>1, <2>1 DEF VirtualNodeNum
<1>5. (VirtualNodeNum * Granularity + 0) \div Granularity = VirtualNodeNum + 0 \div Granularity
  BY <1>1, <1>4, QuotientOfSum
<1>6. 0 \div Granularity = 0
  BY <1>1
<1>7. VirtualNodeNum * Granularity \in Nat
  BY <1>1, <1>4
<1> QED BY <1>3, <1>4, <1>5, <1>6, <1>7

(* "compact to ring slice where this location belongs to": short of the    *)
(* end of its arc a node is kept in a store of its region and partition    *)
(* and between the bounds of that store, although getVirtualNodeStore      *)
(* computes the index and never compares bounds.  At the end of the arc,   *)
(* which "(lower, upper]" includes, that index is the first store of the   *)
(* next arc; at the end of the ring it is one past the last store.         *)
THEOREM StoreHoldsItsLocation ==
  ASSUME NEW region \in RegionIndexes, NEW rp \in ResourcePartitions, NEW k \in 0..rpGrain
  PROVE  LET hash == getNodeHash(region, rp, k)
             index == getVirtualNodeStore(hash)
             here == <<StoreRegion(index), StorePartition(index)>>
         IN  /\ hash < ArcUpper(region, rp) =>
                  here = <<region, rp>> /\ LowerBound(index) <= hash /\ hash < UpperBound(index)
             /\ hash = ArcUpper(region, rp) /\ hash # RingRange =>
                  /\ here = IF rp = ResourcePartitionMax - 1 THEN <<region + 1, 0>> ELSE <<region, rp + 1>>
                  /\ LowerBound(index) = hash /\ IndexInPartition(index) = 0
             /\ hash = RingRange => index = VirtualNodeNum
<1> DEFINE hash == getNodeHash(region, rp, k)
           index == getVirtualNodeStore(hash)
           here == <<StoreRegion(index), StorePartition(index)>>
           Within == hash < ArcUpper(region, rp) =>
              here = <<region, rp>> /\ LowerBound(index) <= hash /\ hash < UpperBound(index)
           AtEnd == hash = ArcUpper(region, rp) /\ hash # RingRange =>
              /\ here = IF rp = ResourcePartitionMax - 1 THEN <<region + 1, 0>> ELSE <<region, rp + 1>>
              /\ LowerBound(index) = hash /\ IndexInPartition(index) = 0
<1>1. hash = ArcLower(region, rp) + k /\ k \in Nat
  BY ArcUpperIs DEF getNodeHash
<1>2. k < rpGrain \/ k = rpGrain
  BY <1>1, ArcUpperIs
<1>3. ASSUME k < rpGrain PROVE Within /\ AtEnd
  <2>1. k \in 0..(rpGrain - 1) /\ hash # ArcUpper(region, rp)
    BY <1>1, <1>3, ArcUpperIs
  <2>2. here = <<region, rp>> /\ LowerBound(index) <= hash /\ hash < UpperBound(index)
    BY <2>1, StoreInArc
  <2> QED BY <2>1, <2>2
<1>4. ASSUME k = rpGrain PROVE Within /\ AtEnd
  <2>1. hash = ArcUpper(region, rp) /\ ~(hash < ArcUpper(region, rp))
    BY <1>1, <1>4, ArcUpperIs
  <2>2. ASSUME hash # RingRange
        PROVE  /\ here = IF rp = ResourcePartitionMax - 1 THEN <<region + 1, 0>> ELSE <<region, rp + 1>>
               /\ LowerBound(index) = hash /\ IndexInPartition(index) = 0
    <3>1. 0 \in 0..(rpGrain - 1)
      BY ArcUpperIs
    <3>2. CASE rp = ResourcePartitionMax - 1
      <4>1. region + 1 \in RegionIndexes /\ 0 \in ResourcePartitions
        BY <2>1, <2>2, <3>2, ArcUpperIs, RingAssumption DEF RegionIndexes, ResourcePartitions
      <4>2. hash = getNodeHash(region + 1, 0, 0)
        <5>1. ArcLower(region + 1, 0) \in Int
          BY <4>1, ArcUpperIs
        <5> QED BY <2>1, <3>2, <5>1, ArcUpperIs DEF getNodeHash
      <4> HIDE DEF hash
      <4> QED BY <3>1, <3>2, <4>1, <4>2, StoreInArc
    <3>3. CASE rp # ResourcePartitionMax - 1
      <4>1. rp + 1 \in ResourcePartitions
        BY <3>3, RingAssumption DEF ResourcePartitions
      <4>2. hash = getNodeHash(region, rp + 1, 0)
        <5>1. ArcLower(region, rp + 1) \in Int
          BY <4>1, ArcUpperIs
        <5> QED BY <2>1, <3>3, <5>1, ArcUpperIs DEF getNodeHash
      <4> HIDE DEF hash
      <4> QED BY <3>1, <3>3, <4>1, <4>2, StoreInArc
    <3> QED BY <3>2, <3>3
  <2> HIDE DEF here, index
  <2> QED BY <2>1, <2>2 DEF here, index
<1>5. hash = RingRange => index = VirtualNodeNum
  BY IndexAtRingEnd DEF getVirtualNodeStore
<1>6. Within /\ AtEnd
  BY <1>3, <1>4, <1>2
<1> HIDE DEF hash, index, here
<1> QED BY <1>5, <1>6 DEF hash, index, here

(* A node is in a store of its own arc or, at the end of it, of the next.  *)
LEMMA WhereKept ==
  ASSUME NEW n \in NodeIds
  PROVE  IF AtArcEnd(n) THEN InNextArc(n, StoreOfNode(n)) ELSE InOwnStore(n, StoreOfNode(n))
<1>1. PICK region \in RegionIndexes, rp \in ResourcePartitions : LocationOf[n] = <<region, rp>>
  BY RingStoresAssumption
<1> DEFINE k == RingValue[n]
           hash == getNodeHash(region, rp, k)
           index == getVirtualNodeStore(hash)
<1>2. k \in 0..rpGrain /\ HashOf[n] = hash /\ hash # RingRange
  BY <1>1, RingStoresAssumption
<1>3. StoreOfNode(n) = index /\ LocOf[index] = <<StoreRegion(index), StorePartition(index)>>
  BY <1>2, RingStoresAssumption, NodeStoreAssumption DEF StoreOfNode
<1>4. AtArcEnd(n) <=> hash = ArcUpper(region, rp)
  BY <1>1, <1>2 DEF AtArcEnd
<1>5. hash < ArcUpper(region, rp) \/ hash = ArcUpper(region, rp)
  BY <1>2, ArcUpperIs DEF getNodeHash
<1>6. CASE hash = ArcUpper(region, rp)
  <2>1. /\ LocOf[index] = IF rp = ResourcePartitionMax - 1 THEN <<region + 1, 0>> ELSE <<region, rp + 1>>
        /\ LowerBound(index) = hash /\ IndexInPartition(index) = 0
    BY <1>2, <1>3, <1>6, StoreHoldsItsLocation
  <2>2. LocOf[index] # LocationOf[n]
    BY <1>1, <2>1 DEF RegionIndexes, ResourcePartitions
  <2> HIDE DEF hash, index
  <2> QED BY <1>2, <1>3, <1>4, <1>6, <2>1, <2>2 DEF InNextArc
<1>7. CASE hash < ArcUpper(region, rp)
  <2>1. LocOf[index] = <<region, rp>> /\ LowerBound(index) <= hash /\ hash < UpperBound(index)
    BY <1>2, <1>3, <1>7, StoreHoldsItsLocation
  <2>2. hash # ArcUpper(region, rp)
    BY <1>2, <1>7, ArcUpperIs DEF getNodeHash
  <2> HIDE DEF hash, index
  <2> QED BY <1>1, <1>2, <1>3, <1>4, <2>1, <2>2 DEF InOwnStore
<1> QED BY <1>5, <1>6, <1>7

(* Nodes stray from the stores of their location at the end of an arc      *)
(* only, and a client that has no store of a location is sent events of    *)
(* such nodes only from there: for rings of any size, however              *)
(* registrations and events interleave.                                    *)
THEOREM NodesStrayAtArcEndOnly ==
  ASSUME CollisionFree
  PROVE  Spec => []StrayOnlyAtArcEnd
<1>1. ASSUME Known, QInv PROVE StrayOnlyAtArcEnd
  <2>1. ASSUME NEW c \in Clients, NEW loc \in Locations, NEW i \in DOMAIN queues[c][loc]
        PROVE  \/ AtArcEnd(queues[c][loc][i].id)
               \/ \E s \in Stores : Owner[s] = c /\ LocOf[s] = loc
    <3>1. PICK e \in NodeEvent : queues[c][loc][i] = e /\ InQueue(c, loc, e)
      BY <1>1, QueueTyped
    <3> DEFINE s == StoreOfNode(e.id)
    <3>2. e.id \in NodeIds /\ s \in Stores /\ LocOfNode(e.id) = loc /\ Owns(c, s)
      BY <1>1, <3>1, EventPlace DEF QInv, QueueOfOwn, OwnEvents
    <3>3. ~AtArcEnd(e.id) => LocOf[s] = loc
      BY <3>2, WhereKept DEF InOwnStore, LocOfNode
    <3> HIDE DEF s
    <3>4. Owner[s] = c
      <4>1. CASE s \in clientToStores[c]
        <5>1. clientId[s] = c /\ c # None
          BY <1>1, <4>1, NodeStoreAssumption DEF Known, AInv, ListedStores
        <5> QED BY <3>2, <5>1 DEF Owner
      <4>2. ASSUME NEW q \in Requests, Allocating(q), ClientOf[q] = c, s \in registration[q].selected
            PROVE  Owner[s] = c
        <5>1. allocateLock = q /\ q # None
          BY <1>1, <4>2, RequestAssumption DEF Known, AInv, LockHolder
        <5>2. clientId[s] = None \/ clientId[s] = c
          BY <1>1, <4>2 DEF Known, AInv, SelectedStores
        <5> QED BY <3>2, <4>2, <5>1, <5>2, NodeStoreAssumption DEF Owner
      <4> QED BY <3>2, <4>1, <4>2 DEF Owns
    <3> QED BY <3>1, <3>2, <3>3, <3>4
  <2> QED BY <2>1, WhereKept DEF StrayOnlyAtArcEnd
<1> QED BY <1>1, ListInvariant, PTL
=============================================================================
