------------------------------ MODULE HashRing ------------------------------
(***************************************************************************)
(* The hash ring: how locations divide it into arcs (types/location), how  *)
(* the node store divides an arc among virtual node stores, and where a    *)
(* node is kept (distributor/storage/nodestore.go).                        *)
(*                                                                         *)
(* The code computes in floating point.  Here the ring is measured in      *)
(* positions, Granularity of them for a virtual node store, so that every  *)
(* bound is exact and "remove the impact of inaccuracy" changes nothing.   *)
(***************************************************************************)
EXTENDS Integers

CONSTANTS
  RegionNum,         \* regions, numbered from 0
  ResourcePartitionMax,
  VNodeNumPerRP,     \* virtual node stores of a resource partition
  Granularity        \* positions of a virtual node store

ASSUME RingAssumption ==
  /\ RegionNum \in Nat \ {0} /\ ResourcePartitionMax \in Nat \ {0}
  /\ VNodeNumPerRP \in Nat \ {0} /\ Granularity \in Nat \ {0}

(* Definitions named after what is wrong with them are deliberately wrong  *)
(* variants of the definition that follows them; none is part of the       *)
(* specification.                                                          *)

RegionIndexes == 0..(RegionNum - 1)
ResourcePartitions == 0..(ResourcePartitionMax - 1)

rpGrain == VNodeNumPerRP * Granularity
regionGrain == ResourcePartitionMax * rpGrain
RingRange == RegionNum * regionGrain
VirtualNodeNum == RegionNum * ResourcePartitionMax * VNodeNumPerRP

(* GetArcRangeFromLocation: the last arc of a region ends where the region *)
(* ends, the last arc of all at RingRange.                                 *)
ArcLower(region, rp) == region * regionGrain + rp * rpGrain
ArcUpper(region, rp) ==
  IF rp < ResourcePartitionMax - 1 THEN ArcLower(region, rp) + rpGrain ELSE
  IF region < RegionNum - 1 THEN (region + 1) * regionGrain ELSE RingRange

(* generateVirtualNodeStores: stores are numbered region by region,        *)
(* partition by partition.                                                 *)
StoreRegion(index) == (index \div VNodeNumPerRP) \div ResourcePartitionMax
StorePartition(index) == (index \div VNodeNumPerRP) % ResourcePartitionMax
IndexInPartition(index) == index % VNodeNumPerRP

LowerBound(index) ==
  ArcLower(StoreRegion(index), StorePartition(index)) + IndexInPartition(index) * Granularity
UpperBound(index) ==
  IF IndexInPartition(index) = VNodeNumPerRP - 1
  THEN ArcUpper(StoreRegion(index), StorePartition(index))
  ELSE LowerBound(index) + Granularity

(* getNodeHash: ringValue, in (0, 1] in the code, is the number k of       *)
(* positions out of the rpGrain positions of an arc, rpGrain for           *)
(* ringValue = 1.                                                          *)
HashFromRegionStart(region, rp, k) == ArcLower(region, 0) + k
getNodeHash(region, rp, k) == ArcLower(region, rp) + k

(* getVirtualNodeStore: the index is computed, the bounds are not looked   *)
(* at.                                                                     *)
getVirtualNodeStore(hash) == hash \div Granularity
=============================================================================
