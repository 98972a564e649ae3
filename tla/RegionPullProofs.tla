-------------------------- MODULE RegionPullProofs --------------------------
(***************************************************************************)
(* Proofs about the aggregator's loop and the region manager: the types,   *)
(* that a pull forgets no change of a node, and that the CRV does not get  *)
(* ahead of a pending change.  In this order: facts about sequences and    *)
(* largest versions; what holds whatever goes wrong (BInv); what holds     *)
(* as long as nothing has gone wrong (FInv).                               *)
(***************************************************************************)
EXTENDS RegionPull, FiniteSetTheorems, WellFoundedInduction, TLAPS

(* An event of a response: a node and the version it is sent with.         *)
Events == [node : Nodes, rv : RVs]

(* Event e is in the response that is built or was received.               *)
Given(e) == Contains(handler.response, e) \/ Contains(aggregator.events, e)

(* Who is active, and what the others hold meanwhile.                      *)
Control ==
  /\ updater.pc = "idle" => updater = Resting
  /\ handler.pc = "idle" => handler = NotServing
  /\ handler.pc # "idle" <=> aggregator.pc = "waiting"
  /\ aggregator.pc # "process" => aggregator.events = <<>>
  /\ handler.pc \in {"collect", "select"} => crv # NoRVs
  /\ handler.pc = "encode" => handler.todo = {}
  /\ handler.pc # "select" => handler.unread = <<>>

(* A node is pending in its own partition only.                            *)
Placed ==
  /\ updater.todo \subseteq Members(updater.partition)
  /\ \A n \in Nodes : Contains(updater.list, n) => n \in Members(updater.partition)
  /\ \A p \in Partitions, n \in Nodes : Contains(updateList[p], n) => n \in Members(p)
  /\ \A n \in Nodes : Contains(handler.unread, n) => n \in Members(handler.at)

(* No version is ahead of the one it was copied from, and a change of      *)
(* nodes that began has versions left.                                     *)
Bounded ==
  /\ \A n \in Nodes : /\ nodeRV[n] > 0 /\ nodeRV[n] <= CurrentRVs[PartitionOf[n]]
                      /\ storedRV[n] <= nodeRV[n] /\ storedRV[n] <= crv[PartitionOf[n]]
  /\ \A p \in Partitions : crv[p] <= CurrentRVs[p]
  /\ \A e \in Events : Given(e) => e.rv <= nodeRV[e.node]
  /\ CurrentRVs[updater.partition] + Cardinality(updater.todo) <= MaxRV

BInv == TypeOK /\ Control /\ Placed /\ Bounded

-----------------------------------------------------------------------------
(* Sequences and largest versions.                                         *)

(* Nothing is in the empty sequence.                                       *)
LEMMA NothingInEmpty == \A e : ~Contains(<<>>, e)
BY DEF Contains

(* Appending adds the one element.                                         *)
LEMMA InAppended ==
  ASSUME NEW S, NEW s \in Seq(S), NEW x \in S
  PROVE  /\ Append(s, x) \in Seq(S)
         /\ \A e : Contains(Append(s, x), e) <=> Contains(s, e) \/ e = x
<1>1. Append(s, x) \in Seq(S) /\ Len(Append(s, x)) = Len(s) + 1 /\ Len(s) \in Nat
  OBVIOUS
<1>2. Append(s, x)[Len(s) + 1] = x
  OBVIOUS
<1>3. \A i \in 1..Len(s) : Append(s, x)[i] = s[i]
  OBVIOUS
<1>4. \A i \in 1..(Len(s) + 1) : i \in 1..Len(s) \/ i = Len(s) + 1
  BY <1>1
<1>5. Len(s) + 1 \in 1..(Len(s) + 1) /\ \A i \in 1..Len(s) : i \in 1..(Len(s) + 1)
  BY <1>1
<1> QED BY <1>1, <1>2, <1>3, <1>4, <1>5, Zenon DEF Contains

(* A sequence is its head and its tail.                                    *)
LEMMA InHeadTail ==
  ASSUME NEW S, NEW s \in Seq(S), s # <<>>
  PROVE  /\ Head(s) \in S /\ Tail(s) \in Seq(S)
         /\ \A e : Contains(s, e) <=> e = Head(s) \/ Contains(Tail(s), e)
<1>1. Len(s) \in Nat \ {0} /\ Len(Tail(s)) = Len(s) - 1 /\ Head(s) = s[1] /\ Tail(s) \in Seq(S)
  OBVIOUS
<1>2. \A i \in 1..(Len(s) - 1) : Tail(s)[i] = s[i + 1]
  OBVIOUS
<1>3. \A i \in 1..Len(s) : i = 1 \/ (i - 1 \in 1..(Len(s) - 1) /\ Tail(s)[i - 1] = s[i])
  BY <1>1, <1>2
<1>4. \A i \in 1..(Len(s) - 1) : i + 1 \in 1..Len(s) /\ Tail(s)[i] = s[i + 1]
  BY <1>1, <1>2
<1>5. 1 \in 1..Len(s) /\ s[1] \in S
  BY <1>1
<1> QED BY <1>1, <1>3, <1>4, <1>5, Zenon DEF Contains

(* A non-empty set of bounded numbers has a largest element.               *)
LEMMA HasLargest ==
  ASSUME NEW b \in Nat, NEW S \in SUBSET (0..b), S # {}
  PROVE  \E m \in S : \A y \in S : y <= m
<1> DEFINE R == {p \in Nat \X Nat : p[1] < p[2]}
           T == {b - x : x \in S}
<1>1. IsWellFoundedOn(R, Nat)
  BY NatLessThanWellFounded DEF OpToRel
<1>2. PICK s \in S : TRUE
  OBVIOUS
<1>3. T \subseteq Nat /\ b - s \in T
  OBVIOUS
<1> HIDE DEF T, R
<1>4. \E x \in T : \A y \in T : <<y, x>> \notin R
  BY <1>1, <1>3, WFMin
<1>5. PICK x \in T : \A y \in T : ~(y < x)
  BY <1>3, <1>4 DEF R
<1>6. PICK z \in S : x = b - z
  BY DEF T
<1>7. \A y \in S : b - y \in T
  BY DEF T
<1> QED BY <1>5, <1>6, <1>7

(* LargestOf finds it.                                                     *)
LEMMA LargestFound ==
  ASSUME NEW S \in SUBSET RVs, S # {}
  PROVE  LargestOf(S) \in S /\ LargestOf(S) \in RVs /\ \A y \in S : y <= LargestOf(S)
<1>1. \E m \in S : \A y \in S : y <= m
  BY HasLargest, PullAssumption DEF RVs
<1> QED BY <1>1 DEF LargestOf

(* The largest of the versions of a partition's nodes and one more.        *)
LEMMA LargestOfPartition ==
  ASSUME NEW stored \in [Nodes -> RVs], NEW p \in Partitions, NEW rv \in RVs
  PROVE  LET largest == LargestOf({stored[n] : n \in Members(p)} \cup {rv})
         IN  /\ largest \in RVs /\ rv <= largest
             /\ \A n \in Members(p) : stored[n] <= largest
             /\ largest = rv \/ \E n \in Members(p) : largest = stored[n]
<1> DEFINE S == {stored[n] : n \in Members(p)} \cup {rv}
<1>1. S \in SUBSET RVs /\ S # {}
  BY DEF Members
<1>2. LargestOf(S) \in S /\ LargestOf(S) \in RVs /\ \A y \in S : y <= LargestOf(S)
  BY <1>1, LargestFound
<1> QED BY <1>2

-----------------------------------------------------------------------------
(* BInv, whatever goes wrong.                                              *)

(* The resting updater and handler have their types.                       *)
LEMMA RestingTyped ==
  /\ Resting \in [pc : {"idle", "change"}, partition : Partitions, list : Seq(Nodes),
                  todo : SUBSET Nodes]
  /\ NotServing \in [pc : {"idle", "collect", "select", "encode"}, todo : SUBSET Partitions,
                     at : Partitions, unread : Seq(Nodes), pulled : Seq(Nodes),
                     response : Seq(Events)]
<1>1. (CHOOSE p \in Partitions : TRUE) \in Partitions
  BY PullAssumption
<1>2. <<>> \in Seq(Nodes) /\ <<>> \in Seq(Events)
  OBVIOUS
<1> QED BY <1>1, <1>2 DEF Resting, NotServing

(* Partitions are finite.                                                  *)
LEMMA MembersFinite ==
  ASSUME NEW p \in Partitions
  PROVE  IsFiniteSet(Members(p)) /\ Cardinality(Members(p)) \in Nat
<1>1. Members(p) \subseteq Nodes
  BY DEF Members
<1> QED BY <1>1, PullAssumption, FS_Subset, FS_CardinalityType

(* No pull is made at first.                                               *)
LEMMA InitBInv == Init => BInv
<1> SUFFICES ASSUME Init PROVE BInv
  OBVIOUS
<1>1. \A n \in Nodes : PartitionOf[n] \in Partitions /\ InitialRV[n] \in RVs /\ InitialRV[n] > 0
  BY PullAssumption DEF RVs
<1>2. InitialRV \in [Nodes -> RVs] /\ 0 \in RVs
  BY PullAssumption DEF RVs
<1>3. ASSUME NEW p \in Partitions
      PROVE  /\ CurrentRVs[p] \in RVs
             /\ \A n \in Members(p) : InitialRV[n] <= CurrentRVs[p]
  BY <1>2, LargestOfPartition DEF Init
<1>4. CurrentRVs \in [Partitions -> RVs]
  BY <1>3 DEF Init
<1>5. TypeOK
  <2>1. updateList \in [Partitions -> Seq(Nodes)] /\ crv \in [Partitions -> RVs]
        /\ storedRV \in [Nodes -> RVs] /\ faults = {} /\ nodeRV \in [Nodes -> RVs]
    BY <1>2 DEF Init, NoRVs
  <2>2. aggregator \in [pc : {"pull", "waiting", "process", "post"},
                       events : Seq([node : Nodes, rv : RVs])]
    <3>1. <<>> \in Seq([node : Nodes, rv : RVs])
      OBVIOUS
    <3> QED BY <3>1 DEF Init
  <2>3. updater = Resting /\ handler = NotServing
    BY DEF Init
  <2> QED BY <1>4, <2>1, <2>2, <2>3, RestingTyped DEF TypeOK, Events
<1>6. Control
  BY DEF Init, Control, Resting, NotServing
<1>7. Placed
  BY NothingInEmpty DEF Init, Placed, Resting, NotServing
<1>8. Bounded
  <2>1. \A e : ~Given(e)
    BY NothingInEmpty DEF Init, Given, NotServing
  <2>2. \A n \in Nodes : n \in Members(PartitionOf[n])
    BY DEF Members
  <2>3. \A n \in Nodes : InitialRV[n] <= CurrentRVs[PartitionOf[n]]
    BY <1>1, <1>3, <2>2
  <2>4. \A p \in Partitions : 0 <= CurrentRVs[p]
    BY <1>3 DEF RVs
  <2>5. CurrentRVs[updater.partition] + Cardinality(updater.todo) <= MaxRV
    <3>1. updater.todo = {} /\ Cardinality({}) = 0 /\ updater.partition \in Partitions
      BY FS_EmptySet, RestingTyped DEF Init, Resting
    <3>2. CurrentRVs[updater.partition] \in RVs
      BY <1>3, <3>1
    <3> QED BY <3>1, <3>2, PullAssumption DEF RVs
  <2>6. /\ nodeRV = InitialRV
        /\ \A n \in Nodes : storedRV[n] = 0
        /\ \A p \in Partitions : crv[p] = 0
    BY DEF Init, NoRVs
  <2>7. \A n \in Nodes : /\ nodeRV[n] > 0 /\ nodeRV[n] <= CurrentRVs[PartitionOf[n]]
                         /\ storedRV[n] <= nodeRV[n] /\ storedRV[n] <= crv[PartitionOf[n]]
    BY <1>1, <2>3, <2>6 DEF RVs
  <2>8. \A p \in Partitions : crv[p] <= CurrentRVs[p]
    BY <2>4, <2>6
  <2> QED BY <2>1, <2>5, <2>7, <2>8 DEF Bounded
<1> QED BY <1>5, <1>6, <1>7, <1>8 DEF BInv

(* The updater begins: nothing but its own state changes.                  *)
LEMMA BeginBInv ==
  ASSUME BInv, NEW p \in Partitions, makeDataUpdate(p) \/ makeOneRPDown(p)
  PROVE  BInv'
<1> USE DEF BInv
<1>1. PICK todo \in SUBSET Members(p), list \in {updateList[p], <<>>} :
        /\ updater' = [pc |-> "change", partition |-> p, list |-> list, todo |-> todo]
        /\ CurrentRVs[p] + Cardinality(todo) <= MaxRV
  <2>1. CASE makeDataUpdate(p)
    BY <2>1 DEF makeDataUpdate
  <2>2. CASE makeOneRPDown(p)
    BY <2>2 DEF makeOneRPDown, NodesDown
  <2> QED BY <2>1, <2>2
<1>2. UNCHANGED <<nodeRV, CurrentRVs, updateList, handler, aggregator, crv, storedRV>>
  BY DEF makeDataUpdate, makeOneRPDown
<1>3. faults' \subseteq {"overlap", "lost"}
  BY DEF makeDataUpdate, makeOneRPDown, TypeOK
<1>4. list \in Seq(Nodes) /\ todo \subseteq Nodes
  <2>1. updateList[p] \in Seq(Nodes) /\ <<>> \in Seq(Nodes)
    BY DEF TypeOK
  <2> QED BY <1>1, <2>1 DEF Members
<1>5. TypeOK'
  BY <1>1, <1>2, <1>3, <1>4 DEF TypeOK
<1>6. Control'
  BY <1>1, <1>2 DEF Control
<1>7. Placed'
  BY <1>1, <1>2, NothingInEmpty DEF Placed
<1>8. Bounded'
  BY <1>1, <1>2 DEF Bounded, Given, Members
<1> QED BY <1>5, <1>6, <1>7, <1>8

(* A changed node gets the next version of its partition.                  *)
LEMMA ChangeBInv ==
  ASSUME BInv, NEW n \in Nodes, ChangeNode(n)
  PROVE  BInv'
<1> USE DEF BInv
<1> DEFINE p == updater.partition
           next == CurrentRVs[p] + 1
<1>1. /\ updater.pc = "change" /\ n \in updater.todo /\ p \in Partitions
      /\ updater.todo \subseteq Nodes /\ updater.list \in Seq(Nodes)
      /\ n \in Members(p) /\ PartitionOf[n] = p
  BY DEF ChangeNode, TypeOK, Placed, Members
<1>2. /\ nodeRV' = [nodeRV EXCEPT ![n] = next]
      /\ CurrentRVs' = [CurrentRVs EXCEPT ![p] = next]
      /\ updater' = [updater EXCEPT !.list = Append(@, n), !.todo = @ \ {n}]
      /\ UNCHANGED <<updateList, handler, aggregator, crv, storedRV>>
  BY DEF ChangeNode
<1>3. CurrentRVs[p] \in Nat /\ next \in RVs
      /\ next + Cardinality(updater.todo \ {n}) <= MaxRV
  <2>1. IsFiniteSet(updater.todo)
    BY <1>1, PullAssumption, FS_Subset
  <2>2. Cardinality(updater.todo) \in Nat /\ Cardinality(updater.todo \ {n}) \in Nat
        /\ Cardinality(updater.todo \ {n}) = Cardinality(updater.todo) - 1
    BY <1>1, <2>1, FS_CardinalityType, FS_RemoveElement
  <2>3. CurrentRVs[p] \in Nat /\ CurrentRVs[p] + Cardinality(updater.todo) <= MaxRV
    BY <1>1 DEF TypeOK, Bounded, RVs
  <2>4. next = CurrentRVs[p] + 1 /\ MaxRV \in Nat
    BY PullAssumption
  <2> HIDE DEF next, p
  <2> QED BY <2>2, <2>3, <2>4 DEF RVs
<1>4. /\ Append(updater.list, n) \in Seq(Nodes)
      /\ \A e : Contains(Append(updater.list, n), e) <=> Contains(updater.list, e) \/ e = n
  BY <1>1, InAppended
<1> HIDE DEF next
<1>5. updater'.pc = "change" /\ updater'.partition = p
      /\ updater'.list = Append(updater.list, n) /\ updater'.todo = updater.todo \ {n}
      /\ updater' \in [pc : {"idle", "change"}, partition : Partitions, list : Seq(Nodes),
                       todo : SUBSET Nodes]
  BY <1>1, <1>2, <1>4 DEF TypeOK
<1>6. TypeOK'
  <2>1. nodeRV' \in [Nodes -> RVs] /\ CurrentRVs' \in [Partitions -> RVs]
    BY <1>1, <1>2, <1>3 DEF TypeOK
  <2>2. faults' \subseteq {"overlap", "lost"}
    BY DEF ChangeNode, TypeOK
  <2> QED BY <1>2, <1>5, <2>1, <2>2 DEF TypeOK
<1>7. Control'
  BY <1>1, <1>2, <1>5 DEF Control
<1>8. Placed'
  BY <1>1, <1>2, <1>4, <1>5 DEF Placed
<1>9. Bounded'
  <2>1. \A m \in Nodes : nodeRV[m] \in Nat /\ nodeRV'[m] = IF m = n THEN next ELSE nodeRV[m]
    BY <1>2 DEF TypeOK, RVs
  <2>2. \A q \in Partitions : CurrentRVs[q] \in Nat
                            /\ CurrentRVs'[q] = IF q = p THEN next ELSE CurrentRVs[q]
    BY <1>2 DEF TypeOK, RVs
  <2>3. next = CurrentRVs[p] + 1 /\ next \in Nat
    BY <1>3 DEF next
  <2>4. \A m \in Nodes : PartitionOf[m] \in Partitions /\ storedRV[m] \in Nat
    BY PullAssumption DEF TypeOK, RVs
  <2>5. \A q \in Partitions : crv[q] \in Nat
    BY DEF TypeOK, RVs
  <2>6. \A m \in Nodes : nodeRV[m] <= nodeRV'[m]
    BY <1>1, <2>1, <2>2, <2>3 DEF Bounded
  <2>7. \A q \in Partitions : CurrentRVs[q] <= CurrentRVs'[q]
    BY <2>2, <2>3
  <2>8. \A m \in Nodes : /\ nodeRV'[m] > 0 /\ nodeRV'[m] <= CurrentRVs'[PartitionOf[m]]
                         /\ storedRV'[m] <= nodeRV'[m] /\ storedRV'[m] <= crv'[PartitionOf[m]]
    <3> SUFFICES ASSUME NEW m \in Nodes
                 PROVE  /\ nodeRV'[m] > 0 /\ nodeRV'[m] <= CurrentRVs'[PartitionOf[m]]
                        /\ storedRV[m] <= nodeRV'[m] /\ storedRV[m] <= crv[PartitionOf[m]]
      BY <1>2
    <3>1. /\ nodeRV[m] > 0 /\ nodeRV[m] <= CurrentRVs[PartitionOf[m]]
          /\ storedRV[m] <= nodeRV[m] /\ storedRV[m] <= crv[PartitionOf[m]]
      BY DEF Bounded
    <3> QED BY <1>1, <2>1, <2>2, <2>3, <2>4, <2>6, <2>7, <3>1
  <2>9. \A e \in Events : Given(e)' => e.rv <= nodeRV'[e.node]
    <3>1. \A e \in Events : e.node \in Nodes /\ e.rv \in Nat
      BY DEF Events, RVs
    <3>2. \A e \in Events : Given(e)' => e.rv <= nodeRV[e.node]
      BY <1>2 DEF Given, Bounded
    <3> QED BY <2>1, <2>3, <2>6, <3>1, <3>2
  <2>10. \A q \in Partitions : crv'[q] <= CurrentRVs'[q]
    BY <1>2, <2>2, <2>5, <2>7, <2>3 DEF Bounded
  <2>11. CurrentRVs'[updater'.partition] + Cardinality(updater'.todo) <= MaxRV
    BY <1>1, <1>3, <1>5, <2>2
  <2> QED BY <2>8, <2>9, <2>10, <2>11 DEF Bounded
<1> QED BY <1>6, <1>7, <1>8, <1>9

(* The new list replaces the pending events of the partition.              *)
LEMMA ReplaceBInv ==
  ASSUME BInv, ReplaceUpdateList
  PROVE  BInv'
<1> USE DEF BInv
<1>1. /\ updater' = Resting
      /\ updateList' = [updateList EXCEPT ![updater.partition] = updater.list]
      /\ UNCHANGED <<nodeRV, CurrentRVs, handler, aggregator, crv, storedRV>>
      /\ faults' \subseteq {"overlap", "lost"}
  BY DEF ReplaceUpdateList, TypeOK
<1>2. /\ updater.partition \in Partitions /\ updater.list \in Seq(Nodes)
      /\ updateList' \in [Partitions -> Seq(Nodes)]
  BY <1>1 DEF TypeOK
<1>3. \A p \in Partitions :
        updateList'[p] = IF p = updater.partition THEN updater.list ELSE updateList[p]
  BY <1>1, <1>2 DEF TypeOK
<1>4. updater'.list = <<>> /\ updater'.todo = {} /\ updater'.partition \in Partitions
  BY <1>1, RestingTyped DEF Resting
<1>5. TypeOK'
  BY <1>1, <1>2, RestingTyped DEF TypeOK
<1>6. Control'
  BY <1>1 DEF Control, Resting
<1>7. Placed'
  BY <1>1, <1>3, <1>4, NothingInEmpty DEF Placed
<1>8. Bounded'
  <2>1. CurrentRVs[updater'.partition] + Cardinality(updater'.todo) <= MaxRV
    BY <1>4, FS_EmptySet, PullAssumption DEF TypeOK, RVs
  <2> QED BY <1>1, <2>1 DEF Bounded, Given
<1> QED BY <1>5, <1>6, <1>7, <1>8

(* A pull begins.                                                          *)
LEMMA PullBInv ==
  ASSUME BInv, initPullOrSubsequentPull
  PROVE  BInv'
<1> USE DEF BInv
<1>1. /\ aggregator.pc = "pull" /\ handler.pc = "idle" /\ handler = NotServing
      /\ aggregator' = [aggregator EXCEPT !.pc = "waiting"]
      /\ handler' = IF crv = NoRVs
                    THEN [NotServing EXCEPT !.pc = "encode", !.pulled = NodeOrder]
                    ELSE [NotServing EXCEPT !.pc = "collect", !.todo = Partitions]
      /\ UNCHANGED <<nodeRV, CurrentRVs, updateList, updater, crv, storedRV>>
      /\ faults' \subseteq {"overlap", "lost"}
  BY DEF initPullOrSubsequentPull, Control, TypeOK
<1>2. aggregator'.pc = "waiting" /\ aggregator'.events = aggregator.events
      /\ aggregator' \in [pc : {"pull", "waiting", "process", "post"},
                          events : Seq([node : Nodes, rv : RVs])]
  BY <1>1 DEF TypeOK
<1>3. /\ handler'.pc = IF crv = NoRVs THEN "encode" ELSE "collect"
      /\ handler'.pc = "encode" => handler'.todo = {}
      /\ handler'.unread = <<>> /\ handler'.response = <<>> /\ handler.response = <<>>
  BY <1>1 DEF NotServing
<1>4. handler' \in [pc : {"idle", "collect", "select", "encode"}, todo : SUBSET Partitions,
                   at : Partitions, unread : Seq(Nodes), pulled : Seq(Nodes),
                   response : Seq([node : Nodes, rv : RVs])]
  BY <1>1, RestingTyped, PullAssumption DEF Events
<1>5. TypeOK'
  BY <1>1, <1>2, <1>4 DEF TypeOK
<1>6. Control'
  BY <1>1, <1>2, <1>3 DEF Control
<1>7. Placed'
  BY <1>1, <1>3, NothingInEmpty DEF Placed
<1>8. Bounded'
  BY <1>1, <1>2, <1>3 DEF Bounded, Given
<1> QED BY <1>5, <1>6, <1>7, <1>8

(* The handler collects the pending events of a partition.                 *)
LEMMA CollectBInv ==
  ASSUME BInv, \/ \E p \in Partitions : GetRegionNodeModifiedEventsCRV(p)
               \/ SelectEvent
               \/ CleanUpEventCache
  PROVE  BInv'
<1> USE DEF BInv
<1>1. /\ UNCHANGED <<nodeRV, CurrentRVs, updater, aggregator, crv, storedRV, faults>>
      /\ handler.pc \in {"collect", "select"}
  BY DEF GetRegionNodeModifiedEventsCRV, SelectEvent, CleanUpEventCache
<1>2. /\ handler.todo \subseteq Partitions /\ handler.at \in Partitions
      /\ handler.unread \in Seq(Nodes) /\ handler.pulled \in Seq(Nodes)
      /\ handler \in [pc : {"idle", "collect", "select", "encode"}, todo : SUBSET Partitions,
                      at : Partitions, unread : Seq(Nodes), pulled : Seq(Nodes),
                      response : Seq([node : Nodes, rv : RVs])]
  BY DEF TypeOK
<1>3. /\ handler' \in [pc : {"idle", "collect", "select", "encode"}, todo : SUBSET Partitions,
                       at : Partitions, unread : Seq(Nodes), pulled : Seq(Nodes),
                       response : Seq([node : Nodes, rv : RVs])]
      /\ handler'.pc \in {"collect", "select", "encode"}
      /\ handler'.pc = "encode" => handler'.todo = {}
      /\ handler'.pc # "select" => handler'.unread = <<>>
      /\ handler'.response = handler.response
      /\ \A n \in Nodes : Contains(handler'.unread, n) => n \in Members(handler'.at)
      /\ updateList' \in [Partitions -> Seq(Nodes)]
      /\ \A p \in Partitions, n \in Nodes : Contains(updateList'[p], n) => n \in Members(p)
  <2>1. CASE \E p \in Partitions : GetRegionNodeModifiedEventsCRV(p)
    <3>1. PICK p \in Partitions : GetRegionNodeModifiedEventsCRV(p)
      BY <2>1
    <3>2. updateList' = updateList /\ updateList[p] \in Seq(Nodes)
      BY <3>1 DEF GetRegionNodeModifiedEventsCRV, TypeOK
    <3>3. /\ handler'.pc = IF updateList[p] # <<>> THEN "select"
                           ELSE IF handler.todo = {p} THEN "encode" ELSE "collect"
          /\ handler'.todo = handler.todo \ {p} /\ handler'.at = p
          /\ handler'.unread = updateList[p] /\ handler'.response = handler.response
          /\ handler' \in [pc : {"idle", "collect", "select", "encode"},
                           todo : SUBSET Partitions, at : Partitions, unread : Seq(Nodes),
                           pulled : Seq(Nodes), response : Seq([node : Nodes, rv : RVs])]
      BY <1>2, <3>1, <3>2 DEF GetRegionNodeModifiedEventsCRV
    <3> QED BY <3>2, <3>3 DEF Placed, TypeOK
  <2>2. CASE SelectEvent
    <3> DEFINE n == Head(handler.unread)
    <3>1. /\ updateList' = updateList /\ handler.unread # <<>> /\ handler.pc = "select"
          /\ handler' = [handler EXCEPT
               !.unread = Tail(@),
               !.pulled = IF NewerThan(crv[handler.at], n) THEN Append(@, n) ELSE @]
      BY <2>2 DEF SelectEvent
    <3>2. /\ n \in Nodes /\ Tail(handler.unread) \in Seq(Nodes)
          /\ \A m : Contains(Tail(handler.unread), m) => Contains(handler.unread, m)
      BY <1>2, <3>1, InHeadTail
    <3> HIDE DEF n
    <3>3. (IF NewerThan(crv[handler.at], n) THEN Append(handler.pulled, n) ELSE handler.pulled)
             \in Seq(Nodes)
      BY <1>2, <3>2, InAppended
    <3>4. /\ handler'.pc = "select" /\ handler'.unread = Tail(handler.unread)
          /\ handler'.at = handler.at /\ handler'.response = handler.response
          /\ handler' \in [pc : {"idle", "collect", "select", "encode"},
                           todo : SUBSET Partitions, at : Partitions, unread : Seq(Nodes),
                           pulled : Seq(Nodes), response : Seq([node : Nodes, rv : RVs])]
      BY <1>2, <3>1, <3>2, <3>3
    <3> QED BY <3>1, <3>2, <3>4 DEF Placed, TypeOK
  <2>3. CASE CleanUpEventCache
    <3>1. /\ updateList' = [updateList EXCEPT ![handler.at] = <<>>] /\ handler.unread = <<>>
          /\ handler' = [handler EXCEPT !.pc = IF handler.todo = {} THEN "encode" ELSE "collect"]
      BY <2>3 DEF CleanUpEventCache
    <3>2. /\ handler'.pc = IF handler.todo = {} THEN "encode" ELSE "collect"
          /\ handler'.unread = <<>> /\ handler'.todo = handler.todo
          /\ handler'.at = handler.at /\ handler'.response = handler.response
          /\ handler' \in [pc : {"idle", "collect", "select", "encode"},
                           todo : SUBSET Partitions, at : Partitions, unread : Seq(Nodes),
                           pulled : Seq(Nodes), response : Seq([node : Nodes, rv : RVs])]
      BY <1>2, <3>1
    <3>3. <<>> \in Seq(Nodes)
      OBVIOUS
    <3>4. /\ updateList' \in [Partitions -> Seq(Nodes)]
          /\ \A p \in Partitions : updateList'[p] \in {<<>>, updateList[p]}
      BY <1>2, <3>1, <3>3 DEF TypeOK
    <3>5. \A p \in Partitions, n \in Nodes : Contains(updateList'[p], n) => n \in Members(p)
      BY <3>4, NothingInEmpty DEF Placed
    <3> QED BY <3>2, <3>4, <3>5, NothingInEmpty
  <2> QED BY <2>1, <2>2, <2>3
<1>4. TypeOK'
  BY <1>1, <1>3 DEF TypeOK
<1>5. Control'
  BY <1>1, <1>3 DEF Control
<1>6. Placed'
  BY <1>1, <1>3 DEF Placed
<1>7. Bounded'
  BY <1>1, <1>3 DEF Bounded, Given
<1> QED BY <1>4, <1>5, <1>6, <1>7

(* A node is read again for the response.                                  *)
LEMMA EncodeBInv ==
  ASSUME BInv, EncodeEvent
  PROVE  BInv'
<1> USE DEF BInv
<1> DEFINE n == Head(handler.pulled)
           e == [node |-> n, rv |-> nodeRV[n]]
<1>1. /\ handler.pc = "encode" /\ handler.pulled # <<>>
      /\ handler' = [handler EXCEPT !.pulled = Tail(@), !.response = Append(@, e)]
      /\ UNCHANGED <<nodeRV, CurrentRVs, updateList, updater, aggregator, crv, storedRV, faults>>
  BY DEF EncodeEvent
<1>2. /\ handler.pulled \in Seq(Nodes) /\ handler.response \in Seq(Events)
      /\ handler \in [pc : {"idle", "collect", "select", "encode"}, todo : SUBSET Partitions,
                      at : Partitions, unread : Seq(Nodes), pulled : Seq(Nodes),
                      response : Seq(Events)]
  BY DEF TypeOK, Events
<1>3. n \in Nodes /\ Tail(handler.pulled) \in Seq(Nodes)
  BY <1>1, <1>2, InHeadTail
<1>4. e \in Events /\ e.node = n /\ e.rv = nodeRV[n] /\ nodeRV[n] \in Nat
  BY <1>3 DEF Events, TypeOK, RVs
<1> HIDE DEF n, e
<1>5. /\ Append(handler.response, e) \in Seq(Events)
      /\ \A d : Contains(Append(handler.response, e), d) <=> Contains(handler.response, d) \/ d = e
  BY <1>2, <1>4, InAppended
<1>6. /\ handler'.pc = "encode" /\ handler'.todo = handler.todo /\ handler'.at = handler.at
      /\ handler'.unread = handler.unread
      /\ handler'.response = Append(handler.response, e)
      /\ handler' \in [pc : {"idle", "collect", "select", "encode"}, todo : SUBSET Partitions,
                       at : Partitions, unread : Seq(Nodes), pulled : Seq(Nodes),
                       response : Seq(Events)]
  BY <1>1, <1>2, <1>3, <1>5
<1>7. TypeOK'
  BY <1>1, <1>6 DEF TypeOK, Events
<1>8. Control'
  BY <1>1, <1>6 DEF Control
<1>9. Placed'
  BY <1>1, <1>6 DEF Placed
<1>10. Bounded'
  <2>1. \A d \in Events : Given(d)' => d = e \/ Given(d)
    BY <1>1, <1>5, <1>6 DEF Given
  <2> QED BY <1>1, <1>4, <2>1 DEF Bounded
<1> QED BY <1>7, <1>8, <1>9, <1>10

(* The response arrives or is lost.                                        *)
LEMMA RespondBInv ==
  ASSUME BInv, Respond \/ LoseResponse
  PROVE  BInv'
<1> USE DEF BInv
<1>1. /\ handler.pc = "encode" /\ handler' = NotServing
      /\ UNCHANGED <<nodeRV, CurrentRVs, updateList, updater, crv, storedRV>>
      /\ faults' \subseteq {"overlap", "lost"}
  BY DEF Respond, LoseResponse, TypeOK
<1>2. handler.response \in Seq(Events) /\ aggregator.events = <<>>
      /\ aggregator \in [pc : {"pull", "waiting", "process", "post"}, events : Seq(Events)]
  BY <1>1 DEF TypeOK, Events, Control
<1>3. /\ aggregator' \in [pc : {"pull", "waiting", "process", "post"}, events : Seq(Events)]
      /\ aggregator'.pc \in {"pull", "process"}
      /\ aggregator'.pc = "pull" => aggregator'.events = <<>>
      /\ aggregator'.events \in {<<>>, handler.response}
  BY <1>2 DEF Respond, LoseResponse
<1>4. /\ handler'.unread = <<>> /\ handler'.response = <<>> /\ handler'.pc = "idle"
      /\ handler' \in [pc : {"idle", "collect", "select", "encode"}, todo : SUBSET Partitions,
                       at : Partitions, unread : Seq(Nodes), pulled : Seq(Nodes),
                       response : Seq(Events)]
  BY <1>1, RestingTyped DEF NotServing
<1>5. TypeOK'
  BY <1>1, <1>3, <1>4 DEF TypeOK, Events
<1>6. Control'
  BY <1>1, <1>3, <1>4 DEF Control
<1>7. Placed'
  BY <1>1, <1>4, NothingInEmpty DEF Placed
<1>8. Bounded'
  <2>1. \A e \in Events : Given(e)' => Given(e)
    BY <1>3, <1>4, NothingInEmpty DEF Given
  <2> QED BY <1>1, <2>1 DEF Bounded
<1> QED BY <1>5, <1>6, <1>7, <1>8

(* What the versions of the events of a node add to the stored version.    *)
LEMMA StoredVersion ==
  ASSUME BInv, NEW n \in Nodes
  PROVE  LET stored == LargestOf(RVsOf(n) \cup {storedRV[n]})
         IN  /\ stored \in RVs /\ stored <= nodeRV[n] /\ storedRV[n] <= stored
             /\ \A e \in Events : e.node = n /\ Contains(aggregator.events, e) => e.rv <= stored
             /\ stored = storedRV[n] \/ \E e \in Events : /\ e.node = n /\ e.rv = stored
                                                        /\ Contains(aggregator.events, e)
<1> DEFINE S == RVsOf(n) \cup {storedRV[n]}
<1>1. aggregator.events \in Seq(Events) /\ Len(aggregator.events) \in Nat
      /\ DOMAIN aggregator.events = 1..Len(aggregator.events)
  BY DEF BInv, TypeOK, Events
<1>2. \A e : e \in Range(aggregator.events) <=> Contains(aggregator.events, e)
  BY <1>1 DEF Range, Contains
<1>3. \A e : Contains(aggregator.events, e) => e \in Events
  BY <1>1 DEF Contains
<1>4. \A rv : rv \in S <=> \/ rv = storedRV[n]
                          \/ \E e \in Events : /\ e.node = n /\ e.rv = rv
                                             /\ Contains(aggregator.events, e)
  BY <1>2, <1>3, Zenon DEF RVsOf
<1>5. \A e \in Events : e.rv \in RVs
  BY DEF Events
<1>6. storedRV[n] \in RVs /\ nodeRV[n] \in RVs
  BY DEF BInv, TypeOK
<1>7. S \in SUBSET RVs /\ S # {}
  BY <1>4, <1>5, <1>6
<1> HIDE DEF S
<1>8. LargestOf(S) \in S /\ LargestOf(S) \in RVs /\ \A y \in S : y <= LargestOf(S)
  BY <1>7, LargestFound
<1>9. \A rv \in S : rv <= nodeRV[n]
  <2>1. storedRV[n] <= nodeRV[n]
    BY DEF BInv, Bounded
  <2>2. \A e \in Events : Contains(aggregator.events, e) => e.rv <= nodeRV[e.node]
    BY DEF BInv, Bounded, Given
  <2> QED BY <1>4, <2>1, <2>2
<1>10. /\ LargestOf(S) \in RVs /\ LargestOf(S) <= nodeRV[n] /\ storedRV[n] <= LargestOf(S)
       /\ \A e \in Events : e.node = n /\ Contains(aggregator.events, e) => e.rv <= LargestOf(S)
       /\ LargestOf(S) = storedRV[n] \/ \E e \in Events : /\ e.node = n /\ e.rv = LargestOf(S)
                                                        /\ Contains(aggregator.events, e)
  BY <1>4, <1>8, <1>9
<1> QED BY <1>10 DEF S

(* A stored version that has changed came with an event.                   *)
LEMMA StoredFrom ==
  ASSUME BInv, ProcessEvents, NEW n \in Nodes, storedRV'[n] # storedRV[n]
  PROVE  \E e \in Events : /\ e.node = n /\ e.rv = storedRV'[n]
                         /\ Contains(aggregator.events, e)
<1> DEFINE stored == LargestOf(RVsOf(n) \cup {storedRV[n]})
<1>1. storedRV'[n] = stored
  BY DEF ProcessEvents
<1>2. stored = storedRV[n] \/ \E e \in Events : /\ e.node = n /\ e.rv = stored
                                             /\ Contains(aggregator.events, e)
  BY StoredVersion
<1> HIDE DEF stored
<1> QED BY <1>1, <1>2

(* The distributor's versions and the CRV after a response was processed.  *)
LEMMA Processed ==
  ASSUME BInv, ProcessEvents
  PROVE  /\ storedRV' \in [Nodes -> RVs] /\ crv' \in [Partitions -> RVs]
         /\ \A n \in Nodes : /\ storedRV[n] <= storedRV'[n] /\ storedRV'[n] <= nodeRV[n]
                            /\ storedRV'[n] <= crv'[PartitionOf[n]]
                            /\ \A e \in Events : e.node = n /\ Contains(aggregator.events, e)
                                                 => e.rv <= storedRV'[n]
         /\ \A p \in Partitions : /\ crv[p] <= crv'[p]
                                 /\ \/ crv'[p] = crv[p]
                                    \/ \E n \in Members(p) : crv'[p] = storedRV'[n]
<1>1. /\ storedRV' = [n \in Nodes |-> LargestOf(RVsOf(n) \cup {storedRV[n]})]
      /\ crv' = [p \in Partitions |->
                   LargestOf({storedRV'[n] : n \in Members(p)} \cup {crv[p]})]
  BY DEF ProcessEvents, ProcessedRVs
<1>2. storedRV' \in [Nodes -> RVs]
  BY <1>1, StoredVersion
<1>3. PICK stored \in [Nodes -> RVs] : stored = storedRV'
  BY <1>2
<1>4. ASSUME NEW p \in Partitions
      PROVE  /\ crv'[p] \in RVs /\ crv[p] <= crv'[p]
             /\ \A n \in Members(p) : stored[n] <= crv'[p]
             /\ crv'[p] = crv[p] \/ \E n \in Members(p) : crv'[p] = stored[n]
  <2>1. crv[p] \in RVs
    BY DEF BInv, TypeOK
  <2> DEFINE largest == LargestOf({stored[n] : n \in Members(p)} \cup {crv[p]})
  <2>2. crv'[p] = largest
    BY <1>1, <1>3
  <2>3. /\ largest \in RVs /\ crv[p] <= largest
        /\ \A n \in Members(p) : stored[n] <= largest
        /\ largest = crv[p] \/ \E n \in Members(p) : largest = stored[n]
    BY <2>1, LargestOfPartition
  <2> HIDE DEF largest
  <2> QED BY <2>2, <2>3
<1>5. crv' \in [Partitions -> RVs]
  BY <1>1, <1>4
<1>6. \A n \in Nodes : PartitionOf[n] \in Partitions /\ n \in Members(PartitionOf[n])
  BY PullAssumption DEF Members
<1>7. ASSUME NEW n \in Nodes
      PROVE  /\ storedRV[n] <= storedRV'[n] /\ storedRV'[n] <= nodeRV[n]
             /\ \A e \in Events : e.node = n /\ Contains(aggregator.events, e)
                                  => e.rv <= storedRV'[n]
  <2>1. storedRV'[n] = LargestOf(RVsOf(n) \cup {storedRV[n]})
    BY <1>1
  <2> QED BY <2>1, StoredVersion
<1>8. \A n \in Nodes : storedRV'[n] <= crv'[PartitionOf[n]]
  BY <1>3, <1>4, <1>6
<1>9. \A p \in Partitions : /\ crv[p] <= crv'[p]
                           /\ \/ crv'[p] = crv[p]
                              \/ \E n \in Members(p) : crv'[p] = storedRV'[n]
  BY <1>3, <1>4
<1> QED BY <1>2, <1>5, <1>7, <1>8, <1>9

(* The distributor processes a response.                                   *)
LEMMA ProcessBInv ==
  ASSUME BInv, ProcessEvents
  PROVE  BInv'
<1> USE DEF BInv
<1>1. /\ aggregator.pc = "process" /\ aggregator' = [pc |-> "post", events |-> <<>>]
      /\ UNCHANGED <<nodeRV, CurrentRVs, updateList, updater, handler, faults>>
  BY DEF ProcessEvents
<1>2. storedRV' \in [Nodes -> RVs] /\ crv' \in [Partitions -> RVs]
  BY Processed
<1>3. <<>> \in Seq([node : Nodes, rv : RVs])
  OBVIOUS
<1>4. aggregator' \in [pc : {"pull", "waiting", "process", "post"},
                      events : Seq([node : Nodes, rv : RVs])]
  BY <1>1, <1>3
<1>5. TypeOK'
  BY <1>1, <1>2, <1>4 DEF TypeOK
<1>6. Control'
  BY <1>1 DEF Control, NotServing
<1>7. Placed'
  BY <1>1 DEF Placed
<1>8. Bounded'
  <2>1. \A n \in Nodes : storedRV'[n] <= nodeRV[n] /\ storedRV'[n] <= crv'[PartitionOf[n]]
    BY Processed
  <2>2. ASSUME NEW p \in Partitions
        PROVE  crv'[p] <= CurrentRVs[p]
    <3>1. CASE crv'[p] = crv[p]
      BY <3>1 DEF Bounded
    <3>2. CASE \E n \in Members(p) : crv'[p] = storedRV'[n]
      <4>1. PICK n \in Members(p) : crv'[p] = storedRV'[n]
        BY <3>2
      <4>2. n \in Nodes /\ PartitionOf[n] = p
        BY DEF Members
      <4>3. storedRV'[n] <= nodeRV[n] /\ nodeRV[n] <= CurrentRVs[p]
        BY <2>1, <4>2 DEF Bounded
      <4>4. storedRV'[n] \in Nat /\ nodeRV[n] \in Nat /\ CurrentRVs[p] \in Nat
        BY <1>2, <4>2 DEF TypeOK, RVs
      <4> QED BY <4>1, <4>3, <4>4
    <3> QED BY <3>1, <3>2, Processed
  <2>3. \A e \in Events : Given(e)' => Given(e)
    BY <1>1, NothingInEmpty DEF Given
  <2> QED BY <1>1, <2>1, <2>2, <2>3 DEF Bounded
<1> QED BY <1>5, <1>6, <1>7, <1>8

(* The aggregator goes on, or nothing happens.                             *)
LEMMA PostBInv ==
  ASSUME BInv, postCRV \/ UNCHANGED vars
  PROVE  BInv'
<1> USE DEF BInv
<1>1. /\ UNCHANGED <<nodeRV, CurrentRVs, updateList, updater, handler, crv, storedRV, faults>>
      /\ aggregator'.events = aggregator.events
      /\ \/ aggregator'.pc = aggregator.pc
         \/ aggregator.pc = "post" /\ aggregator'.pc = "pull"
      /\ aggregator' \in [pc : {"pull", "waiting", "process", "post"},
                          events : Seq([node : Nodes, rv : RVs])]
  BY DEF postCRV, vars, TypeOK
<1>2. TypeOK'
  BY <1>1 DEF TypeOK
<1>3. Control'
  BY <1>1 DEF Control
<1>4. Placed'
  BY <1>1 DEF Placed
<1>5. Bounded'
  BY <1>1 DEF Bounded, Given
<1> QED BY <1>2, <1>3, <1>4, <1>5

(* Types, control, places and bounds are kept by every step.               *)
LEMMA NextBInv == BInv /\ [Next]_vars => BInv'
<1> SUFFICES ASSUME BInv, [Next]_vars PROVE BInv'
  OBVIOUS
<1>1. CASE Pull
  BY <1>1, PullBInv, CollectBInv, EncodeBInv, RespondBInv, ProcessBInv, PostBInv DEF Pull
<1>2. CASE LoseResponse
  BY <1>2, RespondBInv
<1>3. CASE Update
  BY <1>3, ChangeBInv, ReplaceBInv DEF Update
<1>4. CASE \E p \in Partitions : makeDataUpdate(p) \/ makeOneRPDown(p)
  BY <1>4, BeginBInv
<1>5. CASE UNCHANGED vars
  BY <1>5, PostBInv
<1> QED BY <1>1, <1>2, <1>3, <1>4, <1>5 DEF Next

(* Every variable of the aggregator's loop and of the region manager has   *)
(* its type: in particular no version gets past the bound, the CRV that    *)
(* GetCurrentResourceVersions returns is one that the partition has given  *)
(* out, and a received event has a version its node has had.               *)
THEOREM PullTyping == Spec => []TypeOK
<1>1. BInv => TypeOK
  BY DEF BInv
<1> QED BY <1>1, InitBInv, NextBInv, PTL DEF Spec

-----------------------------------------------------------------------------
(* FInv, as long as nothing has gone wrong.                                *)

(* Node n is in a list of pending events.                                  *)
Pending(n) == Contains(updateList[PartitionOf[n]], n) \/ Contains(updater.list, n)

(* The latest version of n is with the distributor or being sent to it.    *)
Arriving(n) ==
  \/ storedRV[n] = nodeRV[n]
  \/ Contains(handler.pulled, n)
  \/ Given([node |-> n, rv |-> nodeRV[n]])

(* The updater and the handler take turns.                                 *)
Alone == handler.pc = "idle" \/ updater.pc = "idle"

(* A first pull brings every node, whatever is pending.                    *)
FirstPull == handler.pc # "idle" /\ crv = NoRVs => \A n \in Nodes : Arriving(n)

(* Once a first pull got through no change is forgotten.                   *)
Way ==
  crv # NoRVs \/ handler.pc # "idle" \/ aggregator.pc = "process" =>
    \A n \in Nodes : Pending(n) \/ Arriving(n)

(* What the handler throws away it has pulled, or skipped for a reason.    *)
Selected ==
  handler.pc = "select" =>
    \A n \in Nodes : Contains(updateList[handler.at], n) =>
      storedRV[n] = nodeRV[n] \/ Contains(handler.pulled, n) \/ Contains(handler.unread, n)

(* What the updater's list replaces is in that list or comes into it.      *)
Taken ==
  updater.pc = "change" =>
    \A n \in Nodes : Contains(updateList[updater.partition], n) =>
      Contains(updater.list, n) \/ n \in updater.todo

(* A later pull leaves nothing pending where it has been.                  *)
Cleared ==
  handler.pc # "idle" /\ crv # NoRVs =>
    \A p \in Partitions : \/ updateList[p] = <<>> \/ p \in handler.todo
                          \/ handler.pc = "select" /\ p = handler.at

(* A pending change that is not being sent is newer than what is.          *)
Newer ==
  \A n \in Nodes : Pending(n) =>
    \/ Arriving(n)
    \/ \A e \in Events : Given(e) /\ PartitionOf[e.node] = PartitionOf[n] => nodeRV[n] > e.rv

(* A pending change is newer than the CRV unless it has arrived.           *)
NewerThanCRV ==
  \A n \in Nodes : Pending(n) => storedRV[n] = nodeRV[n] \/ nodeRV[n] > crv[PartitionOf[n]]

FaultFree ==
  Alone /\ FirstPull /\ Way /\ Selected /\ Taken /\ Cleared /\ Newer /\ NewerThanCRV

FInv == BInv /\ (faults = {} => FaultFree)

(* No change is pending at first.                                          *)
LEMMA InitFInv == Init => FInv
<1> SUFFICES ASSUME Init PROVE FaultFree
  BY InitBInv DEF FInv
<1>1. \A n \in Nodes : ~Pending(n)
  BY NothingInEmpty, PullAssumption DEF Init, Pending, Resting
<1>2. handler.pc = "idle" /\ updater.pc = "idle" /\ crv = NoRVs /\ aggregator.pc = "pull"
  BY DEF Init, NotServing, Resting
<1> QED BY <1>1, <1>2
        DEF FaultFree, Alone, FirstPull, Way, Selected, Taken, Cleared, Newer, NewerThanCRV

(* The updater begins between two pulls.                                   *)
LEMMA BeginFInv ==
  ASSUME BInv, FaultFree, faults' = {},
         NEW p \in Partitions, makeDataUpdate(p) \/ makeOneRPDown(p)
  PROVE  FaultFree'
<1>1. /\ updater.pc = "idle" /\ handler.pc = "idle"
      /\ UNCHANGED <<nodeRV, CurrentRVs, updateList, handler, aggregator, crv, storedRV>>
  BY DEF makeDataUpdate, makeOneRPDown
<1>2. /\ updater'.partition = p /\ updater'.list \in {updateList[p], <<>>}
      /\ updater'.list = updateList[p] \/ updater'.todo = Members(p)
  BY DEF makeDataUpdate, makeOneRPDown, NodesDown
<1>3. updater.list = <<>>
  BY <1>1 DEF BInv, Control, Resting
<1>4. \A n \in Nodes : Contains(updateList[p], n) => n \in Members(p) /\ PartitionOf[n] = p
  BY DEF BInv, Placed, Members
<1>5. \A n \in Nodes : Pending(n)' <=> Pending(n)
  BY <1>1, <1>2, <1>3, <1>4, NothingInEmpty DEF Pending
<1>6. \A n : Arriving(n)' <=> Arriving(n)
  BY <1>1 DEF Arriving, Given
<1>7. Taken'
  BY <1>1, <1>2, <1>4 DEF Taken
<1>8. Way' /\ NewerThanCRV'
  BY <1>1, <1>5, <1>6 DEF FaultFree, Way, NewerThanCRV
<1>9. Newer'
  BY <1>1, <1>5, <1>6 DEF FaultFree, Newer, Given
<1>10. Alone' /\ FirstPull' /\ Selected' /\ Cleared'
  BY <1>1 DEF Alone, FirstPull, Selected, Cleared
<1> QED BY <1>7, <1>8, <1>9, <1>10 DEF FaultFree

(* A changed node is pending, and newer than all of its partition.         *)
LEMMA ChangeFInv ==
  ASSUME BInv, FaultFree, faults' = {}, NEW n \in Nodes, ChangeNode(n)
  PROVE  FaultFree'
<1> DEFINE p == updater.partition
           next == CurrentRVs[p] + 1
<1>1. /\ updater.pc = "change" /\ handler.pc = "idle" /\ n \in updater.todo /\ p \in Partitions
      /\ updater.list \in Seq(Nodes) /\ PartitionOf[n] = p
      /\ UNCHANGED <<updateList, handler, aggregator, crv, storedRV>>
  BY DEF ChangeNode, BInv, TypeOK, Placed, Members
<1>2. /\ Append(updater.list, n) \in Seq(Nodes)
      /\ \A e : Contains(Append(updater.list, n), e) <=> Contains(updater.list, e) \/ e = n
  BY <1>1, InAppended
<1>3. /\ updater'.partition = p /\ updater'.list = Append(updater.list, n)
      /\ updater'.todo = updater.todo \ {n}
  BY DEF ChangeNode, BInv, TypeOK
<1>4. \A m \in Nodes : nodeRV'[m] = IF m = n THEN next ELSE nodeRV[m]
  BY DEF ChangeNode, BInv, TypeOK
<1>5. \A q \in Partitions : crv[q] \in Nat /\ CurrentRVs[q] \in Nat /\ crv[q] <= CurrentRVs[q]
  BY DEF BInv, TypeOK, Bounded, RVs
<1>6. \A e \in Events : e.node \in Nodes /\ e.rv \in Nat /\ nodeRV[e.node] \in Nat
  BY DEF BInv, TypeOK, Events, RVs
<1>7. next > crv[p] /\ next \in Nat
  BY <1>1, <1>5
<1>8. \A e \in Events : Given(e) /\ PartitionOf[e.node] = p => next > e.rv
  <2>1. \A e \in Events : Given(e) => e.rv <= nodeRV[e.node]
    BY DEF BInv, Bounded
  <2>2. \A m \in Nodes : nodeRV[m] <= CurrentRVs[PartitionOf[m]]
    BY DEF BInv, Bounded
  <2> QED BY <1>1, <1>5, <1>6, <2>1, <2>2
<1> HIDE DEF next
<1>9. \A m \in Nodes : Pending(m)' <=> Pending(m) \/ m = n
  BY <1>1, <1>2, <1>3 DEF Pending
<1>10. \A e : Given(e)' <=> Given(e)
  BY <1>1 DEF Given
<1>11. \A m \in Nodes : m # n /\ Arriving(m) => Arriving(m)'
  BY <1>1, <1>4 DEF Arriving, Given
<1>12. Way'
  BY <1>1, <1>9, <1>11 DEF FaultFree, Way
<1>13. Taken'
  BY <1>1, <1>2, <1>3 DEF FaultFree, Taken
<1>14. Newer'
  BY <1>1, <1>4, <1>8, <1>9, <1>10, <1>11 DEF FaultFree, Newer
<1>15. NewerThanCRV'
  BY <1>1, <1>4, <1>7, <1>9 DEF FaultFree, NewerThanCRV
<1>16. Alone' /\ FirstPull' /\ Selected' /\ Cleared'
  BY <1>1 DEF Alone, FirstPull, Selected, Cleared
<1> QED BY <1>12, <1>13, <1>14, <1>15, <1>16 DEF FaultFree

(* All that the old list held is in the new one.                           *)
LEMMA ReplaceFInv ==
  ASSUME BInv, FaultFree, faults' = {}, ReplaceUpdateList
  PROVE  FaultFree'
<1> DEFINE p == updater.partition
<1>1. /\ updater.pc = "change" /\ updater.todo = {} /\ handler.pc = "idle" /\ updater' = Resting
      /\ UNCHANGED <<nodeRV, CurrentRVs, handler, aggregator, crv, storedRV>>
  BY DEF ReplaceUpdateList
<1>2. \A q \in Partitions : updateList'[q] = IF q = p THEN updater.list ELSE updateList[q]
  BY DEF ReplaceUpdateList, BInv, TypeOK
<1>3. updater'.pc = "idle" /\ updater'.list = <<>>
  BY <1>1 DEF Resting
<1>4. \A n \in Nodes : Contains(updater.list, n) => PartitionOf[n] = p
  BY DEF BInv, Placed, Members
<1>5. \A n \in Nodes : Contains(updateList[p], n) => Contains(updater.list, n)
  BY <1>1 DEF FaultFree, Taken
<1>6. \A n \in Nodes : PartitionOf[n] \in Partitions
  BY PullAssumption
<1>7. \A n \in Nodes : Pending(n)' <=> Pending(n)
  BY <1>2, <1>3, <1>4, <1>5, <1>6, NothingInEmpty DEF Pending
<1>8. \A n : Arriving(n)' <=> Arriving(n)
  BY <1>1 DEF Arriving, Given
<1>9. Taken'
  BY <1>3 DEF Taken
<1>10. Way' /\ NewerThanCRV'
  BY <1>1, <1>7, <1>8 DEF FaultFree, Way, NewerThanCRV
<1>11. Newer'
  BY <1>1, <1>7, <1>8 DEF FaultFree, Newer, Given
<1>12. Alone' /\ FirstPull' /\ Selected' /\ Cleared'
  BY <1>1 DEF Alone, FirstPull, Selected, Cleared
<1> QED BY <1>9, <1>10, <1>11, <1>12 DEF FaultFree

(* A pull begins: the first one takes every node.                          *)
LEMMA PullFInv ==
  ASSUME BInv, FaultFree, faults' = {}, initPullOrSubsequentPull
  PROVE  FaultFree'
<1>1. /\ handler = NotServing /\ updater.pc = "idle" /\ aggregator.pc = "pull"
      /\ handler' = IF crv = NoRVs
                    THEN [NotServing EXCEPT !.pc = "encode", !.pulled = NodeOrder]
                    ELSE [NotServing EXCEPT !.pc = "collect", !.todo = Partitions]
      /\ UNCHANGED <<nodeRV, CurrentRVs, updateList, updater, crv, storedRV>>
      /\ aggregator'.events = aggregator.events
  BY DEF initPullOrSubsequentPull, BInv, Control, TypeOK
<1>2. handler.pulled = <<>> /\ handler'.response = handler.response
  BY <1>1 DEF NotServing
<1>3. /\ crv = NoRVs => handler'.pc = "encode" /\ handler'.pulled = NodeOrder
      /\ crv # NoRVs => /\ handler'.pc = "collect" /\ handler'.todo = Partitions
                        /\ handler'.pulled = <<>>
  BY <1>1 DEF NotServing
<1>4. \A e : Given(e)' <=> Given(e)
  BY <1>1, <1>2 DEF Given
<1>5. \A n : Pending(n)' <=> Pending(n)
  BY <1>1 DEF Pending
<1>6. \A n \in Nodes : Arriving(n) => Arriving(n)'
  BY <1>1, <1>2, <1>4, NothingInEmpty DEF Arriving, Given
<1>7. crv = NoRVs => \A n \in Nodes : Arriving(n)'
  <2>1. \A n \in Nodes : Contains(NodeOrder, n)
    <3>1. NodeOrder \in Seq(Nodes) /\ DOMAIN NodeOrder = 1..Len(NodeOrder)
      BY PullAssumption
    <3> QED BY <3>1, PullAssumption DEF Contains
  <2> QED BY <1>3, <2>1 DEF Arriving
<1>8. Way' /\ FirstPull'
  BY <1>1, <1>5, <1>6, <1>7 DEF FaultFree, Way, FirstPull
<1>9. Newer'
  BY <1>1, <1>4, <1>5, <1>6 DEF FaultFree, Newer
<1>10. NewerThanCRV'
  BY <1>1, <1>5 DEF FaultFree, NewerThanCRV
<1>11. Alone' /\ Selected' /\ Taken' /\ Cleared'
  BY <1>1, <1>3 DEF Alone, Selected, Taken, Cleared
<1> QED BY <1>8, <1>9, <1>10, <1>11 DEF FaultFree

(* Steps of the handler that collect: what they skip or throw away is with *)
(* the distributor or has been pulled.                                     *)
LEMMA CollectFInv ==
  ASSUME BInv, FaultFree, \/ \E p \in Partitions : GetRegionNodeModifiedEventsCRV(p)
                          \/ SelectEvent
                          \/ CleanUpEventCache
  PROVE  FaultFree'
<1>1. /\ UNCHANGED <<nodeRV, CurrentRVs, updater, aggregator, crv, storedRV, faults>>
      /\ handler.pc \in {"collect", "select"} /\ crv # NoRVs
  BY DEF GetRegionNodeModifiedEventsCRV, SelectEvent, CleanUpEventCache, BInv, Control
<1>2. updater.pc = "idle" /\ updater.list = <<>>
  BY <1>1 DEF FaultFree, Alone, BInv, Control, Resting
<1>3. /\ handler.unread \in Seq(Nodes) /\ handler.pulled \in Seq(Nodes)
      /\ handler \in [pc : {"idle", "collect", "select", "encode"}, todo : SUBSET Partitions,
                      at : Partitions, unread : Seq(Nodes), pulled : Seq(Nodes),
                      response : Seq([node : Nodes, rv : RVs])]
  BY DEF BInv, TypeOK
<1>4. \A n \in Nodes : Pending(n) <=> Contains(updateList[PartitionOf[n]], n)
  BY <1>2, NothingInEmpty DEF Pending
<1>5. \A n \in Nodes : PartitionOf[n] \in Partitions /\ n \in Members(PartitionOf[n])
  BY PullAssumption DEF Members
<1>6. \A p \in Partitions, n \in Nodes : Contains(updateList[p], n) => PartitionOf[n] = p
  BY DEF BInv, Placed, Members
<1>7. /\ handler'.response = handler.response
      /\ \A n \in Nodes : Contains(handler.pulled, n) => Contains(handler'.pulled, n)
      /\ \A p \in Partitions : updateList'[p] \in {<<>>, updateList[p]}
      /\ \A n \in Nodes : Pending(n) /\ ~Arriving(n)' =>
            Contains(updateList'[PartitionOf[n]], n)
      /\ Selected' /\ Cleared'
  <2>1. CASE \E p \in Partitions : GetRegionNodeModifiedEventsCRV(p)
    <3>1. PICK p \in Partitions : GetRegionNodeModifiedEventsCRV(p)
      BY <2>1
    <3>2. /\ handler.pc = "collect" /\ updateList' = updateList
          /\ handler'.pc = IF updateList[p] # <<>> THEN "select"
                           ELSE IF handler.todo = {p} THEN "encode" ELSE "collect"
          /\ handler'.todo = handler.todo \ {p} /\ handler'.at = p
          /\ handler'.unread = updateList[p] /\ handler'.response = handler.response
          /\ handler'.pulled = handler.pulled
      BY <1>3, <3>1 DEF GetRegionNodeModifiedEventsCRV
    <3>3. Selected'
      BY <3>2 DEF Selected
    <3>4. Cleared'
      BY <1>1, <3>2 DEF FaultFree, Cleared
    <3> QED BY <1>4, <3>2, <3>3, <3>4
  <2>2. CASE SelectEvent
    <3> DEFINE m == Head(handler.unread)
               rest == Tail(handler.unread)
               pulled == IF NewerThan(crv[handler.at], m) THEN Append(handler.pulled, m)
                         ELSE handler.pulled
    <3>1. /\ handler.pc = "select" /\ updateList' = updateList /\ handler.unread # <<>>
          /\ handler'.pc = "select" /\ handler'.todo = handler.todo /\ handler'.at = handler.at
          /\ handler'.unread = rest /\ handler'.response = handler.response
          /\ handler'.pulled = pulled
      BY <1>3, <2>2 DEF SelectEvent
    <3>2. /\ m \in Nodes
          /\ \A n : Contains(handler.unread, n) <=> n = m \/ Contains(rest, n)
      BY <1>3, <3>1, InHeadTail
    <3> HIDE DEF m, rest
    <3>3. \A n : Contains(Append(handler.pulled, m), n) <=> Contains(handler.pulled, n) \/ n = m
      BY <1>3, <3>2, InAppended
    <3>4. /\ \A n : Contains(handler.pulled, n) => Contains(pulled, n)
          /\ nodeRV[m] > crv[handler.at] => Contains(pulled, m)
      BY <3>3 DEF NewerThan
    <3> HIDE DEF pulled
    <3>5. Contains(updateList[handler.at], m) =>
            storedRV[m] = nodeRV[m] \/ Contains(pulled, m)
      <4>1. handler.at \in Partitions
        BY <1>3
      <4>2. SUFFICES ASSUME Contains(updateList[handler.at], m)
                     PROVE  storedRV[m] = nodeRV[m] \/ nodeRV[m] > crv[handler.at]
        BY <3>4
      <4>3. PartitionOf[m] = handler.at /\ Pending(m)
        BY <1>4, <1>6, <3>2, <4>1, <4>2
      <4> QED BY <3>2, <4>3 DEF FaultFree, NewerThanCRV
    <3>6. Selected'
      <4>1. \A n \in Nodes : Contains(updateList[handler.at], n) =>
              storedRV[n] = nodeRV[n] \/ Contains(handler.pulled, n) \/ Contains(handler.unread, n)
        BY <3>1 DEF FaultFree, Selected
      <4>2. \A n \in Nodes : Contains(updateList[handler.at], n) =>
              storedRV[n] = nodeRV[n] \/ Contains(pulled, n) \/ Contains(rest, n)
        BY <3>2, <3>4, <3>5, <4>1
      <4> QED BY <1>1, <3>1, <4>2 DEF Selected
    <3>7. Cleared'
      BY <1>1, <3>1 DEF FaultFree, Cleared
    <3> QED BY <1>4, <3>1, <3>4, <3>6, <3>7
  <2>3. CASE CleanUpEventCache
    <3>1. /\ handler.pc = "select" /\ handler.unread = <<>> /\ handler.at \in Partitions
          /\ updateList' = [updateList EXCEPT ![handler.at] = <<>>]
          /\ handler'.pc = IF handler.todo = {} THEN "encode" ELSE "collect"
          /\ handler'.todo = handler.todo /\ handler'.response = handler.response
          /\ handler'.pulled = handler.pulled
      BY <1>3, <2>3 DEF CleanUpEventCache
    <3>2. \A p \in Partitions : updateList'[p] = IF p = handler.at THEN <<>> ELSE updateList[p]
      BY <3>1 DEF BInv, TypeOK
    <3>3. ASSUME NEW n \in Nodes, Pending(n), ~Arriving(n)'
          PROVE  Contains(updateList'[PartitionOf[n]], n)
      <4>1. CASE PartitionOf[n] # handler.at
        BY <1>4, <1>5, <3>2, <3>3, <4>1
      <4>2. CASE PartitionOf[n] = handler.at
        <5>1. storedRV[n] = nodeRV[n] \/ Contains(handler.pulled, n)
          BY <1>4, <3>1, <3>3, <4>2, NothingInEmpty DEF FaultFree, Selected
        <5>2. Arriving(n)'
          BY <1>1, <3>1, <5>1 DEF Arriving
        <5> QED BY <3>3, <5>2
      <4> QED BY <4>1, <4>2
    <3>4. Selected'
      BY <3>1 DEF Selected
    <3>5. Cleared'
      BY <1>1, <3>1, <3>2 DEF FaultFree, Cleared
    <3> QED BY <3>1, <3>2, <3>3, <3>4, <3>5
  <2> QED BY <2>1, <2>2, <2>3
<1>8. \A e : Given(e)' <=> Given(e)
  BY <1>1, <1>7 DEF Given
<1>9. \A n \in Nodes : Arriving(n) => Arriving(n)'
  BY <1>1, <1>7 DEF Arriving, Given
<1>10. \A n \in Nodes : Pending(n)' => Pending(n)
  BY <1>1, <1>4, <1>5, <1>7, <1>2, NothingInEmpty DEF Pending
<1>11. Way'
  <2>1. \A n \in Nodes : Pending(n) \/ Arriving(n)
    BY <1>1 DEF FaultFree, Way
  <2>2. \A n \in Nodes : Contains(updateList'[PartitionOf[n]], n) => Pending(n)'
    BY DEF Pending
  <2> QED BY <1>7, <1>9, <2>1, <2>2 DEF Way
<1>12. Newer'
  BY <1>1, <1>8, <1>9, <1>10 DEF FaultFree, Newer
<1>13. NewerThanCRV'
  BY <1>1, <1>10 DEF FaultFree, NewerThanCRV
<1>14. Alone' /\ FirstPull' /\ Taken'
  BY <1>1, <1>2 DEF Alone, FirstPull, Taken
<1> QED BY <1>7, <1>11, <1>12, <1>13, <1>14 DEF FaultFree

(* A node is read again while it is not changing.                          *)
LEMMA EncodeFInv ==
  ASSUME BInv, FaultFree, EncodeEvent
  PROVE  FaultFree'
<1> DEFINE m == Head(handler.pulled)
           rest == Tail(handler.pulled)
           event == [node |-> m, rv |-> nodeRV[m]]
           response == Append(handler.response, event)
<1>1. /\ handler.pc = "encode" /\ handler.pulled # <<>>
      /\ UNCHANGED <<nodeRV, CurrentRVs, updateList, updater, aggregator, crv, storedRV, faults>>
      /\ handler'.pc = "encode" /\ handler'.todo = handler.todo
      /\ handler'.pulled = rest /\ handler'.response = response
  BY DEF EncodeEvent, BInv, TypeOK
<1>2. handler.pulled \in Seq(Nodes) /\ handler.response \in Seq(Events)
  BY DEF BInv, TypeOK, Events
<1>3. /\ m \in Nodes
      /\ \A n : Contains(handler.pulled, n) <=> n = m \/ Contains(rest, n)
  BY <1>1, <1>2, InHeadTail
<1>4. event \in Events
  BY <1>3 DEF Events, BInv, TypeOK
<1>5. \A e : Contains(response, e) <=> Contains(handler.response, e) \/ e = event
  BY <1>2, <1>4, InAppended
<1>6. updater.pc = "idle" /\ updater.list = <<>>
  BY <1>1 DEF FaultFree, Alone, BInv, Control, Resting
<1> HIDE DEF rest, response
<1>7. \A e : Given(e)' <=> Given(e) \/ e = event
  BY <1>1, <1>5 DEF Given
<1>8. \A n \in Nodes : Arriving(n) => Arriving(n)'
  <2> SUFFICES ASSUME NEW n \in Nodes, Arriving(n)
               PROVE  Arriving(n)'
    OBVIOUS
  <2>1. CASE storedRV[n] = nodeRV[n]
    BY <1>1, <2>1 DEF Arriving
  <2>2. CASE Contains(rest, n)
    BY <1>1, <2>2 DEF Arriving
  <2>3. CASE n = m
    <3>1. Contains(response, [node |-> n, rv |-> nodeRV[n]])
      BY <1>5, <2>3
    <3> QED BY <1>1, <3>1 DEF Arriving, Given
  <2>4. CASE Given([node |-> n, rv |-> nodeRV[n]])
    <3>1. \/ Contains(response, [node |-> n, rv |-> nodeRV[n]])
          \/ Contains(aggregator.events, [node |-> n, rv |-> nodeRV[n]])
      BY <1>5, <2>4 DEF Given
    <3> QED BY <1>1, <3>1 DEF Arriving, Given
  <2> QED BY <1>3, <2>1, <2>2, <2>3, <2>4 DEF Arriving
<1>9. \A n : Pending(n)' <=> Pending(n)
  BY <1>1 DEF Pending
<1>10. Way' /\ FirstPull'
  BY <1>1, <1>8, <1>9 DEF FaultFree, Way, FirstPull
<1>11. Newer'
  <2>1. CASE crv = NoRVs
    BY <1>1, <1>8, <2>1 DEF FaultFree, FirstPull, Newer
  <2>2. CASE crv # NoRVs
    <3>1. \A p \in Partitions : updateList[p] = <<>>
      BY <1>1, <2>2 DEF FaultFree, Cleared, BInv, Control
    <3>2. \A n \in Nodes : ~Pending(n)
      BY <1>6, <3>1, NothingInEmpty, PullAssumption DEF Pending
    <3> QED BY <1>9, <3>2 DEF Newer
  <2> QED BY <2>1, <2>2
<1>12. NewerThanCRV'
  BY <1>1, <1>9 DEF FaultFree, NewerThanCRV
<1>13. Cleared'
  BY <1>1 DEF FaultFree, Cleared
<1>14. Alone' /\ Selected' /\ Taken'
  BY <1>1, <1>6 DEF Alone, Selected, Taken
<1> QED BY <1>10, <1>11, <1>12, <1>13, <1>14 DEF FaultFree

(* The response arrives, or is a first one, which is asked for again.      *)
LEMMA RespondFInv ==
  ASSUME BInv, FaultFree, faults' = {}, Respond \/ LoseResponse
  PROVE  FaultFree'
<1>1. /\ handler.pc = "encode" /\ handler.pulled = <<>> /\ handler' = NotServing
      /\ UNCHANGED <<nodeRV, CurrentRVs, updateList, updater, crv, storedRV>>
      /\ aggregator.events = <<>>
  BY DEF Respond, LoseResponse, BInv, Control
<1>2. handler'.pc = "idle" /\ handler'.response = <<>>
  BY <1>1 DEF NotServing
<1>3. \A n : Pending(n)' <=> Pending(n)
  BY <1>1 DEF Pending
<1>4. NewerThanCRV'
  BY <1>1, <1>3 DEF FaultFree, NewerThanCRV
<1>5. Way' /\ Newer'
  <2>1. CASE Respond
    <3>1. aggregator'.events = handler.response
      BY <2>1 DEF Respond
    <3>2. \A e : Given(e)' <=> Given(e)
      BY <1>1, <1>2, <3>1, NothingInEmpty DEF Given
    <3>3. \A n \in Nodes : Arriving(n) => Arriving(n)'
      BY <1>1, <1>2, <3>1, NothingInEmpty DEF Arriving, Given
    <3>4. Way'
      BY <1>1, <1>3, <3>3 DEF FaultFree, Way
    <3>5. Newer'
      BY <1>1, <1>3, <3>2, <3>3 DEF FaultFree, Newer
    <3> QED BY <3>4, <3>5
  <2>2. CASE LoseResponse
    <3>1. crv = NoRVs
      BY <2>2 DEF LoseResponse
    <3>2. aggregator'.pc = "pull" /\ aggregator'.events = <<>>
      BY <1>1, <2>2 DEF LoseResponse, BInv, TypeOK
    <3>3. \A e : ~Given(e)'
      BY <1>2, <3>2, NothingInEmpty DEF Given
    <3> QED BY <1>1, <1>2, <3>1, <3>2, <3>3 DEF Way, Newer
  <2> QED BY <2>1, <2>2
<1>6. Taken'
  BY <1>1 DEF FaultFree, Taken
<1>7. Alone' /\ FirstPull' /\ Selected' /\ Cleared'
  BY <1>2 DEF Alone, FirstPull, Selected, Cleared
<1> QED BY <1>4, <1>5, <1>6, <1>7 DEF FaultFree

(* The distributor keeps what arrives; the CRV passes no pending change.   *)
LEMMA ProcessFInv ==
  ASSUME BInv, FaultFree, ProcessEvents
  PROVE  FaultFree'
<1>1. /\ aggregator.pc = "process" /\ aggregator' = [pc |-> "post", events |-> <<>>]
      /\ UNCHANGED <<nodeRV, CurrentRVs, updateList, updater, handler, faults>>
      /\ handler = NotServing
  BY DEF ProcessEvents, BInv, Control
<1>2. handler.pc = "idle" /\ handler.pulled = <<>> /\ handler.response = <<>>
  BY <1>1 DEF NotServing
<1>3. \A n : Pending(n)' <=> Pending(n)
  BY <1>1 DEF Pending
<1>4. \A e : ~Given(e)'
  BY <1>1, <1>2, NothingInEmpty DEF Given
<1>5. \A e : Given(e) <=> Contains(aggregator.events, e)
  BY <1>2, NothingInEmpty DEF Given
<1>6. \A n \in Nodes : /\ storedRV[n] \in Nat /\ nodeRV[n] \in Nat /\ storedRV'[n] \in Nat
                     /\ PartitionOf[n] \in Partitions
  <2>1. storedRV' \in [Nodes -> RVs]
    BY Processed
  <2>2. \A n \in Nodes : storedRV'[n] \in RVs
    BY <2>1
  <2>3. \A n \in Nodes : storedRV[n] \in RVs /\ nodeRV[n] \in RVs
    BY DEF BInv, TypeOK
  <2> QED BY <2>2, <2>3, PullAssumption DEF RVs
<1>7. \A n \in Nodes : storedRV[n] <= storedRV'[n] /\ storedRV'[n] <= nodeRV[n]
  BY Processed
<1>8. ASSUME NEW n \in Nodes, Arriving(n)
      PROVE  storedRV'[n] = nodeRV[n]
  <2>1. CASE storedRV[n] = nodeRV[n]
    BY <1>6, <1>7, <2>1
  <2>2. CASE Given([node |-> n, rv |-> nodeRV[n]])
    <3> DEFINE e == [node |-> n, rv |-> nodeRV[n]]
    <3>1. e \in Events /\ e.node = n /\ e.rv = nodeRV[n] /\ Contains(aggregator.events, e)
      BY <1>5, <2>2 DEF Events, BInv, TypeOK
    <3> HIDE DEF e
    <3>2. e.rv <= storedRV'[n]
      BY <3>1, Processed
    <3> QED BY <1>6, <1>7, <3>1, <3>2
  <2> QED BY <1>2, <1>8, <2>1, <2>2, NothingInEmpty DEF Arriving
<1>9. Way'
  <2>1. \A n \in Nodes : Pending(n) \/ Arriving(n)
    BY <1>1 DEF FaultFree, Way
  <2>2. \A n \in Nodes : Arriving(n) => Arriving(n)'
    BY <1>1, <1>8 DEF Arriving
  <2> QED BY <1>3, <2>1, <2>2 DEF Way
<1>10. NewerThanCRV'
  <2> SUFFICES ASSUME NEW n \in Nodes, Pending(n), ~Arriving(n)
               PROVE  nodeRV[n] > crv'[PartitionOf[n]]
    BY <1>1, <1>3, <1>8 DEF NewerThanCRV
  <2> DEFINE p == PartitionOf[n]
  <2>1. nodeRV[n] > crv[p]
    BY DEF FaultFree, NewerThanCRV, Arriving
  <2>2. \A e \in Events : Contains(aggregator.events, e) /\ PartitionOf[e.node] = p
                         => nodeRV[n] > e.rv
    BY <1>5 DEF FaultFree, Newer
  <2>3. p \in Partitions /\ crv[p] \in Nat
    BY <1>6 DEF BInv, TypeOK, RVs
  <2>4. CASE crv'[p] = crv[p]
    BY <2>1, <2>4
  <2>5. CASE \E m \in Members(p) : crv'[p] = storedRV'[m]
    <3>1. PICK m \in Members(p) : crv'[p] = storedRV'[m]
      BY <2>5
    <3>2. m \in Nodes /\ PartitionOf[m] = p
      BY DEF Members
    <3>3. CASE storedRV'[m] = storedRV[m]
      <4>1. storedRV[m] <= crv[p]
        BY <3>2 DEF BInv, Bounded
      <4> QED BY <1>6, <2>1, <2>3, <3>1, <3>2, <3>3, <4>1
    <3>4. CASE storedRV'[m] # storedRV[m]
      <4>1. PICK e \in Events : /\ e.node = m /\ e.rv = storedRV'[m]
                              /\ Contains(aggregator.events, e)
        BY <3>2, <3>4, StoredFrom
      <4>2. nodeRV[n] > e.rv
        BY <2>2, <3>2, <4>1
      <4> QED BY <3>1, <4>1, <4>2
    <3> QED BY <3>3, <3>4
  <2> QED BY <2>3, <2>4, <2>5, Processed
<1>11. Newer'
  BY <1>4 DEF Newer
<1>12. Taken'
  BY <1>1 DEF FaultFree, Taken
<1>13. Alone' /\ FirstPull' /\ Selected' /\ Cleared'
  BY <1>1, <1>2 DEF Alone, FirstPull, Selected, Cleared
<1> QED BY <1>9, <1>10, <1>11, <1>12, <1>13 DEF FaultFree

(* The aggregator goes on, or nothing happens.                             *)
LEMMA PostFInv ==
  ASSUME BInv, FaultFree, postCRV \/ UNCHANGED vars
  PROVE  FaultFree'
<1>1. /\ UNCHANGED <<nodeRV, CurrentRVs, updateList, updater, handler, crv, storedRV>>
      /\ aggregator'.events = aggregator.events
      /\ aggregator'.pc = "process" => aggregator.pc = "process"
  BY DEF postCRV, vars, BInv, TypeOK
<1>2. \A n : Pending(n)' <=> Pending(n)
  BY <1>1 DEF Pending
<1>3. \A e : Given(e)' <=> Given(e)
  BY <1>1 DEF Given
<1>4. \A n : Arriving(n)' <=> Arriving(n)
  BY <1>1 DEF Arriving, Given
<1>5. Way' /\ FirstPull'
  BY <1>1, <1>2, <1>4 DEF FaultFree, Way, FirstPull
<1>6. Newer'
  BY <1>1, <1>2, <1>3, <1>4 DEF FaultFree, Newer
<1>7. NewerThanCRV'
  BY <1>1, <1>2 DEF FaultFree, NewerThanCRV
<1>8. Alone' /\ Selected' /\ Taken' /\ Cleared'
  BY <1>1 DEF FaultFree, Alone, Selected, Taken, Cleared
<1> QED BY <1>5, <1>6, <1>7, <1>8 DEF FaultFree

(* What has gone wrong stays wrong.                                        *)
LEMMA FaultsStay ==
  ASSUME [Next]_vars, faults' = {}
  PROVE  faults = {}
<1>1. CASE Pull
  BY <1>1 DEF Pull, initPullOrSubsequentPull, GetRegionNodeModifiedEventsCRV, SelectEvent,
              CleanUpEventCache, EncodeEvent, Respond, ProcessEvents, postCRV
<1>2. CASE LoseResponse
  BY <1>2 DEF LoseResponse
<1>3. CASE Update
  BY <1>3 DEF Update, ChangeNode, ReplaceUpdateList
<1>4. CASE \E p \in Partitions : makeDataUpdate(p) \/ makeOneRPDown(p)
  BY <1>4 DEF makeDataUpdate, makeOneRPDown
<1>5. CASE UNCHANGED vars
  BY <1>5 DEF vars
<1> QED BY <1>1, <1>2, <1>3, <1>4, <1>5 DEF Next

(* What holds while there is no fault is kept by every step without one.   *)
LEMMA NextFInv == FInv /\ [Next]_vars => FInv'
<1> SUFFICES ASSUME FInv, [Next]_vars PROVE FInv'
  OBVIOUS
<1>1. BInv /\ BInv'
  BY NextBInv DEF FInv
<1> SUFFICES ASSUME faults' = {} PROVE FaultFree'
  BY <1>1 DEF FInv
<1>2. FaultFree
  BY FaultsStay DEF FInv
<1>3. CASE Pull
  BY <1>1, <1>2, <1>3, PullFInv, CollectFInv, EncodeFInv, RespondFInv, ProcessFInv, PostFInv
     DEF Pull
<1>4. CASE LoseResponse
  BY <1>1, <1>2, <1>4, RespondFInv
<1>5. CASE Update
  BY <1>1, <1>2, <1>5, ChangeFInv, ReplaceFInv DEF Update
<1>6. CASE \E p \in Partitions : makeDataUpdate(p) \/ makeOneRPDown(p)
  BY <1>1, <1>2, <1>6, BeginFInv
<1>7. CASE UNCHANGED vars
  BY <1>1, <1>2, <1>7, PostFInv
<1> QED BY <1>3, <1>4, <1>5, <1>6, <1>7 DEF Next

(* It holds throughout.                                                    *)
LEMMA SpecFInv == Spec => []FInv
BY InitFInv, NextFInv, PTL DEF Spec

(* Pulling forgets no change: unless a node changed while a response was   *)
(* built or the response of a later pull was lost, the latest version of a *)
(* node is with the distributor, pending, or being sent, although pending  *)
(* events are changed in place and thrown away when they are collected.    *)
THEOREM PullForgetsNothing == Spec => []NoChangeForgotten
<1>1. FInv => NoChangeForgotten
  <2> SUFFICES ASSUME FInv, faults = {}, NEW n \in Nodes PROVE OnItsWay(n)
    BY DEF NoChangeForgotten
  <2>1. crv = NoRVs \/ Pending(n) \/ Arriving(n)
    BY DEF FInv, FaultFree, Way
  <2> QED BY <2>1 DEF OnItsWay, Pending, Arriving, Given
<1> QED BY <1>1, SpecFInv, PTL

(* The CRV that the aggregator asks with never gets ahead of a pending     *)
(* change: what GetRegionNodeModifiedEventsCRV skips has arrived already.  *)
THEOREM PendingStaysNewer == Spec => []PendingIsNewer
<1>1. FInv => PendingIsNewer
  <2> SUFFICES ASSUME FInv, faults = {}, NEW p \in Partitions, NEW i \in DOMAIN updateList[p]
               PROVE  LET n == updateList[p][i]
                      IN  nodeRV[n] > crv[p] \/ storedRV[n] = nodeRV[n]
    BY DEF PendingIsNewer
  <2>1. updateList[p] \in Seq(Nodes)
    BY DEF FInv, BInv, TypeOK
  <2>2. PICK n \in Nodes : n = updateList[p][i] /\ Contains(updateList[p], n)
    BY <2>1 DEF Contains
  <2>3. PartitionOf[n] = p
    BY <2>2 DEF FInv, BInv, Placed, Members
  <2>4. Pending(n)
    BY <2>2, <2>3 DEF Pending
  <2> QED BY <2>2, <2>3, <2>4 DEF FInv, FaultFree, NewerThanCRV
<1> QED BY <1>1, SpecFInv, PTL
=============================================================================
