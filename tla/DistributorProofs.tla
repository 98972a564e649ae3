-------------------------- MODULE DistributorProofs --------------------------
(***************************************************************************)
(* What the distributor keeps true for any number of regions, stores,      *)
(* nodes, clients and requests, proved with TLAPS: the types of its        *)
(* variables first, from them what registration guarantees, and that the   *)
(* nodes are counted.                                                      *)
(***************************************************************************)
EXTENDS Distributor, FiniteSetTheorems, TLAPS

(* A goroutine that is handling an event has one of its region, knows the  *)
(* queue it is about to lock, and holds mu only to write.                  *)
Handling ==
  \A r \in Regions :
    /\ proc[r].pc # "idle" => proc[r].event \in NodeEvent
    /\ proc[r].pc = "enqueue" => proc[r].queue \in Clients
    /\ proc[r].locked <=> proc[r].pc = "write"

TInv == TypeOK /\ Handling

USE NodeStoreAssumption, RequestAssumption

(* An event has a position, a store, a location and a resource version.    *)
LEMMA EventPlace ==
  ASSUME NEW e \in NodeEvent
  PROVE  /\ e.id \in NodeIds /\ HashOf[e.id] \in Hashes
         /\ StoreOfNode(e.id) \in Stores /\ LocOfNode(e.id) \in Locations
         /\ e.rv \in RVs /\ e.rv \in Nat /\ e.rv > 0
BY DEF NodeEvent, StoreOfNode, LocOfNode, RVs

(* What WithEvent makes of a queue: the event comes last, after all that   *)
(* was there or, when it was full, all but the first.                      *)
LEMMA WithEventIs ==
  ASSUME NEW T, NEW q \in Seq(T), NEW e \in T
  PROVE  /\ WithEvent(q, e) \in Seq(T)
         /\ Len(q) # LengthOfNodeEventQueue =>
              /\ Len(WithEvent(q, e)) = Len(q) + 1
              /\ \A i \in 1..Len(q) : WithEvent(q, e)[i] = q[i]
         /\ Len(q) = LengthOfNodeEventQueue =>
              /\ Len(WithEvent(q, e)) = Len(q)
              /\ \A i \in 1..(Len(q) - 1) : WithEvent(q, e)[i] = q[i + 1]
         /\ WithEvent(q, e)[Len(WithEvent(q, e))] = e
<1>1. CASE Len(q) = LengthOfNodeEventQueue
  <2> DEFINE t == Tail(q)
  <2>1. Len(q) > 0 /\ Len(q) \in Nat
    BY <1>1
  <2>2. t \in Seq(T) /\ Len(t) = Len(q) - 1 /\ \A i \in 1..(Len(q) - 1) : t[i] = q[i + 1]
    BY <2>1
  <2>3. WithEvent(q, e) = Append(t, e)
    BY <1>1 DEF WithEvent
  <2> HIDE DEF t
  <2>4. Append(t, e) \in Seq(T) /\ Len(Append(t, e)) = Len(q) /\ Append(t, e)[Len(q)] = e
    BY <2>1, <2>2
  <2>5. \A i \in 1..(Len(q) - 1) : Append(t, e)[i] = q[i + 1]
    BY <2>1, <2>2
  <2> QED BY <1>1, <2>3, <2>4, <2>5
<1>2. CASE Len(q) # LengthOfNodeEventQueue
  <2>1. WithEvent(q, e) = Append(q, e)
    BY <1>2 DEF WithEvent
  <2> QED BY <1>2, <2>1
<1> QED BY <1>1, <1>2

(* Everything is empty at first.                                           *)
LEMMA InitTInv == Init => TInv
<1> SUFFICES ASSUME Init PROVE TInv
  OBVIOUS
<1> USE DEF Init, StoreInit, DistInit
<1>1. Idle \in [pc : {"idle", "check", "enqueue", "lock", "write", "rv"},
                op : {"add", "update", None}, create : BOOLEAN,
                event : NodeEvent \cup {NoNode},
                queue : Clients \cup {None}, locked : BOOLEAN]
  BY DEF Idle
<1>2. NotListed \in [pc : {"none", "snapshot", "listed"}, todo : SUBSET Stores,
                     nodes : [NodeIds -> RVs]]
  BY DEF NotListed, RVs
<1>3. queues \in [Clients -> [Locations -> Seq(NodeEvent)]]
  BY DEF EmptyQueue
<1>4. registration \in [Requests -> [pc : RegistrationSteps, selected : SUBSET Stores,
                                     todo : SUBSET Stores]]
  BY DEF RegistrationSteps
<1>5. TypeOK
  BY <1>1, <1>2, <1>3, <1>4 DEF TypeOK, RVs
<1>6. Handling
  BY DEF Handling, Idle
<1> QED BY <1>5, <1>6 DEF TInv

(* A region's goroutine processes an event.                                *)
LEMMA ProcessTInv ==
  ASSUME TInv, NEW r \in Regions, ProcessEvents(r)
  PROVE  TInv'
<1> USE DEF TInv
<1> DEFINE ProcType == [pc : {"idle", "check", "enqueue", "lock", "write", "rv"},
                        op : {"add", "update", None}, create : BOOLEAN,
                        event : NodeEvent \cup {NoNode},
                        queue : Clients \cup {None}, locked : BOOLEAN]
<1>1. UNCHANGED distVars
  BY DEF ProcessEvents
<1>a. proc \in [Regions -> ProcType] /\ proc[r] \in ProcType
  BY DEF TypeOK
<1>b. proc[r].pc # "idle" => proc[r].event \in NodeEvent
  BY DEF Handling
<1>2. ASSUME NEW e \in NodeEvent, processNodeEvent(r, e) PROVE TInv'
  <2>1. proc' \in [Regions -> ProcType]
    BY <1>2 DEF processNodeEvent, TypeOK, Idle
  <2>2. fed' \in [NodeIds -> RVs]
    BY <1>2 DEF processNodeEvent, TypeOK, NodeEvent, RVs
  <2>3. TypeOK'
    BY <1>1, <1>2, <2>1, <2>2 DEF processNodeEvent, TypeOK, distVars
  <2>4. Handling'
    BY <1>2 DEF processNodeEvent, Handling, Idle, TypeOK
  <2> QED BY <2>3, <2>4
<1>3. CASE checkQueue(r)
  <2>0. eventQueue[StoreOfNode(proc[r].event.id)] \in Clients \cup {None}
    BY <1>3, <1>b, EventPlace DEF checkQueue, TypeOK
  <2>1. proc' \in [Regions -> ProcType]
    BY <1>3, <1>a, <2>0 DEF checkQueue, NextLock, TypeOK
  <2>3. TypeOK'
    BY <1>1, <1>3, <2>1 DEF checkQueue, TypeOK, distVars
  <2>4. Handling'
    BY <1>3 DEF checkQueue, NextLock, Handling, TypeOK
  <2> QED BY <2>3, <2>4
<1>4. CASE EnqueueEvent(r)
  <2>1. proc' \in [Regions -> ProcType]
    BY <1>4, <1>a DEF EnqueueEvent, NextLock
  <2>2. queues' \in [Clients -> [Locations -> Seq(NodeEvent)]]
    <3> DEFINE c == proc[r].queue
               loc == LocOfNode(proc[r].event.id)
    <3>1. proc[r].event \in NodeEvent /\ loc \in Locations /\ c \in Clients
      BY <1>4, <1>b, EventPlace DEF EnqueueEvent, Handling
    <3>2. queues' = [queues EXCEPT ![c][loc] = WithEvent(@, proc[r].event)]
      BY <1>4 DEF EnqueueEvent
    <3>3. queues[c][loc] \in Seq(NodeEvent)
      BY <3>1 DEF TypeOK
    <3>4. WithEvent(queues[c][loc], proc[r].event) \in Seq(NodeEvent)
      BY <3>1, <3>3, WithEventIs
    <3> HIDE DEF c, loc
    <3> QED BY <3>1, <3>2, <3>4 DEF TypeOK
  <2>3. TypeOK'
    BY <1>1, <1>4, <2>1, <2>2 DEF EnqueueEvent, TypeOK, distVars
  <2>4. Handling'
    BY <1>4 DEF EnqueueEvent, NextLock, Handling, TypeOK
  <2> QED BY <2>3, <2>4
<1>5. CASE lockStore(r)
  <2>1. proc' \in [Regions -> ProcType]
    BY <1>5, <1>a DEF lockStore, NextLock
  <2>3. TypeOK'
    BY <1>1, <1>5, <2>1 DEF lockStore, TypeOK, distVars
  <2>4. Handling'
    BY <1>5 DEF lockStore, NextLock, Handling, TypeOK
  <2> QED BY <2>3, <2>4
<1>6. CASE addNodeToRing(r)
  <2>1. proc' \in [Regions -> ProcType]
    BY <1>6, <1>a DEF addNodeToRing
  <2>2. nodeEventByHash' \in [Hashes -> NodeEvent \cup {NoNode}] /\ totalHostNum' \in Nat
    <3>1. proc[r].event \in NodeEvent /\ HashOf[proc[r].event.id] \in Hashes
      BY <1>6, <1>b, EventPlace DEF addNodeToRing
    <3>2. \/ UNCHANGED <<nodeEventByHash, totalHostNum>>
          \/ /\ nodeEventByHash' = [nodeEventByHash EXCEPT ![HashOf[proc[r].event.id]] = proc[r].event]
             /\ totalHostNum' = totalHostNum + 1
      BY <1>6 DEF addNodeToRing
    <3> DEFINE e == proc[r].event
               h == HashOf[e.id]
    <3>3. nodeEventByHash \in [Hashes -> NodeEvent \cup {NoNode}] /\ totalHostNum \in Nat
      BY DEF TypeOK
    <3>4. e \in NodeEvent \cup {NoNode} /\ h \in Hashes
      BY <3>1
    <3>5. \/ UNCHANGED <<nodeEventByHash, totalHostNum>>
          \/ /\ nodeEventByHash' = [nodeEventByHash EXCEPT ![h] = e]
             /\ totalHostNum' = totalHostNum + 1
      BY <3>2
    <3> HIDE DEF e, h
    <3>6. nodeEventByHash' \in [Hashes -> NodeEvent \cup {NoNode}]
      BY <3>3, <3>4, <3>5
    <3> QED BY <3>3, <3>5, <3>6
  <2>3. TypeOK'
    BY <1>1, <1>6, <2>1, <2>2 DEF addNodeToRing, TypeOK, distVars
  <2>4. Handling'
    <3>1. \A x \in Regions : x # r => proc'[x] = proc[x]
      BY <1>6, <1>a DEF addNodeToRing
    <3>2. /\ proc'[r].event = proc[r].event /\ proc'[r].locked = FALSE
          /\ proc'[r].pc \in {"check", "rv"}
      BY <1>6, <1>a DEF addNodeToRing
    <3> QED BY <1>6, <1>b, <3>1, <3>2 DEF Handling, addNodeToRing
  <2> QED BY <2>3, <2>4
<1>7. CASE updateNodeInRing(r)
  <2>1. proc' \in [Regions -> ProcType]
    BY <1>7, <1>a DEF updateNodeInRing
  <2>2. nodeEventByHash' \in [Hashes -> NodeEvent \cup {NoNode}]
    BY <1>7, <1>b, EventPlace DEF updateNodeInRing, TypeOK
  <2>3. TypeOK'
    BY <1>1, <1>7, <2>1, <2>2 DEF updateNodeInRing, TypeOK, distVars
  <2>4. Handling'
    BY <1>7 DEF updateNodeInRing, Handling, TypeOK
  <2> QED BY <2>3, <2>4
<1>8. CASE updateResourceVersion(r)
  <2>1. proc' \in [Regions -> ProcType]
    BY <1>8, <1>a DEF updateResourceVersion, Idle
  <2>2. currentRVs' \in [Locations -> RVs]
    BY <1>8, <1>b, EventPlace DEF updateResourceVersion, TypeOK
  <2>3. TypeOK'
    BY <1>1, <1>8, <2>1, <2>2 DEF updateResourceVersion, TypeOK, distVars
  <2>4. Handling'
    BY <1>8 DEF updateResourceVersion, Handling, TypeOK, Idle
  <2> QED BY <2>3, <2>4
<1> QED
  BY <1>2, <1>3, <1>4, <1>5, <1>6, <1>7, <1>8 DEF ProcessEvents, ProcessLocally

(* Registration and list calls never touch an event in progress.           *)
LEMMA HandlingUnchanged ==
  ASSUME Handling, UNCHANGED proc
  PROVE  Handling'
BY DEF Handling

(* A bookmark is a node event.                                             *)
LEMMA BookmarkTyped ==
  ASSUME TypeOK, NEW S \in SUBSET Stores, NEW loc \in Locations
  PROVE  BookmarksOf(S, loc) \subseteq NodeEvent
<1> SUFFICES ASSUME NEW b \in BookmarksOf(S, loc) PROVE b \in NodeEvent
  OBVIOUS
<1>1. PICK h \in Hosts({s \in S : LocOf[s] = loc}) :
        b = [type |-> "Bookmark", id |-> nodeEventByHash[h].id, rv |-> nodeEventByHash[h].rv]
  BY DEF BookmarksOf
<1>2. nodeEventByHash[h] \in NodeEvent
  BY DEF Hosts, TypeOK
<1> QED BY <1>1, <1>2 DEF NodeEvent

(* There are finitely many to put in an order.                             *)
LEMMA OrderedTyped ==
  ASSUME TypeOK, NEW S \in SUBSET Stores, NEW B,
         \A b \in B : \E loc \in Locations : b \in BookmarksOf(S, loc),
         NEW s \in InSomeOrder(B)
  PROVE  s \in Seq(NodeEvent)
<1> DEFINE bm(h) == [type |-> "Bookmark", id |-> nodeEventByHash[h].id, rv |-> nodeEventByHash[h].rv]
           f == [h \in Hashes |-> bm(h)]
           T == {f[h] : h \in Hashes}
<1>1. f \in Surjection(Hashes, T)
  BY DEF Surjection
<1>2. IsFiniteSet(T)
  <2> HIDE DEF f, T
  <2> QED BY <1>1, FS_Surjection, NodeStoreAssumption
<1>3. B \subseteq T
  BY DEF BookmarksOf, Hosts
<1>4. IsFiniteSet(B) /\ Cardinality(B) \in Nat
  <2> HIDE DEF T
  <2> QED BY <1>2, <1>3, FS_Subset, FS_CardinalityType
<1>5. B \subseteq NodeEvent
  BY BookmarkTyped
<1> HIDE DEF T
<1> QED BY ONLY <1>4, <1>5, s \in InSomeOrder(B) DEF InSomeOrder

(* A registration goes on.                                                 *)
LEMMA RegisterTInv ==
  ASSUME TInv, NEW q \in Requests, RegisterClient(q)
  PROVE  TInv'
<1> USE DEF TInv
<1> DEFINE RegType == [pc : RegistrationSteps, selected : SUBSET Stores, todo : SUBSET Stores]
<1>1. UNCHANGED proc
  BY DEF RegisterClient, deny, allocateNodesToClient, addBookmarkEvent, AssignToClient,
         finishAllocation, PersistClient, storeVars
<1>2. Handling'
  BY <1>1, HandlingUnchanged
<1>3. registration \in [Requests -> RegType] /\ registration[q] \in RegType /\ ClientOf[q] \in Clients
  BY DEF TypeOK
<1>4. CASE deny(q)
  <2>1. registration' \in [Requests -> RegType]
    BY <1>3, <1>4 DEF deny, RegistrationSteps
  <2> QED BY <1>2, <1>4, <2>1 DEF deny, TypeOK, storeVars
<1>5. CASE allocateNodesToClient(q)
  <2>1. Selections(q) \subseteq SUBSET Stores
    BY DEF Selections, FreeStores
  <2>2. registration' \in [Requests -> RegType]
    BY <1>3, <1>5, <2>1 DEF allocateNodesToClient, RegistrationSteps
  <2> QED BY <1>2, <1>5, <2>2 DEF allocateNodesToClient, TypeOK, storeVars
<1>6. CASE addBookmarkEvent(q)
  <2> DEFINE S == registration[q].selected
             locs == {LocOf[s] : s \in S}
  <2>1. registration' \in [Requests -> RegType]
    BY <1>3, <1>6 DEF addBookmarkEvent, RegistrationSteps
  <2>2. nodeEventQueueMap' \subseteq Clients
    BY <1>3, <1>6 DEF addBookmarkEvent, TypeOK
  <2>3. PICK bookmark \in [locs -> UNION {BookmarksOf(S, loc) : loc \in locs}] :
          /\ \A loc \in locs : bookmark[loc] \in BookmarksOf(S, loc)
          /\ \E queue \in [Locations -> UNION {InSomeOrder(QueuedUnder(bookmark, loc)) : loc \in Locations}] :
               /\ \A loc \in Locations : queue[loc] \in InSomeOrder(QueuedUnder(bookmark, loc))
               /\ queues' = [queues EXCEPT ![ClientOf[q]] = queue]
    BY <1>6 DEF addBookmarkEvent
  <2>4. PICK queue \in [Locations -> UNION {InSomeOrder(QueuedUnder(bookmark, loc)) : loc \in Locations}] :
            /\ \A loc \in Locations : queue[loc] \in InSomeOrder(QueuedUnder(bookmark, loc))
            /\ queues' = [queues EXCEPT ![ClientOf[q]] = queue]
    BY <2>3
  <2>5. queues' \in [Clients -> [Locations -> Seq(NodeEvent)]]
    <3>1. S \subseteq Stores /\ locs \subseteq Locations /\ DOMAIN bookmark = locs
      BY <1>3, NodeStoreAssumption
    <3>2. ASSUME NEW loc \in Locations PROVE queue[loc] \in Seq(NodeEvent)
      <4>1. \A b \in QueuedUnder(bookmark, loc) : \E l \in Locations : b \in BookmarksOf(S, l)
        BY <2>3, <3>1 DEF QueuedUnder
      <4> QED BY <2>4, <3>1, <4>1, OrderedTyped
    <3>3. queue \in [Locations -> Seq(NodeEvent)]
      BY <2>4, <3>2
    <3> QED BY <1>3, <2>4, <3>3 DEF TypeOK
  <2> QED BY <1>2, <1>6, <2>1, <2>2, <2>5 DEF addBookmarkEvent, TypeOK
<1>7. ASSUME NEW s \in Stores, AssignToClient(q, s) PROVE TInv'
  <2>1. registration' \in [Requests -> RegType]
    BY <1>3, <1>7 DEF AssignToClient
  <2>2. clientId' \in [Stores -> Clients \cup {None}] /\ eventQueue' \in [Stores -> Clients \cup {None}]
    BY <1>3, <1>7 DEF AssignToClient, TypeOK
  <2> QED BY <1>2, <1>7, <2>1, <2>2 DEF AssignToClient, TypeOK
<1>8. CASE finishAllocation(q)
  <2>1. registration' \in [Requests -> RegType]
    BY <1>3, <1>8 DEF finishAllocation, RegistrationSteps
  <2>2. clientToStores' \in [Clients -> SUBSET Stores]
    BY <1>3, <1>8 DEF finishAllocation, TypeOK
  <2> QED BY <1>2, <1>8, <2>1, <2>2 DEF finishAllocation, TypeOK, storeVars
<1>9. CASE PersistClient(q)
  <2>1. registration' \in [Requests -> RegType]
    BY <1>3, <1>9 DEF PersistClient, RegistrationSteps
  <2> QED BY <1>2, <1>9, <2>1 DEF PersistClient, TypeOK, storeVars
<1> QED BY <1>4, <1>5, <1>6, <1>7, <1>8, <1>9 DEF RegisterClient

(* A list call goes on.                                                    *)
LEMMA ListTInv ==
  ASSUME TInv, NEW c \in Clients, ListNodesForClient(c)
  PROVE  TInv'
<1> USE DEF TInv
<1> DEFINE ListType == [pc : {"none", "snapshot", "listed"}, todo : SUBSET Stores,
                        nodes : [NodeIds -> RVs]]
<1>1. Handling'
  BY HandlingUnchanged DEF ListNodesForClient, AcquireSnapshotRLock, SnapShot,
     ReleaseSnapshotRLock, storeVars
<1>2. lister \in [Clients -> ListType] /\ lister[c] \in ListType
  BY DEF TypeOK
<1>3. CASE AcquireSnapshotRLock(c)
  <2> DEFINE started == [NotListed EXCEPT !.pc = "snapshot", !.todo = clientToStores[c]]
  <2>2. started \in ListType
    <3>1. NotListed \in ListType
      BY DEF NotListed, RVs
    <3>2. clientToStores[c] \in SUBSET Stores
      BY DEF TypeOK
    <3> QED BY <3>1, <3>2
  <2>3. lister' = [lister EXCEPT ![c] = started]
    BY <1>3 DEF AcquireSnapshotRLock
  <2>1. lister' \in [Clients -> ListType]
    <3> HIDE DEF started
    <3> QED BY <1>2, <2>2, <2>3
  <2> QED BY <1>1, <1>3, <2>1 DEF AcquireSnapshotRLock, TypeOK
<1>4. ASSUME NEW s \in Stores, SnapShot(c, s) PROVE TInv'
  <2>1. \A n \in NodeIds : HashOf[n] \in Hosts({s}) => nodeEventByHash[HashOf[n]].rv \in RVs
    BY EventPlace DEF Hosts, TypeOK
  <2>2. WithStore(lister[c].nodes, s) \in [NodeIds -> RVs]
    BY <1>2, <2>1 DEF WithStore
  <2>3. lister' \in [Clients -> ListType]
    BY <1>2, <1>4, <2>2 DEF SnapShot
  <2> QED BY <1>1, <1>4, <2>3 DEF SnapShot, TypeOK, storeVars
<1>5. CASE ReleaseSnapshotRLock(c)
  <2>1. lister' \in [Clients -> ListType]
    BY <1>2, <1>5 DEF ReleaseSnapshotRLock
  <2> QED BY <1>1, <1>5, <2>1 DEF ReleaseSnapshotRLock, TypeOK
<1> QED BY <1>3, <1>4, <1>5 DEF ListNodesForClient

(* Typing is kept by every step.                                           *)
LEMMA NextTInv == TInv /\ [Next]_vars => TInv'
<1>1. ASSUME TInv, Next PROVE TInv'
  BY <1>1, ProcessTInv, RegisterTInv, ListTInv DEF Next
<1>2. ASSUME TInv, UNCHANGED vars PROVE TInv'
  BY <1>2 DEF TInv, TypeOK, Handling, vars, storeVars, distVars
<1> QED BY <1>1, <1>2

(* What the other proofs need of typing.                                   *)
LEMMA TypedAndHandling == Spec => []TInv
BY InitTInv, NextTInv, PTL DEF Spec

(* Every variable of the distributor and its node store keeps its type.    *)
THEOREM Typing == Spec => []TypeOK
<1>1. TInv => TypeOK
  BY DEF TInv
<1> QED BY <1>1, TypedAndHandling, PTL

-----------------------------------------------------------------------------
(* Registration.                                                           *)

(* A request in the critical section of allocateLock.                      *)
Allocating(q) == registration[q].pc \in {"bookmark", "assign"}
Granted(q) == registration[q].pc \in {"persist", "registered", "failed"}

LockHolder == \A q \in Requests : Allocating(q) <=> allocateLock = q

(* The client of a store and the client whose queue it feeds change        *)
(* together.                                                               *)
SameClient == \A s \in Stores : clientId[s] = eventQueue[s]

(* What was selected stays free until it is assigned to the client that is *)
(* registering.                                                            *)
SelectedStores ==
  \A q \in Requests : Allocating(q) =>
    /\ registration[q].todo \subseteq registration[q].selected
    /\ registration[q].pc = "bookmark" => registration[q].todo = registration[q].selected
    /\ \A s \in registration[q].todo : clientId[s] = None
    /\ \A s \in registration[q].selected \ registration[q].todo : clientId[s] = ClientOf[q]

ListedStores == \A c \in Clients : \A s \in clientToStores[c] : clientId[s] = c

AInv == LockHolder /\ SameClient /\ SelectedStores /\ ListedStores

(* Nothing is assigned at first.                                           *)
LEMMA InitAInv == Init => AInv
BY RequestAssumption DEF Init, StoreInit, DistInit, AInv, LockHolder, SameClient, SelectedStores, ListedStores,
       Allocating

(* Only registration touches what AInv is about.                           *)
LEMMA AInvUnchanged ==
  ASSUME AInv, UNCHANGED <<registration, allocateLock, clientId, eventQueue, clientToStores>>
  PROVE  AInv'
BY DEF AInv, LockHolder, SameClient, SelectedStores, ListedStores, Allocating

(* A registration goes on while it alone holds allocateLock.               *)
LEMMA RegisterAInv ==
  ASSUME TypeOK, AInv, NEW q \in Requests, RegisterClient(q)
  PROVE  AInv'
<1> DEFINE RegType == [pc : RegistrationSteps, selected : SUBSET Stores, todo : SUBSET Stores]
<1>1. registration \in [Requests -> RegType] /\ registration[q] \in RegType /\ ClientOf[q] \in Clients
  BY NodeStoreAssumption, RequestAssumption DEF TypeOK
<1>2. \A x \in Requests : x # q => registration'[x] = registration[x]
  BY <1>1 DEF RegisterClient, deny, allocateNodesToClient, addBookmarkEvent, AssignToClient,
     finishAllocation, PersistClient
<1>3. None \notin Requests /\ None \notin Clients
  BY NodeStoreAssumption, RequestAssumption
<1>4. CASE deny(q) \/ PersistClient(q)
  <2>1. /\ ~Allocating(q) /\ ~Allocating(q)'
        /\ UNCHANGED <<allocateLock, clientId, eventQueue, clientToStores>>
    BY <1>1, <1>4 DEF deny, PersistClient, Allocating, storeVars
  <2> QED BY <1>2, <2>1 DEF AInv, LockHolder, SameClient, SelectedStores, ListedStores, Allocating
<1>5. CASE allocateNodesToClient(q)
  <2>1. PICK S \in Selections(q) :
          registration' = [registration EXCEPT ![q] = [pc |-> "bookmark", selected |-> S, todo |-> S]]
    BY <1>5 DEF allocateNodesToClient
  <2>2. \A s \in S : clientId[s] = None
    BY DEF Selections, FreeStores
  <2>3. registration'[q] = [pc |-> "bookmark", selected |-> S, todo |-> S]
    BY <1>1, <2>1
  <2>4. allocateLock = None /\ allocateLock' = q
        /\ UNCHANGED <<clientId, eventQueue, clientToStores>>
    BY <1>5 DEF allocateNodesToClient, AllocateLockFree, storeVars
  <2>5. LockHolder'
    BY <1>2, <1>3, <2>3, <2>4 DEF AInv, LockHolder, Allocating
  <2>6. SelectedStores'
    BY <1>2, <2>2, <2>3, <2>4 DEF AInv, SelectedStores, Allocating
  <2> QED BY <2>4, <2>5, <2>6 DEF AInv, SameClient, ListedStores
<1>6. CASE addBookmarkEvent(q)
  <2>1. /\ registration'[q] = [registration[q] EXCEPT !.pc = "assign"]
        /\ registration[q].pc = "bookmark"
        /\ UNCHANGED <<allocateLock, clientId, eventQueue, clientToStores>>
    BY <1>1, <1>6 DEF addBookmarkEvent
  <2>2. /\ registration'[q].pc = "assign" /\ registration'[q].todo = registration[q].todo
        /\ registration'[q].selected = registration[q].selected
    BY <1>1, <2>1
  <2>3. \A x \in Requests : Allocating(x)' <=> Allocating(x)
    BY <1>2, <2>1, <2>2 DEF Allocating
  <2>4. LockHolder' /\ SameClient' /\ ListedStores'
    BY <2>1, <2>3 DEF AInv, LockHolder, SameClient, ListedStores
  <2>5. \A x \in Requests : /\ registration'[x].todo = registration[x].todo
                            /\ registration'[x].selected = registration[x].selected
                            /\ registration'[x].pc = "bookmark" => registration[x].pc = "bookmark"
    BY <1>2, <2>1, <2>2
  <2>6. SelectedStores'
    BY <2>1, <2>3, <2>5 DEF AInv, SelectedStores
  <2> QED BY <2>4, <2>6 DEF AInv
<1>7. ASSUME NEW s \in Stores, AssignToClient(q, s) PROVE AInv'
  <2>1. /\ registration[q].pc = "assign" /\ s \in registration[q].todo
        /\ registration'[q].pc = "assign" /\ registration'[q].todo = registration[q].todo \ {s}
        /\ registration'[q].selected = registration[q].selected
        /\ UNCHANGED <<allocateLock, clientToStores>>
    BY <1>1, <1>7 DEF AssignToClient
  <2>2. clientId[s] = None
    BY <2>1 DEF AInv, SelectedStores, Allocating
  <2>3. /\ clientId' = [clientId EXCEPT ![s] = ClientOf[q]]
        /\ eventQueue' = [eventQueue EXCEPT ![s] = ClientOf[q]]
    BY <1>7, <2>2 DEF AssignToClient
  <2>4. /\ clientId'[s] = ClientOf[q] /\ eventQueue'[s] = ClientOf[q]
        /\ \A t \in Stores \ {s} : clientId'[t] = clientId[t] /\ eventQueue'[t] = eventQueue[t]
    BY <1>7, <2>3 DEF TypeOK
  <2>5. LockHolder' /\ SameClient'
    BY <1>2, <2>1, <2>4 DEF AInv, LockHolder, SameClient, Allocating
  <2>6. \A x \in Requests : Allocating(x)' => x = q
    BY <2>1, <2>5, <1>3 DEF AInv, LockHolder, Allocating
  <2>7. SelectedStores'
    BY <1>1, <2>1, <2>4, <2>6 DEF AInv, SelectedStores, Allocating
  <2>8. ListedStores'
    BY <1>3, <2>1, <2>2, <2>4 DEF AInv, ListedStores, TypeOK
  <2> QED BY <2>5, <2>7, <2>8 DEF AInv
<1>8. CASE finishAllocation(q)
  <2>1. /\ registration[q].pc = "assign" /\ registration[q].todo = {}
        /\ registration'[q].pc = "persist" /\ allocateLock' = None
        /\ clientToStores' = [clientToStores EXCEPT ![ClientOf[q]] = registration[q].selected]
        /\ UNCHANGED <<clientId, eventQueue>>
    BY <1>1, <1>8 DEF finishAllocation, storeVars
  <2>2. allocateLock = q /\ \A x \in Requests : Allocating(x) => x = q
    BY <2>1 DEF AInv, LockHolder, Allocating
  <2>3. \A x \in Requests : ~Allocating(x)'
    BY <1>2, <2>1, <2>2 DEF Allocating
  <2>4. LockHolder' /\ SelectedStores' /\ SameClient'
    BY <1>3, <2>1, <2>3 DEF AInv, LockHolder, SelectedStores, SameClient
  <2>5. \A s \in registration[q].selected : clientId[s] = ClientOf[q]
    BY <2>1 DEF AInv, SelectedStores, Allocating
  <2>6. ListedStores'
    BY <1>1, <2>1, <2>5 DEF AInv, ListedStores, TypeOK
  <2> QED BY <2>4, <2>6 DEF AInv
<1> QED BY <1>4, <1>5, <1>6, <1>7, <1>8 DEF RegisterClient

(* The assignment's invariant is kept by every step.                       *)
LEMMA NextAInv == TInv /\ AInv /\ [Next]_vars => AInv'
<1>1. ASSUME TInv, AInv, NEW q \in Requests, RegisterClient(q) PROVE AInv'
  BY <1>1, RegisterAInv DEF TInv
<1>2. ASSUME AInv, NEW r \in Regions, ProcessEvents(r) PROVE AInv'
  <2>1. UNCHANGED <<registration, allocateLock, clientId, eventQueue, clientToStores>>
    BY <1>2 DEF ProcessEvents, ProcessLocally, processNodeEvent, checkQueue, EnqueueEvent,
       lockStore, addNodeToRing, updateNodeInRing, updateResourceVersion, distVars
  <2> QED BY <1>2, <2>1, AInvUnchanged
<1>3. ASSUME AInv, NEW c \in Clients, ListNodesForClient(c) PROVE AInv'
  BY <1>3, AInvUnchanged DEF ListNodesForClient, AcquireSnapshotRLock, SnapShot,
     ReleaseSnapshotRLock, storeVars
<1>4. ASSUME AInv, UNCHANGED vars PROVE AInv'
  BY <1>4, AInvUnchanged DEF vars, storeVars, distVars
<1> QED BY <1>1, <1>2, <1>3, <1>4 DEF Next

(* No store serves two clients, however many register at once and however  *)
(* the steps of allocateNodesToClient interleave with everything else: the *)
(* invariant is that allocateLock guards the selected stores until each is *)
(* assigned.                                                               *)
THEOREM Exclusive == Spec => []ExclusiveAssignment
<1>1. TInv /\ AInv => ExclusiveAssignment
  BY DEF TInv, TypeOK, AInv, SameClient, ListedStores, ExclusiveAssignment
<1> QED BY <1>1, InitAInv, NextAInv, TypedAndHandling, PTL DEF Spec

-----------------------------------------------------------------------------
(* Hosts(S), with the contents of the ring as a parameter.                 *)
HostsOf(ring, S) == {h \in Hashes : StoreOf[h] \in S /\ ring[h] # NoNode}

(* The hosts of a set of stores are finitely many.                         *)
LEMMA HostsCounted ==
  ASSUME NEW ring, NEW S
  PROVE  IsFiniteSet(HostsOf(ring, S)) /\ Cardinality(HostsOf(ring, S)) \in Nat
BY NodeStoreAssumption, FS_Subset, FS_CardinalityType DEF HostsOf

(* Stores do not lose hosts while nodes are only added.                    *)
LEMMA HostsMonotone ==
  ASSUME NEW ring, NEW later, NEW S,
         \A h \in Hashes : ring[h] # NoNode => later[h] # NoNode
  PROVE  Cardinality(HostsOf(ring, S)) <= Cardinality(HostsOf(later, S))
<1>1. HostsOf(ring, S) \subseteq HostsOf(later, S)
  BY DEF HostsOf
<1> QED BY <1>1, HostsCounted, FS_Subset

(* No step takes a node off the ring.                                      *)
LEMMA RingGrows ==
  ASSUME TInv, [Next]_vars
  PROVE  \A h \in Hashes : nodeEventByHash[h] # NoNode => nodeEventByHash'[h] # NoNode
<1>1. \A e \in NodeEvent : e # NoNode
  BY EventPlace DEF NoNode
<1>2. ASSUME NEW r \in Regions, addNodeToRing(r) \/ updateNodeInRing(r)
      PROVE  \A h \in Hashes : nodeEventByHash[h] # NoNode => nodeEventByHash'[h] # NoNode
  <2>1. proc[r].event \in NodeEvent
    BY <1>2 DEF TInv, Handling, addNodeToRing, updateNodeInRing
  <2>2. \/ nodeEventByHash' = nodeEventByHash
        \/ nodeEventByHash' = [nodeEventByHash EXCEPT ![HashOf[proc[r].event.id]] = proc[r].event]
    BY <1>2 DEF addNodeToRing, updateNodeInRing
  <2> QED BY <1>1, <2>1, <2>2 DEF TInv, TypeOK
<1>3. ASSUME NEW r \in Regions, ProcessEvents(r),
             ~addNodeToRing(r), ~updateNodeInRing(r)
      PROVE  UNCHANGED nodeEventByHash
  BY <1>3 DEF ProcessEvents, ProcessLocally, processNodeEvent, checkQueue, EnqueueEvent,
     lockStore, updateResourceVersion
<1>4. ASSUME NEW q \in Requests, RegisterClient(q) PROVE UNCHANGED nodeEventByHash
  BY <1>4 DEF RegisterClient, deny, allocateNodesToClient, addBookmarkEvent, AssignToClient,
     finishAllocation, PersistClient, storeVars
<1>5. ASSUME NEW c \in Clients, ListNodesForClient(c) PROVE UNCHANGED nodeEventByHash
  BY <1>5 DEF ListNodesForClient, AcquireSnapshotRLock, SnapShot, ReleaseSnapshotRLock, storeVars
<1>6. UNCHANGED vars => UNCHANGED nodeEventByHash
  BY DEF vars, storeVars
<1> QED BY <1>2, <1>3, <1>4, <1>5, <1>6 DEF Next

(* A set of stores that serves a request.                                  *)
Covers(ring, S, q) == S # {} /\ Cardinality(HostsOf(ring, S)) >= RequestedHostNum[q]

(* What was selected covers the request and still does once it is the      *)
(* client's; until then the client has no stores, so that no second        *)
(* registration of the client replaces them.                               *)
GInv ==
  /\ \A q \in Requests : Allocating(q) =>
       /\ Covers(nodeEventByHash, registration[q].selected, q)
       /\ clientToStores[ClientOf[q]] = {}
  /\ \A q \in Requests : Granted(q) => Covers(nodeEventByHash, clientToStores[ClientOf[q]], q)

(* What is selected is enough.                                             *)
LEMMA SelectionCovers ==
  ASSUME NEW q \in Requests, NEW S \in Selections(q)
  PROVE  Covers(nodeEventByHash, S, q)
BY DEF Selections, Covers, Hosts, HostsOf

(* It stays enough.                                                        *)
LEMMA CoversStable ==
  ASSUME TInv, [Next]_vars, NEW S, NEW q \in Requests, Covers(nodeEventByHash, S, q)
  PROVE  Covers(nodeEventByHash', S, q)
<1>1. /\ Cardinality(HostsOf(nodeEventByHash, S)) <= Cardinality(HostsOf(nodeEventByHash', S))
      /\ Cardinality(HostsOf(nodeEventByHash, S)) \in Nat
      /\ Cardinality(HostsOf(nodeEventByHash', S)) \in Nat
  BY RingGrows, HostsMonotone, HostsCounted
<1> QED BY <1>1, RequestAssumption DEF Covers

(* Nothing but registration moves the requests.                            *)
LEMMA GInvKept ==
  ASSUME TInv, GInv, [Next]_vars, UNCHANGED <<registration, clientToStores>>
  PROVE  GInv'
<1>1. \A q \in Requests : /\ Allocating(q)' <=> Allocating(q)
                          /\ Granted(q)' <=> Granted(q)
  BY DEF Allocating, Granted
<1>2. ASSUME NEW q \in Requests, Allocating(q)
      PROVE  Covers(nodeEventByHash', registration[q].selected, q)
  BY <1>2, CoversStable DEF GInv
<1>3. ASSUME NEW q \in Requests, Granted(q)
      PROVE  Covers(nodeEventByHash', clientToStores[ClientOf[q]], q)
  BY <1>3, CoversStable DEF GInv
<1> QED BY <1>1, <1>2, <1>3 DEF GInv

(* A registration goes on, and keeps what is granted.                      *)
LEMMA RegisterGInv ==
  ASSUME TInv, AInv, GInv, NEW q \in Requests, RegisterClient(q)
  PROVE  GInv'
<1> DEFINE RegType == [pc : RegistrationSteps, selected : SUBSET Stores, todo : SUBSET Stores]
<1>1. registration \in [Requests -> RegType] /\ registration[q] \in RegType /\ ClientOf[q] \in Clients
  BY NodeStoreAssumption, RequestAssumption DEF TInv, TypeOK
<1>2. \A x \in Requests : x # q => registration'[x] = registration[x]
  BY <1>1 DEF RegisterClient, deny, allocateNodesToClient, addBookmarkEvent, AssignToClient,
     finishAllocation, PersistClient
<1>3. UNCHANGED nodeEventByHash
  BY DEF RegisterClient, deny, allocateNodesToClient, addBookmarkEvent, AssignToClient,
     finishAllocation, PersistClient, storeVars
<1>4. CASE deny(q)
  <2>1. /\ registration'[q].pc = "denied" /\ UNCHANGED clientToStores
    BY <1>1, <1>4 DEF deny
  <2> QED BY <1>2, <1>3, <2>1 DEF GInv, Allocating, Granted
<1>5. CASE PersistClient(q)
  <2>1. /\ registration[q].pc = "persist" /\ registration'[q].pc \in {"registered", "failed"}
        /\ UNCHANGED clientToStores
    BY <1>1, <1>5 DEF PersistClient
  <2> QED BY <1>2, <1>3, <2>1 DEF GInv, Allocating, Granted
<1>6. CASE allocateNodesToClient(q)
  <2>1. PICK S \in Selections(q) :
          registration' = [registration EXCEPT ![q] = [pc |-> "bookmark", selected |-> S, todo |-> S]]
    BY <1>6 DEF allocateNodesToClient
  <2>2. /\ registration'[q].pc = "bookmark" /\ registration'[q].selected = S
        /\ UNCHANGED clientToStores /\ clientToStores[ClientOf[q]] = {}
    BY <1>1, <1>6, <2>1 DEF allocateNodesToClient, Admissible
  <2>3. Covers(nodeEventByHash, S, q)
    BY SelectionCovers
  <2> QED BY <1>2, <1>3, <2>2, <2>3 DEF GInv, Allocating, Granted
<1>7. CASE addBookmarkEvent(q) \/ \E s \in Stores : AssignToClient(q, s)
  <2>1. /\ registration[q].pc \in {"bookmark", "assign"} /\ registration'[q].pc = "assign"
        /\ registration'[q].selected = registration[q].selected
        /\ UNCHANGED clientToStores
    BY <1>1, <1>7 DEF addBookmarkEvent, AssignToClient
  <2> QED BY <1>2, <1>3, <2>1 DEF GInv, Allocating, Granted
<1>8. CASE finishAllocation(q)
  <2> DEFINE S == registration[q].selected
  <2>1. /\ registration[q].pc = "assign" /\ registration'[q].pc = "persist"
        /\ clientToStores' = [clientToStores EXCEPT ![ClientOf[q]] = S]
    BY <1>1, <1>8 DEF finishAllocation
  <2>2. /\ clientToStores'[ClientOf[q]] = S
        /\ \A c \in Clients \ {ClientOf[q]} : clientToStores'[c] = clientToStores[c]
    BY <1>1, <2>1 DEF TInv, TypeOK
  <2>3. Covers(nodeEventByHash, S, q) /\ clientToStores[ClientOf[q]] = {}
    BY <2>1 DEF GInv, Allocating
  <2>4. \A x \in Requests : Allocating(x) => x = q
    BY <2>1 DEF AInv, LockHolder, Allocating
  <2>5. \A x \in Requests : ~Allocating(x)'
    BY <1>2, <2>1, <2>4 DEF Allocating
  <2>6. ASSUME NEW x \in Requests, Granted(x)'
        PROVE  Covers(nodeEventByHash, clientToStores'[ClientOf[x]], x)
    <3>1. CASE x = q
      BY <3>1, <2>2, <2>3
    <3>2. CASE x # q
      <4>1. Granted(x)
        BY <1>2, <2>6, <3>2 DEF Granted
      <4>2. Covers(nodeEventByHash, clientToStores[ClientOf[x]], x)
        BY <4>1 DEF GInv
      <4>3. ClientOf[x] # ClientOf[q]
        BY <4>2, <2>3 DEF Covers
      <4> QED BY <2>2, <4>2, <4>3, RequestAssumption
    <3> QED BY <3>1, <3>2
  <2> QED BY <1>3, <2>5, <2>6 DEF GInv
<1> QED BY <1>4, <1>5, <1>6, <1>7, <1>8 DEF RegisterClient

(* What is granted is kept by every step.                                  *)
LEMMA NextGInv == TInv /\ AInv /\ GInv /\ [Next]_vars => GInv'
<1> SUFFICES ASSUME TInv, AInv, GInv, [Next]_vars PROVE GInv'
  OBVIOUS
<1>1. ASSUME NEW q \in Requests, RegisterClient(q) PROVE GInv'
  BY <1>1, RegisterGInv
<1>2. ASSUME NEW r \in Regions, ProcessEvents(r) PROVE GInv'
  BY <1>2, GInvKept DEF ProcessEvents, distVars
<1>3. ASSUME NEW c \in Clients, ListNodesForClient(c) PROVE GInv'
  BY <1>3, GInvKept DEF ListNodesForClient, AcquireSnapshotRLock, SnapShot, ReleaseSnapshotRLock
<1>4. CASE UNCHANGED vars
  BY <1>4, GInvKept DEF vars, distVars
<1> QED BY <1>1, <1>2, <1>3, <1>4 DEF Next

(* "Granted in full": from its allocation on, a client's stores hold at    *)
(* least the hosts it asked for, whatever nodes are added or updated and   *)
(* whoever registers, the same client id again included.                   *)
THEOREM GrantedInFull == Spec => []GrantCoversRequest
<1>1. Init => GInv
  BY DEF Init, DistInit, GInv, Allocating, Granted
<1>2. GInv => GrantCoversRequest
  BY DEF GInv, GrantCoversRequest, Granted, Covers, Hosts, HostsOf
<1> QED BY <1>1, <1>2, InitAInv, NextAInv, NextGInv, TypedAndHandling, PTL DEF Spec

-----------------------------------------------------------------------------
(* The hash function is not injective; what follows is about the runs in   *)
(* which no two nodes hash to one position.                                *)
CollisionFree == \A m, n \in NodeIds : HashOf[m] = HashOf[n] => m = n

(* Every node is at its own position, and totalHostNum counts them.        *)
HInv ==
  /\ \A h \in Hashes : nodeEventByHash[h] # NoNode => HashOf[nodeEventByHash[h].id] = h
  /\ totalHostNum = Cardinality(HostsOf(nodeEventByHash, Stores))

(* There are no hosts to count at first.                                   *)
LEMMA InitHInv == Init => HInv
<1> SUFFICES ASSUME Init PROVE HInv
  OBVIOUS
<1>1. nodeEventByHash = [h \in Hashes |-> NoNode] /\ totalHostNum = 0
  BY DEF Init, StoreInit
<1>2. HostsOf(nodeEventByHash, Stores) = {}
  BY <1>1 DEF HostsOf
<1> QED BY <1>1, <1>2, FS_EmptySet DEF HInv

(* A node is added and counted.                                            *)
LEMMA AddHInv ==
  ASSUME CollisionFree, TInv, HInv, NEW r \in Regions, addNodeToRing(r)
  PROVE  HInv'
<1> DEFINE e == proc[r].event
           h == HashOf[e.id]
<1>1. e \in NodeEvent /\ e # NoNode /\ h \in Hashes /\ StoreOf[h] \in Stores
  BY EventPlace, NodeStoreAssumption DEF TInv, Handling, addNodeToRing, NoNode, StoreOfNode
<1>2. CASE SameNode(e)
  BY <1>2 DEF addNodeToRing, HInv
<1>3. CASE ~SameNode(e)
  <2>1. nodeEventByHash' = [nodeEventByHash EXCEPT ![h] = e] /\ totalHostNum' = totalHostNum + 1
    BY <1>3 DEF addNodeToRing
  <2>2. nodeEventByHash[h] = NoNode
    <3>1. SUFFICES ASSUME nodeEventByHash[h] # NoNode PROVE FALSE
      OBVIOUS
    <3>2. nodeEventByHash[h] \in NodeEvent /\ HashOf[nodeEventByHash[h].id] = h
      BY <1>1, <3>1 DEF TInv, TypeOK, HInv
    <3>3. nodeEventByHash[h].id = e.id
      BY <1>1, <3>2, EventPlace DEF CollisionFree, NodeEvent
    <3> QED BY <1>3, <3>1, <3>3 DEF SameNode, Occupied, Stored
  <2>3. /\ nodeEventByHash'[h] = e
        /\ \A x \in Hashes \ {h} : nodeEventByHash'[x] = nodeEventByHash[x]
    BY <1>1, <2>1 DEF TInv, TypeOK
  <2>4. HostsOf(nodeEventByHash', Stores) = HostsOf(nodeEventByHash, Stores) \cup {h}
    BY <1>1, <2>3 DEF HostsOf
  <2>5. h \notin HostsOf(nodeEventByHash, Stores)
    BY <2>2 DEF HostsOf
  <2>6. Cardinality(HostsOf(nodeEventByHash', Stores))
          = Cardinality(HostsOf(nodeEventByHash, Stores)) + 1
    BY <2>4, <2>5, HostsCounted, FS_AddElement
  <2>7. \A x \in Hashes : nodeEventByHash'[x] # NoNode => HashOf[nodeEventByHash'[x].id] = x
    BY <1>1, <2>3 DEF HInv
  <2> QED BY <2>1, <2>6, <2>7 DEF HInv
<1> QED BY <1>2, <1>3

(* A node is replaced and not counted again.                               *)
LEMMA UpdateHInv ==
  ASSUME TInv, HInv, NEW r \in Regions, updateNodeInRing(r)
  PROVE  HInv'
<1> DEFINE e == proc[r].event
           h == HashOf[e.id]
<1>1. e \in NodeEvent /\ e # NoNode /\ h \in Hashes
  BY EventPlace DEF TInv, Handling, updateNodeInRing, NoNode
<1>2. totalHostNum' = totalHostNum
  BY DEF updateNodeInRing
<1>3. CASE nodeEventByHash' = nodeEventByHash
  BY <1>2, <1>3 DEF HInv
<1>4. CASE SameNode(e) /\ nodeEventByHash' = [nodeEventByHash EXCEPT ![h] = e]
  <2>1. nodeEventByHash[h] # NoNode
    BY <1>4 DEF SameNode, Occupied, Stored
  <2>2. /\ nodeEventByHash'[h] = e
        /\ \A x \in Hashes \ {h} : nodeEventByHash'[x] = nodeEventByHash[x]
    BY <1>1, <1>4 DEF TInv, TypeOK
  <2>3. HostsOf(nodeEventByHash', Stores) = HostsOf(nodeEventByHash, Stores)
    BY <1>1, <2>1, <2>2 DEF HostsOf
  <2>4. \A x \in Hashes : nodeEventByHash'[x] # NoNode => HashOf[nodeEventByHash'[x].id] = x
    BY <1>1, <2>2 DEF HInv
  <2> QED BY <1>2, <2>3, <2>4 DEF HInv
<1> QED BY <1>3, <1>4 DEF updateNodeInRing

(* The count is kept by every step.                                        *)
LEMMA NextHInv ==
  ASSUME CollisionFree, TInv, HInv, [Next]_vars
  PROVE  HInv'
<1>1. ASSUME UNCHANGED <<nodeEventByHash, totalHostNum>> PROVE HInv'
  BY <1>1 DEF HInv
<1>2. ASSUME NEW r \in Regions, ProcessEvents(r) PROVE HInv'
  BY <1>1, <1>2, AddHInv, UpdateHInv DEF ProcessEvents, ProcessLocally, processNodeEvent,
     checkQueue, EnqueueEvent, lockStore, updateResourceVersion
<1>3. ASSUME NEW q \in Requests, RegisterClient(q) PROVE HInv'
  BY <1>1, <1>3 DEF RegisterClient, deny, allocateNodesToClient, addBookmarkEvent, AssignToClient,
     finishAllocation, PersistClient, storeVars
<1>4. ASSUME NEW c \in Clients, ListNodesForClient(c) PROVE HInv'
  BY <1>1, <1>4 DEF ListNodesForClient, AcquireSnapshotRLock, SnapShot, ReleaseSnapshotRLock,
     storeVars
<1>5. CASE UNCHANGED vars
  BY <1>1, <1>5 DEF vars, storeVars
<1> QED BY <1>2, <1>3, <1>4, <1>5 DEF Next

(* The host count that admits or denies a request is the number of nodes   *)
(* kept, as long as no two nodes hash to one position: CreateNode and      *)
(* UpdateNode, which call each other, count a node once.                   *)
THEOREM HostsCountedOnce ==
  ASSUME CollisionFree
  PROVE  Spec => []HostCountExact
<1>1. TInv /\ HInv /\ [Next]_vars => HInv'
  BY NextHInv
<1>2. HInv => HostCountExact
  BY DEF HInv, HostCountExact, Hosts, HostsOf
<1> QED BY <1>1, <1>2, InitHInv, TypedAndHandling, PTL DEF Spec

-----------------------------------------------------------------------------
(* What a region manager may rely on: the versions that ProcessEvents      *)
(* returns cover no event that is not stored.                              *)

(* An event between processNodeEvent and its writing.                      *)
Pending(r) == proc[r].pc \in {"check", "enqueue", "lock", "write"}

(* A goroutine has the last event of a node of its region.                 *)
LastFed ==
  \A r \in Regions : proc[r].pc # "idle" =>
    /\ RegionOf[LocOfNode(proc[r].event.id)] = r
    /\ fed[proc[r].event.id] = proc[r].event.rv

(* Until it is written, its version is not acknowledged.  updateNodeInRing *)
(* hands it to addNodeToRing for an empty position only.                   *)
NotYetAcknowledged ==
  \A r \in Regions : Pending(r) =>
    /\ currentRVs[LocOfNode(proc[r].event.id)] < proc[r].event.rv
    /\ proc[r].op = "add" /\ ~proc[r].create =>
         nodeEventByHash[HashOf[proc[r].event.id]] = NoNode

(* What is stored is never newer than what was fed, and it is the last fed *)
(* unless that is pending.                                                 *)
StoredRV(n) == nodeEventByHash[HashOf[n]].rv
Behind == \A n \in NodeIds : StoredRV(n) <= fed[n]
Kept ==
  \A n \in NodeIds :
    StoredRV(n) = fed[n] \/ \E r \in Regions : Pending(r) /\ proc[r].event.id = n

AcknowledgedWasFed ==
  \A loc \in Locations :
    currentRVs[loc] = 0 \/ \E n \in NodeIds : LocOfNode(n) = loc /\ currentRVs[loc] <= fed[n]

KInv == LastFed /\ NotYetAcknowledged /\ Behind /\ Kept /\ AcknowledgedWasFed

PType == [pc : {"idle", "check", "enqueue", "lock", "write", "rv"},
          op : {"add", "update", None}, create : BOOLEAN,
          event : NodeEvent \cup {NoNode},
          queue : Clients \cup {None}, locked : BOOLEAN]

(* Nothing is pending and nothing was fed.                                 *)
LEMMA InitKInv == Init => KInv
<1> SUFFICES ASSUME Init PROVE KInv
  OBVIOUS
<1>1. \A r \in Regions : proc[r].pc = "idle"
  BY DEF Init, StoreInit, Idle
<1>2. \A n \in NodeIds : StoredRV(n) = 0 /\ fed[n] = 0
  BY NodeStoreAssumption DEF Init, StoreInit, StoredRV, NoNode
<1>3. \A loc \in Locations : currentRVs[loc] = 0
  BY DEF Init, StoreInit
<1> QED BY <1>1, <1>2, <1>3
        DEF KInv, LastFed, NotYetAcknowledged, Pending, Behind, Kept, AcknowledgedWasFed

(* Whoever leaves events and nodes alone keeps the invariant.              *)
LEMMA KInvUnchanged ==
  ASSUME KInv, UNCHANGED <<nodeEventByHash, currentRVs, proc, fed>>
  PROVE  KInv'
BY DEF KInv, LastFed, NotYetAcknowledged, Pending, Behind, Kept, AcknowledgedWasFed, StoredRV

(* The event of a goroutine, with its place.                               *)
LEMMA HandledEvent ==
  ASSUME TInv, NEW r \in Regions, proc[r].pc # "idle"
  PROVE  /\ proc[r].event \in NodeEvent /\ proc[r].event.id \in NodeIds
         /\ HashOf[proc[r].event.id] \in Hashes
         /\ LocOfNode(proc[r].event.id) \in Locations
         /\ proc[r].event.rv \in Nat /\ proc[r].event.rv > 0
BY EventPlace DEF TInv, Handling

(* Goroutines of two regions handle two nodes.                             *)
LEMMA ApartByRegion ==
  ASSUME KInv, NEW r \in Regions, NEW q \in Regions, r # q,
         proc[r].pc # "idle", proc[q].pc # "idle"
  PROVE  proc[r].event.id # proc[q].event.id
         /\ LocOfNode(proc[r].event.id) # LocOfNode(proc[q].event.id)
BY DEF KInv, LastFed

(* A new event is newer than all that its location has seen.               *)
LEMMA FeedKInv ==
  ASSUME TInv, KInv, NEW r \in Regions, NEW e \in NodeEvent, processNodeEvent(r, e)
  PROVE  KInv'
<1> DEFINE loc == LocOfNode(e.id)
<1>1. e.id \in NodeIds /\ loc \in Locations /\ e.rv \in Nat /\ e.rv > 0 /\ RegionOf[loc] = r
  BY EventPlace DEF processNodeEvent
<1>2. fed \in [NodeIds -> Nat] /\ currentRVs \in [Locations -> Nat] /\ proc \in [Regions -> PType]
  BY DEF TInv, TypeOK, RVs, PType
<1>3. proc[r].pc = "idle"
  BY DEF processNodeEvent
<1>4. /\ proc'[r].pc = "check" /\ proc'[r].event = e
      /\ proc'[r].op = "add" => proc'[r].create
      /\ \A q \in Regions \ {r} : proc'[q] = proc[q]
  BY <1>2 DEF processNodeEvent, Idle
<1>5. /\ fed'[e.id] = e.rv /\ \A n \in NodeIds \ {e.id} : fed'[n] = fed[n]
      /\ UNCHANGED <<nodeEventByHash, currentRVs>>
  BY <1>1, <1>2 DEF processNodeEvent
<1>6. \A n \in NodeIds : LocOfNode(n) = loc => fed[n] < e.rv
  <2>1. \A rv \in LatestFed(loc) : e.rv > rv
    BY DEF processNodeEvent, NextForLocation
  <2> QED BY <1>1, <1>2, <2>1 DEF LatestFed
<1>7. \A n \in NodeIds : fed[n] <= fed'[n] /\ fed'[n] \in Nat
  BY <1>1, <1>2, <1>5, <1>6
<1>8. currentRVs[loc] < e.rv
  BY <1>1, <1>2, <1>6 DEF KInv, AcknowledgedWasFed
<1>9. \A q \in Regions : proc[q].pc # "idle" => q # r /\ LocOfNode(proc[q].event.id) # loc
  BY <1>1, <1>3 DEF KInv, LastFed
<1>10. LastFed'
  <2> SUFFICES ASSUME NEW q \in Regions, proc'[q].pc # "idle"
               PROVE  RegionOf[LocOfNode(proc'[q].event.id)] = q
                      /\ fed'[proc'[q].event.id] = proc'[q].event.rv
    BY DEF LastFed
  <2>1. CASE q = r
    BY <1>1, <1>4, <1>5, <2>1
  <2>2. CASE q # r
    <3>1. proc'[q] = proc[q] /\ proc[q].event.id # e.id /\ proc[q].event.id \in NodeIds
      BY <1>4, <1>9, <2>2, HandledEvent
    <3> QED BY <1>5, <3>1 DEF KInv, LastFed
  <2> QED BY <2>1, <2>2
<1>11. NotYetAcknowledged'
  BY <1>4, <1>5, <1>8 DEF KInv, NotYetAcknowledged, Pending
<1>12. Behind'
  <2>1. \A n \in NodeIds : StoredRV(n)' = StoredRV(n)
    BY <1>5 DEF StoredRV
  <2>2. \A n \in NodeIds : StoredRV(n) \in Int
    BY NodeStoreAssumption DEF StoredRV, TInv, TypeOK, NodeEvent, NoNode
  <2> QED BY <1>2, <1>7, <2>1, <2>2 DEF KInv, Behind
<1>13. Kept'
  <2> SUFFICES ASSUME NEW n \in NodeIds
               PROVE  StoredRV(n)' = fed'[n] \/ \E q \in Regions : Pending(q)' /\ proc'[q].event.id = n
    BY DEF Kept
  <2>1. CASE n = e.id
    BY <1>4, <2>1 DEF Pending
  <2>2. CASE n # e.id
    <3>1. \A q \in Regions : Pending(q) => q # r
      BY <1>3 DEF Pending
    <3>2. StoredRV(n)' = StoredRV(n) /\ fed'[n] = fed[n]
      BY <1>5, <2>2 DEF StoredRV
    <3> QED BY <1>4, <3>1, <3>2 DEF KInv, Kept, Pending
  <2> QED BY <2>1, <2>2
<1>14. AcknowledgedWasFed'
  <2> SUFFICES ASSUME NEW l \in Locations
               PROVE  currentRVs'[l] = 0 \/ \E n \in NodeIds : LocOfNode(n) = l /\ currentRVs'[l] <= fed'[n]
    BY DEF AcknowledgedWasFed
  <2>1. CASE currentRVs[l] = 0
    BY <1>5, <2>1
  <2>2. ASSUME NEW n \in NodeIds, LocOfNode(n) = l, currentRVs[l] <= fed[n]
        PROVE  currentRVs'[l] <= fed'[n]
    BY <1>2, <1>5, <1>7, <2>2
  <2> QED BY <2>1, <2>2 DEF KInv, AcknowledgedWasFed
<1> QED BY <1>10, <1>11, <1>12, <1>13, <1>14 DEF KInv

(* Nothing but the goroutine of region r moves, and it keeps its event.    *)
OnlyMoves(r) ==
  /\ UNCHANGED <<currentRVs, fed>>
  /\ \A q \in Regions \ {r} : proc'[q] = proc[q]
  /\ proc'[r].event = proc[r].event

(* An event that was not written stays pending.                            *)
LEMMA StaysPending ==
  ASSUME KInv, NEW r \in Regions, Pending(r), OnlyMoves(r), Pending(r)',
         UNCHANGED nodeEventByHash,
         proc'[r].op = "add" /\ ~proc'[r].create =>
           nodeEventByHash[HashOf[proc[r].event.id]] = NoNode
  PROVE  KInv'
<1>1. \A q \in Regions : /\ Pending(q)' <=> Pending(q)
                         /\ proc'[q].event = proc[q].event
                         /\ proc'[q].pc # "idle" => proc[q].pc # "idle"
  BY DEF OnlyMoves, Pending
<1>2. LastFed' /\ Behind' /\ Kept' /\ AcknowledgedWasFed'
  BY <1>1 DEF OnlyMoves, KInv, LastFed, Behind, Kept, AcknowledgedWasFed, StoredRV
<1>3. NotYetAcknowledged'
  <2> SUFFICES ASSUME NEW q \in Regions, Pending(q)'
               PROVE  /\ currentRVs'[LocOfNode(proc'[q].event.id)] < proc'[q].event.rv
                      /\ proc'[q].op = "add" /\ ~proc'[q].create =>
                           nodeEventByHash'[HashOf[proc'[q].event.id]] = NoNode
    BY DEF NotYetAcknowledged
  <2>1. CASE q = r
    BY <1>1, <2>1 DEF OnlyMoves, KInv, NotYetAcknowledged
  <2>2. CASE q # r
    BY <1>1, <2>2 DEF OnlyMoves, KInv, NotYetAcknowledged
  <2> QED BY <2>1, <2>2
<1> QED BY <1>2, <1>3 DEF KInv

(* An event that is written, or found there, is the one kept.              *)
LEMMA BecomesStored ==
  ASSUME CollisionFree, TInv, KInv, NEW r \in Regions, Pending(r), OnlyMoves(r),
         proc'[r].pc = "rv",
         nodeEventByHash'[HashOf[proc[r].event.id]].rv = proc[r].event.rv,
         \A h \in Hashes \ {HashOf[proc[r].event.id]} : nodeEventByHash'[h] = nodeEventByHash[h]
  PROVE  KInv'
<1> DEFINE e == proc[r].event
<1>1. e.id \in NodeIds /\ e.rv \in Nat /\ fed[e.id] = e.rv /\ proc[r].pc # "idle"
  BY HandledEvent DEF Pending, KInv, LastFed
<1>2. \A n \in NodeIds \ {e.id} : StoredRV(n)' = StoredRV(n) /\ fed'[n] = fed[n]
  BY <1>1, NodeStoreAssumption DEF CollisionFree, StoredRV, OnlyMoves
<1>3. \A n \in NodeIds : n = e.id => StoredRV(n)' = e.rv /\ fed'[n] = e.rv
  BY <1>1 DEF StoredRV, OnlyMoves
<1>4. \A q \in Regions : Pending(q)' => Pending(q) /\ q # r /\ proc'[q] = proc[q]
  BY DEF OnlyMoves, Pending
<1>5. LastFed' /\ AcknowledgedWasFed'
  BY <1>1 DEF OnlyMoves, KInv, LastFed, AcknowledgedWasFed
<1>6. Behind'
  <2> SUFFICES ASSUME NEW n \in NodeIds PROVE StoredRV(n)' <= fed'[n]
    BY DEF Behind
  <2>1. CASE n = e.id
    BY <1>1, <1>3, <2>1
  <2>2. CASE n # e.id
    BY <1>2, <2>2 DEF KInv, Behind
  <2> QED BY <2>1, <2>2
<1>7. Kept'
  <2> SUFFICES ASSUME NEW n \in NodeIds
               PROVE  StoredRV(n)' = fed'[n] \/ \E q \in Regions : Pending(q)' /\ proc'[q].event.id = n
    BY DEF Kept
  <2>0. CASE n = e.id
    BY <1>3, <2>0
  <2>1. ASSUME NEW q \in Regions, Pending(q), proc[q].event.id = n, n # e.id
        PROVE  Pending(q)' /\ proc'[q] = proc[q]
    BY <2>1 DEF OnlyMoves, Pending
  <2>2. CASE n # e.id
    <3>1. StoredRV(n) = fed[n] \/ \E q \in Regions : Pending(q) /\ proc[q].event.id = n
      BY DEF KInv, Kept
    <3> QED BY <1>2, <2>1, <2>2, <3>1
  <2> QED BY <2>0, <2>2
<1>8. NotYetAcknowledged'
  <2> SUFFICES ASSUME NEW q \in Regions, Pending(q)'
               PROVE  /\ currentRVs'[LocOfNode(proc'[q].event.id)] < proc'[q].event.rv
                      /\ proc'[q].op = "add" /\ ~proc'[q].create =>
                           nodeEventByHash'[HashOf[proc'[q].event.id]] = NoNode
    BY DEF NotYetAcknowledged
  <2>1. Pending(q) /\ q # r /\ proc'[q] = proc[q] /\ proc[q].pc # "idle"
    BY <1>4 DEF Pending
  <2>2. proc[q].event.id # e.id /\ proc[q].event.id \in NodeIds
        /\ HashOf[proc[q].event.id] \in Hashes
    BY <1>1, <2>1, ApartByRegion, HandledEvent
  <2>3. nodeEventByHash'[HashOf[proc[q].event.id]] = nodeEventByHash[HashOf[proc[q].event.id]]
    BY <1>1, <2>2 DEF CollisionFree
  <2> QED BY <2>1, <2>3 DEF OnlyMoves, KInv, NotYetAcknowledged
<1> QED BY <1>5, <1>6, <1>7, <1>8 DEF KInv

(* A position that is taken is taken by the node itself.                   *)
LEMMA OwnPosition ==
  ASSUME CollisionFree, TInv, HInv, NEW e \in NodeEvent, Occupied(e)
  PROVE  SameNode(e) /\ Stored(e) \in NodeEvent
<1>1. /\ e.id \in NodeIds /\ Stored(e) \in NodeEvent /\ Stored(e).id \in NodeIds
      /\ HashOf[Stored(e).id] = HashOf[e.id]
  BY EventPlace DEF Occupied, Stored, HInv, TInv, TypeOK
<1> QED BY <1>1 DEF CollisionFree, SameNode

(* Every step of a region's goroutine keeps the invariant.                 *)
LEMMA StepKInv ==
  ASSUME CollisionFree, TInv, HInv, KInv, NEW r \in Regions, ProcessEvents(r)
  PROVE  KInv'
<1> DEFINE e == proc[r].event
           h == HashOf[e.id]
<1>1. /\ proc \in [Regions -> PType] /\ nodeEventByHash \in [Hashes -> NodeEvent \cup {NoNode}]
      /\ currentRVs \in [Locations -> Nat] /\ fed \in [NodeIds -> Nat]
  BY DEF TInv, TypeOK, RVs, PType
<1>2. ASSUME proc[r].pc # "idle"
      PROVE  e \in NodeEvent /\ e.id \in NodeIds /\ h \in Hashes /\ e.rv \in Nat
  BY <1>2, HandledEvent DEF TInv, Handling
<1>3. ASSUME NEW x \in NodeEvent, processNodeEvent(r, x) PROVE KInv'
  BY <1>3, FeedKInv
<1>4. CASE checkQueue(r) \/ EnqueueEvent(r) \/ lockStore(r)
  <2>1. /\ Pending(r) /\ Pending(r)' /\ OnlyMoves(r) /\ UNCHANGED nodeEventByHash
        /\ proc'[r].op = proc[r].op /\ proc'[r].create = proc[r].create
    BY <1>1, <1>4 DEF checkQueue, EnqueueEvent, lockStore, NextLock, Pending, OnlyMoves, PType
  <2> QED BY <2>1, StaysPending DEF KInv, NotYetAcknowledged
<1>5. CASE addNodeToRing(r)
  <2>1. Pending(r) /\ OnlyMoves(r) /\ proc[r].op = "add"
    BY <1>1, <1>5 DEF addNodeToRing, Pending, OnlyMoves, PType
  <2>2. e \in NodeEvent /\ h \in Hashes
    BY <1>2, <2>1 DEF Pending
  <2>3. CASE SameNode(e)
    <3>1. proc[r].create
      BY <2>1, <2>3 DEF KInv, NotYetAcknowledged, SameNode, Occupied, Stored
    <3>2. Pending(r)' /\ UNCHANGED nodeEventByHash /\ proc'[r].op = "update"
      BY <1>1, <1>5, <2>3, <3>1 DEF addNodeToRing, Pending, PType
    <3> QED BY <2>1, <3>2, StaysPending
  <2>4. CASE ~SameNode(e)
    <3>1. proc'[r].pc = "rv" /\ nodeEventByHash' = [nodeEventByHash EXCEPT ![h] = e]
      BY <1>1, <1>5, <2>4 DEF addNodeToRing, PType
    <3>2. nodeEventByHash'[h] = e /\ \A x \in Hashes \ {h} : nodeEventByHash'[x] = nodeEventByHash[x]
      BY <1>1, <2>2, <3>1
    <3> QED BY <2>1, <3>1, <3>2, BecomesStored
  <2> QED BY <2>3, <2>4
<1>6. CASE updateNodeInRing(r)
  <2>1. Pending(r) /\ OnlyMoves(r) /\ proc[r].pc # "idle"
    BY <1>1, <1>6 DEF updateNodeInRing, Pending, OnlyMoves, PType
  <2>2. e \in NodeEvent /\ e.id \in NodeIds /\ h \in Hashes /\ e.rv \in Nat
    BY <1>2, <2>1
  <2>3. CASE ~Occupied(e)
    <3>1. Pending(r)' /\ UNCHANGED nodeEventByHash /\ nodeEventByHash[h] = NoNode
      BY <1>1, <1>6, <2>3 DEF updateNodeInRing, Pending, SameNode, Occupied, Stored, PType
    <3> QED BY <2>1, <3>1, StaysPending
  <2>4. CASE Occupied(e)
    <3>1. SameNode(e) /\ Stored(e).rv \in Nat /\ Stored(e).rv <= e.rv
      <4>1. SameNode(e) /\ Stored(e) \in NodeEvent
        BY <2>2, <2>4, OwnPosition
      <4>2. fed[e.id] = e.rv /\ StoredRV(e.id) <= fed[e.id]
        BY <2>1, <2>2 DEF KInv, LastFed, Behind
      <4> QED BY <4>1, <4>2, EventPlace DEF StoredRV, Stored
    <3>2. proc'[r].pc = "rv"
      BY <1>1, <1>6, <2>4 DEF updateNodeInRing, PType
    <3>3. nodeEventByHash' = IF Newer(Stored(e), e) THEN [nodeEventByHash EXCEPT ![h] = e]
                             ELSE nodeEventByHash
      BY <1>6, <3>1 DEF updateNodeInRing
    <3>4. CASE Newer(Stored(e), e)
      <4>1. nodeEventByHash'[h] = e /\ \A x \in Hashes \ {h} : nodeEventByHash'[x] = nodeEventByHash[x]
        BY <1>1, <2>2, <3>3, <3>4
      <4> QED BY <2>1, <3>2, <4>1, BecomesStored
    <3>5. CASE ~Newer(Stored(e), e)
      <4>1. nodeEventByHash' = nodeEventByHash /\ Stored(e).rv = e.rv
        BY <2>2, <3>1, <3>3, <3>5 DEF Newer
      <4> QED BY <2>1, <3>2, <4>1, BecomesStored DEF Stored
    <3> QED BY <3>4, <3>5
  <2> QED BY <2>3, <2>4
<1>7. CASE updateResourceVersion(r)
  <2> DEFINE loc == LocOfNode(e.id)
  <2>1. /\ proc[r].pc = "rv" /\ fed[e.id] = e.rv /\ RegionOf[loc] = r
        /\ e.id \in NodeIds /\ e.rv \in Nat /\ loc \in Locations
    BY <1>7, HandledEvent DEF updateResourceVersion, KInv, LastFed
  <2>2. /\ proc'[r].pc = "idle" /\ \A q \in Regions \ {r} : proc'[q] = proc[q]
        /\ UNCHANGED <<nodeEventByHash, fed>>
    BY <1>1, <1>7 DEF updateResourceVersion, Idle
  <2>3. /\ currentRVs'[loc] = currentRVs[loc] \/ currentRVs'[loc] = e.rv
        /\ \A l \in Locations \ {loc} : currentRVs'[l] = currentRVs[l]
    BY <1>1, <1>7, <2>1 DEF updateResourceVersion
  <2>4. \A q \in Regions : /\ Pending(q)' <=> Pending(q)
                           /\ proc'[q].pc # "idle" => proc'[q] = proc[q] /\ q # r
    BY <2>1, <2>2 DEF Pending
  <2>5. LastFed' /\ Behind'
    BY <2>2, <2>4 DEF KInv, LastFed, Behind, StoredRV
  <2>6. Kept'
    <3>1. \A q \in Regions : Pending(q) => proc'[q] = proc[q]
      BY <2>1, <2>2 DEF Pending
    <3> QED BY <2>2, <2>4, <3>1 DEF KInv, Kept, StoredRV
  <2>7. NotYetAcknowledged'
    <3> SUFFICES ASSUME NEW q \in Regions, Pending(q)'
                 PROVE  /\ currentRVs'[LocOfNode(proc'[q].event.id)] < proc'[q].event.rv
                        /\ proc'[q].op = "add" /\ ~proc'[q].create =>
                             nodeEventByHash'[HashOf[proc'[q].event.id]] = NoNode
      BY DEF NotYetAcknowledged
    <3>1. Pending(q) /\ q # r /\ proc'[q] = proc[q] /\ proc[q].pc # "idle"
      BY <2>4 DEF Pending
    <3>2. LocOfNode(proc[q].event.id) # loc /\ LocOfNode(proc[q].event.id) \in Locations
      BY <2>1, <3>1, ApartByRegion, HandledEvent
    <3> QED BY <2>2, <2>3, <3>1, <3>2 DEF KInv, NotYetAcknowledged
  <2>8. AcknowledgedWasFed'
    <3> SUFFICES ASSUME NEW l \in Locations
                 PROVE  currentRVs'[l] = 0
                        \/ \E n \in NodeIds : LocOfNode(n) = l /\ currentRVs'[l] <= fed'[n]
      BY DEF AcknowledgedWasFed
    <3>1. CASE currentRVs'[l] = currentRVs[l]
      BY <2>2, <3>1 DEF KInv, AcknowledgedWasFed
    <3>2. CASE l = loc /\ currentRVs'[l] = e.rv
      BY <2>1, <2>2, <3>2
    <3> QED BY <2>3, <3>1, <3>2
  <2> QED BY <2>5, <2>6, <2>7, <2>8 DEF KInv
<1> QED BY <1>3, <1>4, <1>5, <1>6, <1>7 DEF ProcessEvents, ProcessLocally

(* So does every other step, which leaves events and nodes alone.          *)
LEMMA NextKInv ==
  ASSUME CollisionFree, TInv, HInv, KInv, [Next]_vars
  PROVE  KInv'
<1>1. ASSUME NEW q \in Requests, RegisterClient(q) PROVE KInv'
  BY <1>1, KInvUnchanged DEF RegisterClient, deny, allocateNodesToClient, addBookmarkEvent,
     AssignToClient, finishAllocation, PersistClient, storeVars
<1>2. ASSUME NEW c \in Clients, ListNodesForClient(c) PROVE KInv'
  BY <1>2, KInvUnchanged DEF ListNodesForClient, AcquireSnapshotRLock, SnapShot,
     ReleaseSnapshotRLock, storeVars
<1>3. CASE UNCHANGED vars
  BY <1>3, KInvUnchanged DEF vars, storeVars
<1> QED BY <1>1, <1>2, <1>3, StepKInv DEF Next

(* A resource version that a region manager is told covers no event that   *)
(* is lost: the last event of a node, once acknowledged, is the one kept,  *)
(* however the regions' goroutines, CreateNode and UpdateNode calling each *)
(* other, registrations and list calls interleave.  It rests on the region *)
(* managers numbering a location's changes in order, and like the host     *)
(* count it is about nodes that do not share a position.                   *)
THEOREM AcknowledgedIsKept ==
  ASSUME CollisionFree
  PROVE  Spec => []AcknowledgedIsStored
<1>1. TInv /\ HInv /\ [Next]_vars => HInv'
  BY NextHInv
<1>2. TInv /\ HInv /\ KInv /\ [Next]_vars => KInv'
  BY NextKInv
<1>3. TInv /\ KInv => AcknowledgedIsStored
  <2> SUFFICES ASSUME TInv, KInv, NEW n \in NodeIds, fed[n] <= currentRVs[LocOfNode(n)]
               PROVE  StoredRV(n) = fed[n]
    BY DEF AcknowledgedIsStored, StoredRV
  <2>1. ASSUME NEW r \in Regions, Pending(r), proc[r].event.id = n PROVE FALSE
    <3>1. proc[r].pc # "idle" /\ fed[n] = proc[r].event.rv
          /\ currentRVs[LocOfNode(n)] < proc[r].event.rv
      BY <2>1 DEF KInv, LastFed, NotYetAcknowledged, Pending
    <3>2. fed[n] \in Nat /\ currentRVs[LocOfNode(n)] \in Nat
      BY NodeStoreAssumption DEF TInv, TypeOK, RVs, LocOfNode, StoreOfNode
    <3> QED BY <3>1, <3>2
  <2> QED BY <2>1 DEF KInv, Kept
<1> QED BY <1>1, <1>2, <1>3, InitHInv, InitKInv, TypedAndHandling, PTL DEF Spec

-----------------------------------------------------------------------------
(* Registration looks atomic.                                              *)

(* A store with a client is listed for it, unless the client is just being *)
(* allocated the store.                                                    *)
Listed ==
  \A s \in Stores : clientId[s] # None =>
    \/ s \in clientToStores[clientId[s]]
    \/ /\ allocateLock # None /\ clientId[s] = ClientOf[allocateLock]
       /\ s \in registration[allocateLock].selected

LInv == TInv /\ AInv /\ GInv /\ Listed

(* Whoever is not allocating owns what is listed for it, whoever is        *)
(* allocating what was selected.                                           *)
LEMMA OwnedStores ==
  ASSUME LInv, NEW c \in Clients
  PROVE  Allocation!Granted(c) =
           IF allocateLock # None /\ c = ClientOf[allocateLock]
           THEN registration[allocateLock].selected ELSE clientToStores[c]
<1>1. c # None /\ clientToStores[c] \in SUBSET Stores
  BY DEF LInv, TInv, TypeOK
<1>2. \A s \in clientToStores[c] : clientId[s] = c
  BY DEF LInv, AInv, ListedStores
<1>3. CASE allocateLock = None
  <2>1. \A s \in Stores : Owner[s] = clientId[s]
    BY <1>3 DEF Owner
  <2>2. \A s \in Stores : clientId[s] = c => s \in clientToStores[c]
    BY <1>1, <1>3 DEF LInv, Listed
  <2> QED BY <1>1, <1>2, <1>3, <2>1, <2>2 DEF Allocation!Granted
<1>4. CASE allocateLock # None
  <2> DEFINE q == allocateLock
             S == registration[q].selected
  <2>1. q \in Requests /\ Allocating(q) /\ S \in SUBSET Stores /\ ClientOf[q] # None
    <3>1. q \in Requests
      BY <1>4 DEF LInv, TInv, TypeOK
    <3>2. Allocating(q)
      BY <3>1 DEF LInv, AInv, LockHolder
    <3>3. registration[q] \in [pc : RegistrationSteps, selected : SUBSET Stores,
                               todo : SUBSET Stores]
      BY <3>1 DEF LInv, TInv, TypeOK
    <3>4. ClientOf[q] \in Clients
      BY <3>1, RequestAssumption
    <3> QED BY <3>1, <3>2, <3>3, <3>4, NodeStoreAssumption
  <2>2. \A s \in S : clientId[s] = None \/ clientId[s] = ClientOf[q]
    BY <2>1 DEF LInv, AInv, SelectedStores
  <2>3. \A s \in Stores : Owner[s] = IF clientId[s] = None /\ s \in S THEN ClientOf[q]
                                     ELSE clientId[s]
    BY <1>4 DEF Owner
  <2>4. \A s \in Stores : clientId[s] # None =>
          s \in clientToStores[clientId[s]] \/ (clientId[s] = ClientOf[q] /\ s \in S)
    BY <1>4 DEF LInv, Listed
  <2>5. clientToStores[ClientOf[q]] = {}
    BY <2>1 DEF LInv, GInv
  <2> HIDE DEF S, q
  <2>6. CASE c = ClientOf[q]
    <3>1. \A s \in Stores : Owner[s] = c <=> s \in S
      BY <1>1, <2>1, <2>2, <2>3, <2>4, <2>5, <2>6
    <3>2. Allocation!Granted(c) = S
      BY <2>1, <3>1 DEF Allocation!Granted
    <3> QED BY <1>4, <2>6, <3>2 DEF q, S
  <2>7. CASE c # ClientOf[q]
    <3>1. \A s \in Stores : Owner[s] = c <=> s \in clientToStores[c]
      BY <1>1, <1>2, <2>1, <2>2, <2>3, <2>4, <2>7
    <3>2. Allocation!Granted(c) = clientToStores[c]
      BY <1>1, <3>1 DEF Allocation!Granted
    <3> QED BY <1>4, <2>7, <3>2 DEF q
  <2> QED BY <2>6, <2>7
<1> QED BY <1>3, <1>4

(* What the abstract registration sees depends on little.                  *)
LEMMA OwnerUnchanged ==
  ASSUME LInv, UNCHANGED <<clientId, allocateLock, clientToStores>>,
         \A q \in Requests : registration'[q].selected = registration[q].selected
  PROVE  Owner' = Owner /\ Listed'
<1>1. allocateLock # None => allocateLock \in Requests
  BY DEF LInv, TInv, TypeOK
<1>2. Owner' = Owner
  BY <1>1 DEF Owner
<1>3. Listed'
  BY <1>1 DEF LInv, Listed
<1> QED BY <1>2, <1>3

(* A node that is written is one more kept, or was kept before.            *)
LEMMA ProcessIsKeep ==
  ASSUME LInv, NEW r \in Regions, ProcessEvents(r)
  PROVE  Listed' /\ [Allocation!AllocNext]_(Allocation!allocVars)
<1>1. UNCHANGED <<clientId, allocateLock, clientToStores, registration>>
  BY DEF ProcessEvents, ProcessLocally, processNodeEvent, checkQueue, EnqueueEvent,
     lockStore, addNodeToRing, updateNodeInRing, updateResourceVersion, distVars
<1>2. UNCHANGED <<Owner, clientToStores>> /\ Listed'
  BY <1>1, OwnerUnchanged
<1>3. \/ UNCHANGED nodeEventByHash
      \/ \E h \in Hashes, e \in NodeEvent :
           nodeEventByHash' = [nodeEventByHash EXCEPT ![h] = e]
  <2>1. CASE addNodeToRing(r) \/ updateNodeInRing(r)
    <3>1. proc[r].event \in NodeEvent
      BY <2>1 DEF LInv, TInv, Handling, addNodeToRing, updateNodeInRing
    <3>2. HashOf[proc[r].event.id] \in Hashes
      BY <3>1, EventPlace
    <3>3. \/ nodeEventByHash' = nodeEventByHash
          \/ nodeEventByHash' = [nodeEventByHash EXCEPT ![HashOf[proc[r].event.id]] = proc[r].event]
      BY <2>1 DEF addNodeToRing, updateNodeInRing
    <3> QED BY <3>1, <3>2, <3>3
  <2>2. CASE ~addNodeToRing(r) /\ ~updateNodeInRing(r)
    BY <2>2 DEF ProcessEvents, ProcessLocally, processNodeEvent, checkQueue, EnqueueEvent,
       lockStore, updateResourceVersion
  <2> QED BY <2>1, <2>2
<1>4. CASE UNCHANGED nodeEventByHash
  BY <1>2, <1>4 DEF Allocation!allocVars, Hosts
<1>5. ASSUME NEW h \in Hashes, NEW e \in NodeEvent,
             nodeEventByHash' = [nodeEventByHash EXCEPT ![h] = e]
      PROVE  Allocation!Keep
  <2>1. e # NoNode
    BY EventPlace DEF NoNode
  <2>2. /\ nodeEventByHash'[h] = e
        /\ \A x \in Hashes \ {h} : nodeEventByHash'[x] = nodeEventByHash[x]
    BY <1>5 DEF LInv, TInv, TypeOK
  <2>3. StoreOf[h] \in Stores
    OBVIOUS
  <2>4. Hosts(Stores)' = Hosts(Stores) \cup {h}
    BY <2>1, <2>2, <2>3 DEF Hosts
  <2> QED BY <1>2, <2>4 DEF Allocation!Keep
<1> QED BY <1>2, <1>3, <1>4, <1>5 DEF Allocation!AllocNext

(* What Hosts and GetHostNum count is what the abstract registration does. *)
LEMMA SameHosts ==
  ASSUME NEW S \in SUBSET Stores
  PROVE  Allocation!HostsIn(S) = Hosts(S)
BY DEF Allocation!HostsIn, Hosts

(* The instance has a Cardinality of its own.                              *)
LEMMA SameCardinality == \A S : Allocation!Cardinality(S) = Cardinality(S)
BY DEF Allocation!Cardinality, Cardinality

(* Selecting the stores is granting them.                                  *)
LEMMA SelectingIsGrant ==
  ASSUME LInv, NEW q \in Requests, allocateNodesToClient(q)
  PROVE  Listed' /\ Allocation!Grant(q)
<1> DEFINE c == ClientOf[q]
<1>1. /\ c \in Clients /\ c # None /\ q # None
      /\ registration \in [Requests -> [pc : RegistrationSteps, selected : SUBSET Stores,
                                        todo : SUBSET Stores]]
  BY NodeStoreAssumption, RequestAssumption DEF LInv, TInv, TypeOK
<1>2. /\ allocateLock = None /\ allocateLock' = q /\ Admissible(q)
      /\ UNCHANGED <<nodeEventByHash, clientId, clientToStores>>
  BY DEF allocateNodesToClient, AllocateLockFree, storeVars
<1>3. PICK S \in Selections(q) :
        registration' = [registration EXCEPT ![q] = [pc |-> "bookmark", selected |-> S, todo |-> S]]
  BY DEF allocateNodesToClient
<1>4. /\ S \in SUBSET Stores /\ \A s \in S : clientId[s] = None /\ GetHostNum(s) > 0
      /\ Cardinality(Hosts(S)) >= RequestedHostNum[q]
      /\ \E last \in S : Cardinality(Hosts(S \ {last})) < RequestedHostNum[q]
  BY DEF Selections, FreeStores
<1>5. registration'[q].selected = S
  BY <1>1, <1>3
<1>6. \A s \in Stores : Owner[s] = clientId[s]
  BY <1>2 DEF Owner
<1>7. Owner' = [s \in Stores |-> IF s \in S THEN c ELSE Owner[s]]
  <2>1. Owner' = [s \in Stores |-> IF clientId[s] = None /\ s \in S THEN c ELSE clientId[s]]
    BY <1>1, <1>2, <1>5 DEF Owner
  <2> QED BY <1>4, <1>6, <2>1
<1>8. RequestedHostNum[q] > MinimalRequestHostNum /\ clientToStores[c] = {}
  BY <1>2 DEF Admissible
<1>9. Allocation!Granted(c) = {}
  BY <1>1, <1>2, <1>8, OwnedStores
<1>10. Allocation!Serves(q, S)
  <2>1. S \subseteq Allocation!Granted(None)
    BY <1>4, <1>6 DEF Allocation!Granted
  <2>2. ASSUME NEW s \in S PROVE Allocation!HostsIn({s}) # {}
    <3>1. Allocation!HostsIn({s}) = Hosts({s})
      BY <1>4, SameHosts
    <3>2. Hosts({s}) # {}
      <4> SUFFICES ASSUME Hosts({s}) = {} PROVE FALSE
        OBVIOUS
      <4>1. GetHostNum(s) = 0
        BY FS_EmptySet DEF GetHostNum
      <4>2. GetHostNum(s) > 0
        BY <1>4
      <4> QED BY <4>1, <4>2
    <3> QED BY <3>1, <3>2
  <2>3. Allocation!HostsIn(S) = Hosts(S)
    BY <1>4, SameHosts
  <2>4. \A last \in S : Allocation!HostsIn(S \ {last}) = Hosts(S \ {last})
    BY <1>4, SameHosts
  <2>5. Cardinality(Allocation!HostsIn(S)) >= RequestedHostNum[q]
    BY <1>4, <2>3
  <2>6. PICK last \in S : Cardinality(Hosts(S \ {last})) < RequestedHostNum[q]
    BY <1>4
  <2>7. Cardinality(Allocation!HostsIn(S \ {last})) < RequestedHostNum[q]
    BY <2>4, <2>6
  <2> QED BY ONLY <2>1, <2>2, <2>5, <2>7, SameCardinality, Zenon DEF Allocation!Serves
<1>11. Allocation!Grant(q)
  <2>1. Hosts(Stores)' = Hosts(Stores)
    BY <1>2 DEF Hosts
  <2> QED BY <1>2, <1>4, <1>7, <1>8, <1>9, <1>10, <2>1 DEF Allocation!Grant
<1>12. Listed'
  <2>1. \A s \in Stores : clientId[s] # None => s \in clientToStores[clientId[s]]
    BY <1>2 DEF LInv, Listed
  <2> QED BY <1>2, <2>1 DEF Listed
<1> QED BY <1>11, <1>12

(* Assigning a selected store changes nothing that can be seen.            *)
LEMMA AssigningIsHidden ==
  ASSUME LInv, NEW q \in Requests, NEW s \in Stores, AssignToClient(q, s)
  PROVE  Listed' /\ UNCHANGED Allocation!allocVars
<1>1. /\ registration \in [Requests -> [pc : RegistrationSteps, selected : SUBSET Stores,
                                        todo : SUBSET Stores]]
      /\ registration[q].pc = "assign" /\ s \in registration[q].todo
      /\ UNCHANGED <<nodeEventByHash, clientToStores, allocateLock>>
      /\ clientId \in [Stores -> Clients \cup {None}]
      /\ ClientOf[q] \in Clients /\ ClientOf[q] # None
  BY NodeStoreAssumption, RequestAssumption DEF AssignToClient, LInv, TInv, TypeOK
<1>2. Allocating(q)
  BY <1>1 DEF Allocating
<1>3. /\ allocateLock = q /\ q # None /\ clientId[s] = None
      /\ s \in registration[q].selected
  BY <1>1, <1>2 DEF LInv, AInv, LockHolder, SelectedStores
<1>4. clientId' = [clientId EXCEPT ![s] = ClientOf[q]]
  BY <1>3 DEF AssignToClient
<1>5. registration'[q].selected = registration[q].selected
  BY <1>1 DEF AssignToClient
<1>6. Owner' = Owner
  <2> DEFINE S == registration[q].selected
  <2>1. Owner = [t \in Stores |-> IF clientId[t] = None /\ t \in S THEN ClientOf[q] ELSE clientId[t]]
    BY <1>3 DEF Owner
  <2>2. Owner' = [t \in Stores |->
                    IF clientId'[t] = None /\ t \in S THEN ClientOf[q] ELSE clientId'[t]]
    BY <1>1, <1>3, <1>5 DEF Owner
  <2>3. \A t \in Stores : clientId'[t] = IF t = s THEN ClientOf[q] ELSE clientId[t]
    BY <1>1, <1>4
  <2> HIDE DEF S
  <2> QED BY <1>1, <1>3, <2>1, <2>2, <2>3 DEF S
<1>7. Listed'
  BY <1>1, <1>3, <1>4, <1>5 DEF LInv, Listed
<1>8. Hosts(Stores)' = Hosts(Stores)
  BY <1>1 DEF Hosts
<1> QED BY <1>1, <1>6, <1>7, <1>8 DEF Allocation!allocVars

(* The allocation is at its end when all its stores are assigned, and they *)
(* become visible together.                                                *)
LEMMA FinishingIsPublish ==
  ASSUME LInv, NEW q \in Requests, finishAllocation(q)
  PROVE  Listed' /\ Allocation!Publish(ClientOf[q])
<1> DEFINE c == ClientOf[q]
           S == registration[q].selected
<1>1. /\ registration \in [Requests -> [pc : RegistrationSteps, selected : SUBSET Stores,
                                        todo : SUBSET Stores]]
      /\ registration[q].pc = "assign" /\ registration[q].todo = {}
      /\ clientToStores' = [clientToStores EXCEPT ![c] = S]
      /\ allocateLock' = None
      /\ UNCHANGED <<nodeEventByHash, clientId>>
      /\ c \in Clients /\ c # None
      /\ clientToStores \in [Clients -> SUBSET Stores]
      /\ clientId \in [Stores -> Clients \cup {None}]
  BY NodeStoreAssumption, RequestAssumption DEF finishAllocation, storeVars, LInv, TInv, TypeOK
<1>2. Allocating(q)
  BY <1>1 DEF Allocating
<1>3. allocateLock = q /\ q # None
  BY <1>2 DEF LInv, AInv, LockHolder
<1>4. clientToStores[c] = {} /\ S # {}
  BY <1>2 DEF LInv, GInv, Covers
<1>5. Allocation!Granted(c) = S
  BY <1>1, <1>3, OwnedStores
<1>6. \A s \in S : clientId[s] = c
  BY <1>1, <1>2 DEF LInv, AInv, SelectedStores
<1>7. Owner' = Owner
  <2>1. Owner = [s \in Stores |-> clientId[s]]
    BY <1>1, <1>3, <1>6 DEF Owner
  <2>2. Owner' = [s \in Stores |-> clientId[s]]
    BY <1>1 DEF Owner
  <2> QED BY <2>1, <2>2
<1>8. Listed'
  <2> SUFFICES ASSUME NEW s \in Stores, clientId[s] # None
               PROVE  s \in clientToStores'[clientId[s]]
    BY <1>1 DEF Listed
  <2>1. s \in clientToStores[clientId[s]] \/ (clientId[s] = c /\ s \in S)
    BY <1>3 DEF LInv, Listed
  <2>2. clientId[s] \in Clients
    BY <1>1
  <2> HIDE DEF c, S
  <2> QED BY <1>1, <1>4, <2>1, <2>2
<1>9. Hosts(Stores)' = Hosts(Stores)
  BY <1>1 DEF Hosts
<1> QED BY <1>1, <1>4, <1>5, <1>7, <1>8, <1>9 DEF Allocation!Publish

(* A step of a registration is a grant, its publication, or is not seen.   *)
LEMMA RegisterIsAtomic ==
  ASSUME LInv, NEW q \in Requests, RegisterClient(q)
  PROVE  Listed' /\ [Allocation!AllocNext]_(Allocation!allocVars)
<1>1. CASE deny(q) \/ addBookmarkEvent(q) \/ PersistClient(q)
  <2>1. /\ UNCHANGED <<nodeEventByHash, clientId, allocateLock, clientToStores>>
        /\ \A x \in Requests : registration'[x].selected = registration[x].selected
    <3>1. registration \in [Requests -> [pc : RegistrationSteps, selected : SUBSET Stores,
                                         todo : SUBSET Stores]]
      BY DEF LInv, TInv, TypeOK
    <3>2. \E step \in RegistrationSteps : registration' = [registration EXCEPT ![q].pc = step]
      BY <1>1 DEF deny, addBookmarkEvent, PersistClient, RegistrationSteps
    <3>3. UNCHANGED <<nodeEventByHash, clientId, allocateLock, clientToStores>>
      BY <1>1 DEF deny, addBookmarkEvent, PersistClient, storeVars
    <3> QED BY <3>1, <3>2, <3>3
  <2>2. Owner' = Owner /\ Listed'
    BY <2>1, OwnerUnchanged
  <2>3. Hosts(Stores)' = Hosts(Stores)
    BY <2>1 DEF Hosts
  <2> QED BY <2>1, <2>2, <2>3 DEF Allocation!allocVars
<1>2. CASE allocateNodesToClient(q)
  BY <1>2, SelectingIsGrant DEF Allocation!AllocNext
<1>3. ASSUME NEW s \in Stores, AssignToClient(q, s)
      PROVE  Listed' /\ UNCHANGED Allocation!allocVars
  BY <1>3, AssigningIsHidden
<1>4. CASE finishAllocation(q)
  <2>1. ClientOf[q] \in Clients
    BY RequestAssumption
  <2> QED BY <1>4, <2>1, FinishingIsPublish DEF Allocation!AllocNext
<1> QED BY <1>1, <1>2, <1>3, <1>4 DEF RegisterClient

(* Every step is one of the abstract registration, or is not seen.         *)
LEMMA StepIsAtomic ==
  ASSUME LInv, [Next]_vars
  PROVE  Listed' /\ [Allocation!AllocNext]_(Allocation!allocVars)
<1>1. ASSUME NEW r \in Regions, ProcessEvents(r)
      PROVE  Listed' /\ [Allocation!AllocNext]_(Allocation!allocVars)
  BY <1>1, ProcessIsKeep
<1>2. ASSUME NEW q \in Requests, RegisterClient(q)
      PROVE  Listed' /\ [Allocation!AllocNext]_(Allocation!allocVars)
  BY <1>2, RegisterIsAtomic
<1>3. CASE (\E c \in Clients : ListNodesForClient(c)) \/ UNCHANGED vars
  <2>1. UNCHANGED <<nodeEventByHash, clientId, allocateLock, clientToStores, registration>>
    BY <1>3 DEF ListNodesForClient, AcquireSnapshotRLock, SnapShot, ReleaseSnapshotRLock,
       vars, storeVars, distVars
  <2>2. Owner' = Owner /\ Listed'
    BY <2>1, OwnerUnchanged
  <2>3. Hosts(Stores)' = Hosts(Stores)
    BY <2>1 DEF Hosts
  <2> QED BY <2>1, <2>2, <2>3 DEF Allocation!allocVars
<1> QED BY <1>1, <1>2, <1>3 DEF Next

(* However registrations interleave with each other, with the processing   *)
(* of events and with list calls, stores are granted whole, to a client    *)
(* without any, from those nobody has, and are never taken back; list calls*)
(* see the whole grant or nothing of it.  The steps in between, in which   *)
(* clientId changes store by store, cannot be told from one atomic step.   *)
THEOREM RegistrationIsAtomic == Spec => ImplementsAllocation
<1>1. Init => Listed /\ GInv /\ Allocation!AllocInit
  <2> SUFFICES ASSUME Init PROVE Listed /\ GInv /\ Allocation!AllocInit
    OBVIOUS
  <2>1. Listed /\ GInv
    BY DEF Init, StoreInit, DistInit, Listed, GInv, Allocating, Granted
  <2>2. Hosts(Stores) = {}
    BY DEF Init, StoreInit, Hosts
  <2>3. Owner = [s \in Stores |-> None]
    BY DEF Init, StoreInit, DistInit, Owner
  <2>4. clientToStores = [c \in Clients |-> {}]
    BY DEF Init, DistInit
  <2> QED BY <2>1, <2>2, <2>3, <2>4 DEF Allocation!AllocInit
<1>2. Init => LInv
  BY <1>1, InitTInv, InitAInv DEF LInv
<1>3. LInv /\ [Next]_vars => LInv' /\ [Allocation!AllocNext]_(Allocation!allocVars)
  BY StepIsAtomic, NextTInv, NextAInv, NextGInv DEF LInv
<1> QED BY <1>1, <1>2, <1>3, PTL DEF Spec, ImplementsAllocation, Allocation!AllocSpec

-----------------------------------------------------------------------------
(* Waiting for locks.                                                      *)

(* A lock for reading belongs to a snapshot in progress, and a store that  *)
(* was selected has a node to make a bookmark of.                          *)
Readers == \A c \in snapshotReaders : lister[c].pc = "snapshot"
SelectedHaveNodes ==
  \A q \in Requests : Allocating(q) =>
    \A s \in registration[q].selected : HostsOf(nodeEventByHash, {s}) # {}

(* Only the list call takes enqueueLock for reading, and gives it back     *)
(* before it is no snapshot any more.                                      *)
LEMMA ReadersKept == TInv /\ Readers /\ [Next]_vars => Readers'
<1> SUFFICES ASSUME TInv, Readers, [Next]_vars PROVE Readers'
  OBVIOUS
<1>1. ASSUME UNCHANGED <<snapshotReaders, lister>> PROVE Readers'
  BY <1>1 DEF Readers
<1>2. ASSUME NEW r \in Regions, ProcessEvents(r) PROVE UNCHANGED <<snapshotReaders, lister>>
  BY <1>2 DEF ProcessEvents, ProcessLocally, processNodeEvent, checkQueue, EnqueueEvent,
     lockStore, addNodeToRing, updateNodeInRing, updateResourceVersion, distVars
<1>3. ASSUME NEW q \in Requests, RegisterClient(q) PROVE UNCHANGED <<snapshotReaders, lister>>
  BY <1>3 DEF RegisterClient, deny, allocateNodesToClient, addBookmarkEvent, AssignToClient,
     finishAllocation, PersistClient, storeVars
<1>4. UNCHANGED vars => UNCHANGED <<snapshotReaders, lister>>
  BY DEF vars, storeVars, distVars
<1>5. ASSUME NEW c \in Clients, ListNodesForClient(c) PROVE Readers'
  <2>1. snapshotReaders \subseteq Clients /\ DOMAIN lister = Clients
    BY DEF TInv, TypeOK
  <2>2. CASE AcquireSnapshotRLock(c)
    <3>1. lister'[c].pc = "snapshot" /\ \A d \in Clients \ {c} : lister'[d] = lister[d]
      BY <2>1, <2>2 DEF AcquireSnapshotRLock, NotListed
    <3>2. snapshotReaders' = snapshotReaders \cup {c}
      BY <2>2 DEF AcquireSnapshotRLock
    <3> QED BY <2>1, <3>1, <3>2 DEF Readers
  <2>3. ASSUME NEW s \in Stores, SnapShot(c, s) PROVE Readers'
    <3>1. lister'[c].pc = "snapshot" /\ \A d \in Clients \ {c} : lister'[d] = lister[d]
      BY <2>1, <2>3 DEF SnapShot
    <3>2. UNCHANGED snapshotReaders
      BY <2>3 DEF SnapShot, storeVars
    <3> QED BY <2>1, <3>1, <3>2 DEF Readers
  <2>4. CASE ReleaseSnapshotRLock(c)
    <3>1. \A d \in Clients \ {c} : lister'[d] = lister[d]
      BY <2>1, <2>4 DEF ReleaseSnapshotRLock
    <3>2. snapshotReaders' = snapshotReaders \ {c}
      BY <2>4 DEF ReleaseSnapshotRLock
    <3> QED BY <2>1, <3>1, <3>2 DEF Readers
  <2> QED BY <1>5, <2>2, <2>3, <2>4 DEF ListNodesForClient
<1> QED BY <1>1, <1>2, <1>3, <1>4, <1>5 DEF Next

(* Stores with no node are never selected, and stores keep their nodes.    *)
LEMMA SelectedKeepNodes == TInv /\ SelectedHaveNodes /\ [Next]_vars => SelectedHaveNodes'
<1> SUFFICES ASSUME TInv, SelectedHaveNodes, [Next]_vars PROVE SelectedHaveNodes'
  OBVIOUS
<1>1. ASSUME NEW s, HostsOf(nodeEventByHash, {s}) # {} PROVE HostsOf(nodeEventByHash', {s}) # {}
  BY <1>1, RingGrows DEF HostsOf
<1>2. ASSUME NEW q \in Requests,
             registration'[q].pc = registration[q].pc,
             registration'[q].selected = registration[q].selected,
             Allocating(q)'
      PROVE  \A s \in registration'[q].selected : HostsOf(nodeEventByHash', {s}) # {}
  BY <1>1, <1>2 DEF SelectedHaveNodes, Allocating
<1>3. ASSUME UNCHANGED registration PROVE SelectedHaveNodes'
  BY <1>2, <1>3 DEF SelectedHaveNodes
<1>4. UNCHANGED registration \/ \E q \in Requests : RegisterClient(q)
  <2>1. ASSUME NEW r \in Regions, ProcessEvents(r) PROVE UNCHANGED registration
    BY <2>1 DEF ProcessEvents, distVars
  <2>2. ASSUME NEW c \in Clients, ListNodesForClient(c) PROVE UNCHANGED registration
    BY <2>2 DEF ListNodesForClient, AcquireSnapshotRLock, SnapShot, ReleaseSnapshotRLock
  <2>3. UNCHANGED vars => UNCHANGED registration
    BY DEF vars, distVars
  <2> QED BY <2>1, <2>2, <2>3 DEF Next
<1>5. ASSUME NEW q \in Requests, RegisterClient(q) PROVE SelectedHaveNodes'
  <2>1. registration \in [Requests -> [pc : RegistrationSteps, selected : SUBSET Stores,
                                       todo : SUBSET Stores]]
    BY DEF TInv, TypeOK
  <2>2. \A x \in Requests \ {q} : registration'[x] = registration[x]
    BY <1>5, <2>1 DEF RegisterClient, deny, allocateNodesToClient, addBookmarkEvent,
       AssignToClient, finishAllocation, PersistClient
  <2>3. SUFFICES ASSUME Allocating(q)'
                 PROVE  \A s \in registration'[q].selected : HostsOf(nodeEventByHash', {s}) # {}
    BY <1>2, <2>2 DEF SelectedHaveNodes
  <2>4. CASE allocateNodesToClient(q)
    <3>1. PICK S \in Selections(q) :
            registration' = [registration EXCEPT ![q] = [pc |-> "bookmark", selected |-> S, todo |-> S]]
      BY <2>4 DEF allocateNodesToClient
    <3>2. registration'[q].selected = S
      BY <2>1, <3>1
    <3>3. \A s \in S : Cardinality(HostsOf(nodeEventByHash, {s})) > 0
      BY DEF Selections, FreeStores, GetHostNum, Hosts, HostsOf
    <3>4. \A s \in S : HostsOf(nodeEventByHash, {s}) # {}
      <4> SUFFICES ASSUME NEW s \in S, HostsOf(nodeEventByHash, {s}) = {} PROVE FALSE
        OBVIOUS
      <4>1. Cardinality(HostsOf(nodeEventByHash, {s})) = 0
        BY FS_EmptySet, Zenon
      <4> QED BY <3>3, <4>1
    <3> QED BY <1>1, <3>2, <3>4
  <2>5. CASE addBookmarkEvent(q)
    <3>1. registration[q].pc = "bookmark"
          /\ registration'[q].selected = registration[q].selected
      BY <2>1, <2>5 DEF addBookmarkEvent
    <3> QED BY <1>1, <3>1 DEF SelectedHaveNodes, Allocating
  <2>6. ASSUME NEW s \in Stores, AssignToClient(q, s)
        PROVE  /\ registration'[q].pc = registration[q].pc
               /\ registration'[q].selected = registration[q].selected
    BY <2>1, <2>6 DEF AssignToClient
  <2>7. ASSUME deny(q) \/ finishAllocation(q) \/ PersistClient(q) PROVE FALSE
    <3>1. registration'[q].pc \in {"denied", "persist", "registered", "failed"}
      BY <2>1, <2>7 DEF deny, finishAllocation, PersistClient
    <3> QED BY <2>3, <3>1 DEF Allocating
  <2> QED BY <1>2, <1>5, <2>3, <2>4, <2>5, <2>6, <2>7 DEF RegisterClient
<1> QED BY <1>3, <1>4, <1>5

(* Whoever waits for a lock waits for somebody who runs: the holder of a   *)
(* store's mu waits for nothing (the queue is locked before the store), a  *)
(* lock for reading is held by a snapshot only, and a registration that    *)
(* holds allocateLock has a node for each bookmark it needs.               *)
THEOREM NoCircularWait == Spec => []NobodyWaitsInACircle
<1> DEFINE WInv == TInv /\ AInv /\ Readers /\ SelectedHaveNodes
<1>1. Init => WInv
  <2>1. Init => Readers /\ SelectedHaveNodes
    BY DEF Init, StoreInit, DistInit, Readers, SelectedHaveNodes, Allocating
  <2> QED BY <2>1, InitTInv, InitAInv
<1>2. WInv /\ [Next]_vars => WInv'
  BY NextTInv, NextAInv, ReadersKept, SelectedKeepNodes
<1>3. WInv => NobodyWaitsInACircle
  <2> SUFFICES ASSUME TInv, AInv, Readers, SelectedHaveNodes PROVE NobodyWaitsInACircle
    OBVIOUS
  <2>1. \A r \in Regions : proc[r].locked => ~EventWaits(r)
    BY DEF TInv, Handling, EventWaits
  <2>2. \A c \in snapshotReaders : lister[c].pc = "snapshot"
    BY DEF Readers
  <2>3. ASSUME allocateLock # None PROVE AllocationGoesOn(allocateLock)
    <3> DEFINE q == allocateLock
               S == registration[q].selected
    <3>1. q \in Requests
      BY <2>3 DEF TInv, TypeOK
    <3>2. Allocating(q)
      BY <3>1 DEF AInv, LockHolder
    <3>3. ASSUME NEW s \in S PROVE BookmarksOf(S, LocOf[s]) # {}
      <4>1. PICK h \in Hashes : StoreOf[h] = s /\ nodeEventByHash[h] # NoNode
        BY <3>1, <3>2, <3>3 DEF SelectedHaveNodes, HostsOf
      <4>2. h \in Hosts({t \in S : LocOf[t] = LocOf[s]})
        BY <3>3, <4>1 DEF Hosts
      <4> DEFINE b == [type |-> "Bookmark", id |-> nodeEventByHash[h].id,
                       rv |-> nodeEventByHash[h].rv]
      <4>3. b \in BookmarksOf(S, LocOf[s])
        BY <4>2, Zenon DEF BookmarksOf
      <4> QED BY <4>3
    <3> QED BY <3>2, <3>3 DEF Allocating, AllocationGoesOn
  <2> QED BY <2>1, <2>2, <2>3 DEF NobodyWaitsInACircle
<1> QED BY <1>1, <1>2, <1>3, PTL DEF Spec

=============================================================================
