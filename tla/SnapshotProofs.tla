--------------------------- MODULE SnapshotProofs ---------------------------
(***************************************************************************)
(* What a client may rely on when it goes on from a list to a watch,       *)
(* proved with TLAPS: SnapshotResumable and ListedVersionAccepted.         *)
(*                                                                         *)
(* Neither is inductive.  QInv says what the queues hold at any time, SInv *)
(* what a list call in progress still owes to each event that is queued;   *)
(* BInv is about the oldest event of a queue, which a bookmark opens and   *)
(* which goes when the queue is full.                                      *)
(***************************************************************************)
EXTENDS DistributorProofs, WellFoundedInduction

(* An event waits in the queue of client c.                                *)
InQueue(c, loc, e) == \E i \in DOMAIN queues[c][loc] : queues[c][loc][i] = e

(* Stores that the client was given, or is being given.                    *)
Owns(c, s) ==
  \/ s \in clientToStores[c]
  \/ \E q \in Requests : Allocating(q) /\ ClientOf[q] = c /\ s \in registration[q].selected

(* A client has events for nodes of its own stores only.                   *)
AssignedIsOwned ==
  \A c \in Clients : \A s \in Stores : clientId[s] = c => Owns(c, s)
OwnEvents ==
  \A c \in Clients : \A loc \in Locations : \A e \in NodeEvent :
    InQueue(c, loc, e) => LocOfNode(e.id) = loc /\ Owns(c, StoreOfNode(e.id))
QueueOfOwn == AssignedIsOwned /\ OwnEvents

(* An event being processed is the newest of its location, and the queue   *)
(* it waits for is that of its store.                                      *)
NewestHandled ==
  \A r \in Regions : proc[r].pc # "idle" =>
    \A n \in NodeIds \ {proc[r].event.id} :
      LocOfNode(n) = LocOfNode(proc[r].event.id) => fed[n] < proc[r].event.rv
QueueOfStore ==
  \A r \in Regions : proc[r].pc = "enqueue" =>
    proc[r].queue = eventQueue[StoreOfNode(proc[r].event.id)]

(* What is in a queue is stored, or about to be.                           *)
PendingIs(e) == \E r \in Regions : Pending(r) /\ proc[r].event.id = e.id /\ proc[r].event.rv = e.rv
QueuedSettles == \A c \in Clients : \A loc \in Locations : \A e \in NodeEvent :
  InQueue(c, loc, e) => e.rv <= StoredRV(e.id) \/ PendingIs(e)

QInv == QueueOfOwn /\ NewestHandled /\ QueueOfStore /\ QueuedSettles

(* A list call holds the lock of the queue of a registered client, and     *)
(* lists no version that is not stored.                                    *)
Listing ==
  \A c \in Clients :
    /\ lister[c].pc # "none" => clientToStores[c] # {}
    /\ lister[c].pc = "snapshot" => c \in snapshotReaders /\ lister[c].todo \subseteq clientToStores[c]
    /\ \A n \in NodeIds :
         /\ lister[c].nodes[n] <= StoredRV(n)
         /\ lister[c].nodes[n] > 0 => StoreOfNode(n) \in clientToStores[c]

(* No other node of e's location and c's stores has a version that is as   *)
(* new as e, or gets one before it has waited for the lock of the queue.   *)
NoneAsNew(c, e) ==
  \A n \in NodeIds \ {e.id} :
    LocOfNode(n) = LocOfNode(e.id) /\ StoreOfNode(n) \in clientToStores[c] =>
      /\ StoredRV(n) < e.rv
      /\ \A r \in Regions : proc[r].pc \in {"lock", "write"} /\ proc[r].event.id = n =>
           proc[r].event.rv < e.rv

NewerThanListed(c, e) ==
  \A n \in NodeIds \ {e.id} : LocOfNode(n) = LocOfNode(e.id) => lister[c].nodes[n] < e.rv

(* Event by event, what the list call owes to the queue.                   *)
DuringSnapshot ==
  \A c \in Clients : lister[c].pc = "snapshot" =>
    \A loc \in Locations : \A e \in NodeEvent : InQueue(c, loc, e) =>
      \/ StoreOfNode(e.id) \in lister[c].todo
      \/ e.rv <= lister[c].nodes[e.id]
      \/ NoneAsNew(c, e)
AfterSnapshot ==
  \A c \in Clients : lister[c].pc = "listed" =>
    \A loc \in Locations : \A e \in NodeEvent : InQueue(c, loc, e) =>
      e.rv <= lister[c].nodes[e.id] \/ NewerThanListed(c, e)

SInv == Listing /\ DuringSnapshot /\ AfterSnapshot

(* What is known of every state already.                                   *)
Known == TInv /\ AInv /\ GInv /\ HInv /\ KInv

(* What is known is kept by every step.                                    *)
LEMMA KnownNext ==
  ASSUME CollisionFree, Known, [Next]_vars
  PROVE  Known'
BY NextTInv, NextAInv, NextGInv, NextHInv, NextKInv DEF Known

(* Versions are numbers.                                                   *)
LEMMA Versions ==
  ASSUME TInv
  PROVE  /\ \A n \in NodeIds : StoredRV(n) \in Nat /\ fed[n] \in Nat
         /\ \A c \in Clients : \A n \in NodeIds : lister[c].nodes[n] \in Nat
BY NodeStoreAssumption DEF TInv, TypeOK, NodeEvent, NoNode, RVs, StoredRV

(* A goroutine with a pending event keeps it until it is stored.           *)
LEMMA PendingOrStored ==
  ASSUME CollisionFree, Known, KInv', NEW r \in Regions, ProcessEvents(r), Pending(r)
  PROVE  /\ proc'[r].event = proc[r].event
         /\ \A q \in Regions \ {r} : proc'[q] = proc[q]
         /\ UNCHANGED fed
         /\ \/ Pending(r)' /\ UNCHANGED nodeEventByHash
            \/ /\ proc[r].pc = "write" /\ proc'[r].pc = "rv"
               /\ \A n \in NodeIds \ {proc[r].event.id} : StoredRV(n)' = StoredRV(n)
               /\ \A n \in NodeIds : n = proc[r].event.id => StoredRV(n)' = proc[r].event.rv
<1> DEFINE e == proc[r].event
<1>1. proc \in [Regions -> PType]
  BY DEF Known, TInv, TypeOK, PType
<1>2. e \in NodeEvent /\ e.id \in NodeIds /\ HashOf[e.id] \in Hashes
  BY HandledEvent DEF Pending, Known
<1>3. \/ checkQueue(r) \/ EnqueueEvent(r) \/ lockStore(r) \/ addNodeToRing(r) \/ updateNodeInRing(r)
  BY DEF ProcessEvents, ProcessLocally, Pending, processNodeEvent, updateResourceVersion
<1>4. /\ proc'[r].event = e /\ UNCHANGED fed
      /\ \A q \in Regions \ {r} : proc'[q] = proc[q]
  <2>1. CASE checkQueue(r) \/ EnqueueEvent(r) \/ lockStore(r)
    BY <1>1, <2>1 DEF checkQueue, EnqueueEvent, lockStore, PType
  <2>2. CASE addNodeToRing(r)
    BY <1>1, <2>2 DEF addNodeToRing, PType
  <2>3. CASE updateNodeInRing(r)
    BY <1>1, <2>3 DEF updateNodeInRing, PType
  <2> QED BY <1>3, <2>1, <2>2, <2>3
<1>5. CASE checkQueue(r) \/ EnqueueEvent(r) \/ lockStore(r)
  BY <1>1, <1>4, <1>5 DEF checkQueue, EnqueueEvent, lockStore, NextLock, Pending, PType
<1>6. CASE addNodeToRing(r) \/ updateNodeInRing(r)
  <2>1. \/ proc'[r].pc = "check" /\ UNCHANGED nodeEventByHash
        \/ proc'[r].pc = "rv" /\ (UNCHANGED nodeEventByHash
             \/ nodeEventByHash' = [nodeEventByHash EXCEPT ![HashOf[e.id]] = e])
    BY <1>1, <1>6 DEF addNodeToRing, updateNodeInRing, SameNode, Occupied, PType
  <2>2. CASE proc'[r].pc = "check" /\ UNCHANGED nodeEventByHash
    BY <1>4, <2>2 DEF Pending
  <2>3. CASE /\ proc'[r].pc = "rv"
             /\ \/ UNCHANGED nodeEventByHash
                \/ nodeEventByHash' = [nodeEventByHash EXCEPT ![HashOf[e.id]] = e]
    <3>1. \A n \in NodeIds \ {e.id} : HashOf[n] \in Hashes /\ HashOf[n] # HashOf[e.id]
      BY <1>2, NodeStoreAssumption DEF CollisionFree
    <3>2. \A n \in NodeIds \ {e.id} : StoredRV(n)' = StoredRV(n)
      BY <2>3, <3>1 DEF StoredRV, Known, TInv, TypeOK
    <3>3. ASSUME NEW n \in NodeIds, n = e.id PROVE StoredRV(n)' = e.rv
      <4>1. fed'[n] = e.rv
        BY <1>4, <2>3, <3>3 DEF KInv, LastFed
      <4>2. \A q \in Regions : Pending(q)' => proc'[q].event.id # n
        <5> SUFFICES ASSUME NEW q \in Regions, Pending(q)' PROVE proc'[q].event.id # n
          OBVIOUS
        <5>1. q # r /\ proc'[q] = proc[q] /\ Pending(q)
          BY <1>4, <2>3 DEF Pending
        <5> QED BY <3>3, <5>1, ApartByRegion DEF Pending, Known
      <4> QED BY <4>1, <4>2 DEF KInv, Kept
    <3> QED BY <1>3, <1>4, <1>6, <2>3, <3>2, <3>3 DEF addNodeToRing, updateNodeInRing
  <2> QED BY <2>1, <2>2, <2>3
<1> QED BY <1>3, <1>5, <1>6

(* Otherwise it takes its next event or reports the last one.              *)
LEMMA NothingPending ==
  ASSUME NEW r \in Regions, ProcessEvents(r), ~Pending(r)
  PROVE  /\ UNCHANGED <<nodeEventByHash, queues>>
         /\ (\E e \in NodeEvent : processNodeEvent(r, e)) \/ updateResourceVersion(r)
BY DEF ProcessEvents, ProcessLocally, Pending, processNodeEvent, checkQueue, EnqueueEvent, lockStore,
   addNodeToRing, updateNodeInRing, updateResourceVersion

(* The stored version of a node only grows, and only by a goroutine that   *)
(* writes the node.                                                        *)
LEMMA StoredGrows ==
  ASSUME CollisionFree, Known, KInv', [Next]_vars, NEW n \in NodeIds
  PROVE  /\ StoredRV(n) <= StoredRV(n)'
         /\ StoredRV(n)' # StoredRV(n) =>
              \E r \in Regions : /\ proc[r].pc = "write" /\ proc[r].event.id = n
                                 /\ StoredRV(n)' = proc[r].event.rv
<1>1. StoredRV(n) \in Nat /\ StoredRV(n) <= fed[n] /\ fed[n] \in Nat
  BY Versions DEF Known, KInv, Behind
<1>2. ASSUME UNCHANGED nodeEventByHash PROVE StoredRV(n)' = StoredRV(n)
  BY <1>2 DEF StoredRV
<1>3. ASSUME NEW r \in Regions, ProcessEvents(r), Pending(r)
      PROVE  StoredRV(n)' = StoredRV(n)
             \/ /\ proc[r].pc = "write" /\ proc[r].event.id = n
                /\ StoredRV(n)' = proc[r].event.rv /\ proc[r].event.rv = fed[n]
  <2>1. proc[r].event.rv = fed[proc[r].event.id]
    BY <1>3 DEF Known, KInv, LastFed, Pending
  <2> QED BY <1>2, <1>3, <2>1, PendingOrStored
<1>4. ASSUME NEW r \in Regions, ProcessEvents(r), ~Pending(r) PROVE UNCHANGED nodeEventByHash
  BY <1>4, NothingPending
<1>5. ASSUME NEW q \in Requests, RegisterClient(q) PROVE UNCHANGED nodeEventByHash
  BY <1>5 DEF RegisterClient, deny, allocateNodesToClient, addBookmarkEvent, AssignToClient,
     finishAllocation, PersistClient, storeVars
<1>6. ASSUME NEW c \in Clients, ListNodesForClient(c) PROVE UNCHANGED nodeEventByHash
  BY <1>6 DEF ListNodesForClient, AcquireSnapshotRLock, SnapShot, ReleaseSnapshotRLock, storeVars
<1>7. UNCHANGED vars => UNCHANGED nodeEventByHash
  BY DEF vars, storeVars
<1>8. \/ UNCHANGED nodeEventByHash
      \/ \E r \in Regions : ProcessEvents(r) /\ Pending(r)
  BY <1>4, <1>5, <1>6, <1>7 DEF Next
<1> QED BY <1>1, <1>2, <1>3, <1>8

(* What processing leaves alone.                                           *)
LEMMA ProcessFrame ==
  ASSUME NEW r \in Regions, ProcessEvents(r)
  PROVE  /\ UNCHANGED <<clientId, eventQueue, snapshotReaders>>
         /\ UNCHANGED <<nodeEventQueueMap, clientToStores, allocateLock, registration, lister>>
BY DEF ProcessEvents, ProcessLocally, processNodeEvent, checkQueue, EnqueueEvent, lockStore,
   addNodeToRing, updateNodeInRing, updateResourceVersion, distVars

(* What a list call leaves alone.                                          *)
LEMMA ListFrame ==
  ASSUME NEW c \in Clients, ListNodesForClient(c)
  PROVE  /\ UNCHANGED <<nodeEventByHash, clientId, eventQueue, queues, proc, fed>>
         /\ UNCHANGED <<nodeEventQueueMap, clientToStores, allocateLock, registration>>
BY DEF ListNodesForClient, AcquireSnapshotRLock, SnapShot, ReleaseSnapshotRLock, storeVars

(* What a registration leaves alone.                                       *)
LEMMA RegisterFrame ==
  ASSUME NEW q \in Requests, RegisterClient(q)
  PROVE  UNCHANGED <<nodeEventByHash, snapshotReaders, proc, fed, lister>>
BY DEF RegisterClient, deny, allocateNodesToClient, addBookmarkEvent, AssignToClient,
   finishAllocation, PersistClient, storeVars

(* Queues change in two ways: an event is added to the queue of the client *)
(* that its store is assigned to, or a client gets its first queue.        *)
LEMMA Enqueued ==
  ASSUME Known, QueueOfStore, NEW r \in Regions, EnqueueEvent(r)
  PROVE  \E c \in Clients :
           LET e == proc[r].event
               loc == LocOfNode(e.id) IN
           /\ e \in NodeEvent /\ e.id \in NodeIds /\ loc \in Locations
           /\ StoreOfNode(e.id) \in Stores
           /\ c = clientId[StoreOfNode(e.id)] /\ c \notin snapshotReaders
           /\ queues'[c][loc] = WithEvent(queues[c][loc], e)
           /\ \A d \in Clients, l \in Locations : d # c \/ l # loc => queues'[d][l] = queues[d][l]
           /\ Pending(r) /\ Pending(r)' /\ proc'[r].event = e
<1> DEFINE e == proc[r].event
           loc == LocOfNode(e.id)
           c == proc[r].queue
<1>1. /\ proc[r].pc = "enqueue" /\ c \notin snapshotReaders
      /\ queues' = [queues EXCEPT ![c][loc] = WithEvent(@, e)]
      /\ proc' = [proc EXCEPT ![r].pc = NextLock("enqueue", c)]
  BY DEF EnqueueEvent, EnqueueLockFree
<1>2. e \in NodeEvent /\ e.id \in NodeIds /\ loc \in Locations /\ c \in Clients
      /\ StoreOfNode(e.id) \in Stores
  BY <1>1, EventPlace DEF Known, TInv, Handling
<1>3. c = clientId[StoreOfNode(e.id)]
  BY <1>1, <1>2 DEF QueueOfStore, Known, AInv, SameClient
<1>4. proc \in [Regions -> PType]
  BY DEF Known, TInv, TypeOK, PType
<1>5. queues \in [Clients -> [Locations -> Seq(NodeEvent)]]
  BY DEF Known, TInv, TypeOK
<1>6. Pending(r) /\ Pending(r)' /\ proc'[r].event = e
  BY <1>1, <1>4 DEF Pending, NextLock, PType
<1> HIDE DEF e, loc, c
<1>7. /\ queues'[c][loc] = WithEvent(queues[c][loc], e)
      /\ \A d \in Clients, l \in Locations : d # c \/ l # loc => queues'[d][l] = queues[d][l]
  <2>1. \A d \in Clients : DOMAIN queues[d] = Locations
    BY <1>5
  <2>2. DOMAIN queues = Clients
    BY <1>5
  <2> QED BY <1>1, <1>2, <2>1, <2>2
<1> QED BY <1>1, <1>2, <1>3, <1>6, <1>7 DEF e, loc, c

(* No other step of the processing of an event touches a queue.            *)
LEMMA OtherwiseNotEnqueued ==
  ASSUME NEW r \in Regions, ProcessEvents(r), ~EnqueueEvent(r)
  PROVE  UNCHANGED queues
BY DEF ProcessEvents, ProcessLocally, processNodeEvent, checkQueue, lockStore,
   addNodeToRing, updateNodeInRing, updateResourceVersion

(* The bookmarks of a registration are of nodes that the client's stores   *)
(* keep, as they are stored.                                               *)
LEMMA Bookmarked ==
  ASSUME Known, NEW q \in Requests, addBookmarkEvent(q)
  PROVE  LET c == ClientOf[q]
             S == registration[q].selected IN
         /\ c \in Clients /\ clientToStores[c] = {}
         /\ \A d \in Clients \ {c} : queues'[d] = queues[d]
         /\ \A loc \in Locations, b \in NodeEvent : InQueue(c, loc, b)' =>
              /\ LocOfNode(b.id) = loc /\ StoreOfNode(b.id) \in S
              /\ StoredRV(b.id) = b.rv
<1> DEFINE c == ClientOf[q]
           S == registration[q].selected
           locs == {LocOf[s] : s \in S}
<1>1. c \in Clients /\ S \subseteq Stores /\ queues \in [Clients -> [Locations -> Seq(NodeEvent)]]
  BY RequestAssumption DEF Known, TInv, TypeOK
<1>2. clientToStores[c] = {}
  BY DEF addBookmarkEvent, Known, GInv, Allocating
<1>3. PICK bookmark \in [locs -> UNION {BookmarksOf(S, loc) : loc \in locs}] :
        /\ \A loc \in locs : bookmark[loc] \in BookmarksOf(S, loc)
        /\ \E queue \in [Locations -> UNION {InSomeOrder(QueuedUnder(bookmark, loc)) : loc \in Locations}] :
             /\ \A loc \in Locations : queue[loc] \in InSomeOrder(QueuedUnder(bookmark, loc))
             /\ queues' = [queues EXCEPT ![c] = queue]
  BY DEF addBookmarkEvent
<1>4. PICK queue \in [Locations -> UNION {InSomeOrder(QueuedUnder(bookmark, loc)) : loc \in Locations}] :
        /\ \A loc \in Locations : queue[loc] \in InSomeOrder(QueuedUnder(bookmark, loc))
        /\ queues' = [queues EXCEPT ![c] = queue]
  BY <1>3
<1>5. ASSUME NEW loc \in locs
      PROVE  /\ StoreOfNode(bookmark[loc].id) \in S
             /\ StoredRV(bookmark[loc].id) = bookmark[loc].rv
  <2>1. PICK h \in Hosts({s \in S : LocOf[s] = loc}) :
          bookmark[loc] = [type |-> "Bookmark", id |-> nodeEventByHash[h].id,
                           rv |-> nodeEventByHash[h].rv]
    BY <1>3 DEF BookmarksOf
  <2>2. /\ h \in Hashes /\ nodeEventByHash[h] \in NodeEvent
        /\ StoreOf[h] \in S
        /\ HashOf[nodeEventByHash[h].id] = h
    BY DEF Hosts, Known, TInv, TypeOK, HInv
  <2> QED BY <2>1, <2>2 DEF StoreOfNode, StoredRV
<1>6. /\ \A d \in Clients \ {c} : queues'[d] = queues[d]
      /\ queues'[c] = queue
  BY <1>1, <1>4
<1>7. ASSUME NEW loc \in Locations, NEW b, InQueue(c, loc, b)'
      PROVE  LocOfNode(b.id) = loc /\ \E l \in locs : b = bookmark[l]
  <2>1. PICK i \in DOMAIN queue[loc] : queue[loc][i] = b
    BY <1>6, <1>7 DEF InQueue
  <2>2. queue[loc] \in [1..Cardinality(QueuedUnder(bookmark, loc)) -> QueuedUnder(bookmark, loc)]
    BY <1>4, Zenon DEF InSomeOrder
  <2>3. b \in QueuedUnder(bookmark, loc)
    BY <2>1, <2>2
  <2>4. DOMAIN bookmark = locs
    BY <1>3
  <2> QED BY <2>3, <2>4 DEF QueuedUnder
<1>8. ASSUME NEW loc \in Locations, NEW b \in NodeEvent, InQueue(c, loc, b)'
      PROVE  LocOfNode(b.id) = loc /\ StoreOfNode(b.id) \in S /\ StoredRV(b.id) = b.rv
  <2>1. LocOfNode(b.id) = loc /\ \E l \in locs : b = bookmark[l]
    BY <1>7, <1>8
  <2> HIDE DEF locs, S, c
  <2> QED BY <1>5, <2>1
<1>9. \A d \in Clients \ {c} : queues'[d] = queues[d]
  BY <1>6
<1> HIDE DEF locs, S, c
<1> QED BY <1>1, <1>2, <1>8, <1>9 DEF S, c

(* No other step of a registration touches a queue.                        *)
LEMMA OtherwiseNoQueue ==
  ASSUME NEW q \in Requests, RegisterClient(q), ~addBookmarkEvent(q)
  PROVE  UNCHANGED queues
BY DEF RegisterClient, deny, allocateNodesToClient, AssignToClient, finishAllocation,
   PersistClient, storeVars

(* A client keeps its stores.                                              *)
LEMMA OwnsKept ==
  ASSUME Known, [Next]_vars, NEW c \in Clients, NEW s \in Stores, Owns(c, s)
  PROVE  Owns(c, s)'
<1>1. ASSUME UNCHANGED <<clientToStores, registration>> PROVE Owns(c, s)'
  BY <1>1 DEF Owns, Allocating
<1>2. ASSUME NEW q \in Requests, RegisterClient(q) PROVE Owns(c, s)'
  <2>1. registration \in [Requests -> [pc : RegistrationSteps, selected : SUBSET Stores,
                                       todo : SUBSET Stores]]
        /\ clientToStores \in [Clients -> SUBSET Stores]
    BY DEF Known, TInv, TypeOK
  <2>2. \A x \in Requests : x # q => registration'[x] = registration[x]
    BY <1>2, <2>1 DEF RegisterClient, deny, allocateNodesToClient, addBookmarkEvent, AssignToClient,
       finishAllocation, PersistClient
  <2>3. CASE finishAllocation(q)
    <3>1. /\ registration[q].pc = "assign"
          /\ clientToStores' = [clientToStores EXCEPT ![ClientOf[q]] = registration[q].selected]
      BY <2>3 DEF finishAllocation
    <3>2. clientToStores[ClientOf[q]] = {} /\ \A x \in Requests : Allocating(x) => x = q
      BY <3>1 DEF Known, GInv, AInv, LockHolder, Allocating
    <3> QED BY <2>1, <3>1, <3>2 DEF Owns
  <2>4. CASE ~finishAllocation(q)
    <3>1. UNCHANGED clientToStores
      BY <1>2, <2>4 DEF RegisterClient, deny, allocateNodesToClient, addBookmarkEvent,
         AssignToClient, PersistClient
    <3>2. Allocating(q) => Allocating(q)' /\ registration'[q].selected = registration[q].selected
      BY <1>2, <2>1, <2>4 DEF RegisterClient, deny, allocateNodesToClient, addBookmarkEvent,
         AssignToClient, PersistClient, Allocating
    <3>3. \A x \in Requests : Allocating(x) =>
            Allocating(x)' /\ registration'[x].selected = registration[x].selected
      BY <2>2, <3>2 DEF Allocating
    <3> QED BY <3>1, <3>3 DEF Owns
  <2> QED BY <2>3, <2>4
<1>3. ASSUME NEW r \in Regions, ProcessEvents(r) PROVE Owns(c, s)'
  BY <1>1, <1>3, ProcessFrame
<1>4. ASSUME NEW d \in Clients, ListNodesForClient(d) PROVE Owns(c, s)'
  BY <1>1, <1>4, ListFrame
<1>5. CASE UNCHANGED vars
  BY <1>1, <1>5 DEF vars, distVars
<1> QED BY <1>2, <1>3, <1>4, <1>5 DEF Next

(* What a queue has after one more event.                                  *)
LEMMA InWithEvent ==
  ASSUME NEW s \in Seq(NodeEvent), NEW e \in NodeEvent, NEW x,
         \E i \in DOMAIN WithEvent(s, e) : WithEvent(s, e)[i] = x
  PROVE  x = e \/ \E i \in DOMAIN s : s[i] = x
<1> DEFINE p == WithEvent(s, e)
<1>1. p \in Seq(NodeEvent)
  BY WithEventIs
<1>2. PICK i \in 1..Len(p) : p[i] = x
  BY <1>1
<1>3. CASE i = Len(p)
  <2>1. p[Len(p)] = e
    BY WithEventIs
  <2> HIDE DEF p
  <2> QED BY <1>2, <1>3, <2>1
<1>4. CASE i # Len(p) /\ Len(s) = LengthOfNodeEventQueue
  <2>1. Len(p) = Len(s)
    BY <1>4, WithEventIs
  <2>2. i \in 1..(Len(s) - 1)
    BY <1>1, <1>2, <1>4, <2>1
  <2>3. p[i] = s[i + 1]
    <3> DEFINE t == Tail(s)
    <3>1. p = Append(t, e)
      BY <1>4 DEF WithEvent
    <3>2. t \in Seq(NodeEvent) /\ Len(t) = Len(s) - 1 /\ t[i] = s[i + 1]
      BY <1>4, <2>2
    <3> HIDE DEF p, t
    <3> QED BY <2>2, <3>1, <3>2
  <2> HIDE DEF p
  <2> QED BY <1>2, <2>2, <2>3
<1>5. CASE i # Len(p) /\ Len(s) # LengthOfNodeEventQueue
  <2>1. Len(p) = Len(s) + 1 /\ \A j \in 1..Len(s) : p[j] = s[j]
    BY <1>5, WithEventIs, ZenonT(60)
  <2> HIDE DEF p
  <2>2. Len(s) \in Nat /\ DOMAIN s = 1..Len(s)
    OBVIOUS
  <2>3. i \in 1..Len(s)
    BY ONLY <1>2, <1>5, <2>1, <2>2
  <2> QED BY <1>2, <2>1, <2>2, <2>3
<1> QED BY <1>3, <1>4, <1>5

(* A registration makes the queue for the stores that it has selected.     *)
LEMMA RegisterQueueOfOwn ==
  ASSUME Known, QueueOfOwn, NEW q \in Requests, RegisterClient(q)
  PROVE  QueueOfOwn'
<1> DEFINE S == registration[q].selected
           c == ClientOf[q]
<1>1. /\ registration \in [Requests -> [pc : RegistrationSteps, selected : SUBSET Stores,
                                       todo : SUBSET Stores]]
      /\ clientId \in [Stores -> Clients \cup {None}] /\ c \in Clients /\ S \subseteq Stores
      /\ queues \in [Clients -> [Locations -> Seq(NodeEvent)]]
  BY RequestAssumption DEF Known, TInv, TypeOK
<1>2. \A d \in Clients, s \in Stores : Owns(d, s) => Owns(d, s)'
  BY OwnsKept DEF Next
<1>3. \A e \in NodeEvent : StoreOfNode(e.id) \in Stores
  BY EventPlace
<1>4. CASE addBookmarkEvent(q)
  <2>1. /\ registration'[q].selected = S /\ Allocating(q)' /\ UNCHANGED clientId
    BY <1>1, <1>4 DEF addBookmarkEvent, Allocating
  <2>2. AssignedIsOwned'
    BY <1>2, <2>1 DEF QueueOfOwn, AssignedIsOwned
  <2>3. OwnEvents'
    <3> SUFFICES ASSUME NEW d \in Clients, NEW loc \in Locations, NEW e \in NodeEvent,
                        InQueue(d, loc, e)'
                 PROVE  LocOfNode(e.id) = loc /\ Owns(d, StoreOfNode(e.id))'
      BY DEF OwnEvents
    <3>1. CASE d # c
      <4>1. InQueue(d, loc, e)
        BY <1>4, <3>1, Bookmarked DEF InQueue
      <4> QED BY <1>2, <1>3, <4>1 DEF QueueOfOwn, OwnEvents
    <3>2. CASE d = c
      <4>1. LocOfNode(e.id) = loc /\ StoreOfNode(e.id) \in S
        BY <1>4, <3>2, Bookmarked
      <4> QED BY <2>1, <3>2, <4>1 DEF Owns
    <3> QED BY <3>1, <3>2
  <2> QED BY <2>2, <2>3 DEF QueueOfOwn
<1>5. CASE ~addBookmarkEvent(q)
  <2>1. UNCHANGED queues
    BY <1>5, OtherwiseNoQueue
  <2>2. OwnEvents'
    BY <1>2, <1>3, <2>1 DEF QueueOfOwn, OwnEvents, InQueue
  <2>3. ASSUME NEW s \in Stores, clientId'[s] # clientId[s]
        PROVE  clientId'[s] = c /\ Owns(c, s)
    <3>1. PICK t \in Stores : AssignToClient(q, t)
      BY <1>5, <2>3 DEF RegisterClient, deny, allocateNodesToClient, finishAllocation,
         PersistClient, storeVars
    <3>2. /\ clientId'[s] = c /\ s = t /\ t \in registration[q].todo
          /\ registration[q].pc = "assign"
      BY <1>1, <2>3, <3>1 DEF AssignToClient
    <3>3. Allocating(q) /\ s \in S
      BY <3>2 DEF Known, AInv, SelectedStores, Allocating
    <3> QED BY <3>2, <3>3 DEF Owns
  <2>4. AssignedIsOwned'
    BY <1>2, <2>3 DEF QueueOfOwn, AssignedIsOwned
  <2> QED BY <2>2, <2>4 DEF QueueOfOwn
<1> QED BY <1>4, <1>5

(* A client is sent events of nodes of its own stores only.                *)
LEMMA NextQueueOfOwn ==
  ASSUME Known, QueueOfOwn, QueueOfStore, [Next]_vars
  PROVE  QueueOfOwn'
<1>1. ASSUME UNCHANGED <<clientId, queues, clientToStores, registration>> PROVE QueueOfOwn'
  BY <1>1 DEF QueueOfOwn, AssignedIsOwned, OwnEvents, InQueue, Owns, Allocating
<1>2. ASSUME NEW q \in Requests, RegisterClient(q) PROVE QueueOfOwn'
  BY <1>2, RegisterQueueOfOwn
<1>3. ASSUME NEW r \in Regions, ProcessEvents(r) PROVE QueueOfOwn'
  <2>1. UNCHANGED <<clientId, clientToStores, registration>>
    BY <1>3, ProcessFrame
  <2>2. CASE ~EnqueueEvent(r)
    BY <1>1, <1>3, <2>1, <2>2, OtherwiseNotEnqueued
  <2>3. CASE EnqueueEvent(r)
    <3> DEFINE e == proc[r].event
               loc == LocOfNode(e.id)
    <3>1. PICK c \in Clients :
            /\ e \in NodeEvent /\ loc \in Locations /\ StoreOfNode(e.id) \in Stores
            /\ c = clientId[StoreOfNode(e.id)]
            /\ queues'[c][loc] = WithEvent(queues[c][loc], e)
            /\ \A d \in Clients, l \in Locations : d # c \/ l # loc => queues'[d][l] = queues[d][l]
      BY <2>3, Enqueued
    <3>2. Owns(c, StoreOfNode(e.id)) /\ queues[c][loc] \in Seq(NodeEvent)
      <4>1. queues \in [Clients -> [Locations -> Seq(NodeEvent)]]
        BY DEF Known, TInv, TypeOK
      <4>2. queues[c] \in [Locations -> Seq(NodeEvent)]
        BY <3>1, <4>1
      <4> QED BY <3>1, <4>2 DEF QueueOfOwn, AssignedIsOwned
    <3> HIDE DEF e, loc
    <3>3. \A d \in Clients, s \in Stores : Owns(d, s)' <=> Owns(d, s)
      BY <2>1 DEF Owns, Allocating
    <3>4. AssignedIsOwned'
      BY <2>1, <3>3 DEF QueueOfOwn, AssignedIsOwned
    <3>5. OwnEvents'
      <4> SUFFICES ASSUME NEW d \in Clients, NEW l \in Locations, NEW x \in NodeEvent,
                          InQueue(d, l, x)'
                   PROVE  LocOfNode(x.id) = l /\ Owns(d, StoreOfNode(x.id))'
        BY DEF OwnEvents
      <4>1. InQueue(d, l, x) \/ (d = c /\ l = loc /\ x = e)
        <5>1. CASE d # c \/ l # loc
          BY <3>1, <5>1 DEF InQueue
        <5>2. CASE d = c /\ l = loc
          <6>1. \E i \in DOMAIN WithEvent(queues[c][loc], e) : WithEvent(queues[c][loc], e)[i] = x
            BY <3>1, <5>2 DEF InQueue
          <6>2. x = e \/ \E i \in DOMAIN queues[c][loc] : queues[c][loc][i] = x
            BY ONLY <3>1, <3>2, <6>1, InWithEvent, ZenonT(60)
          <6> QED BY <5>2, <6>2 DEF InQueue
        <5> QED BY <5>1, <5>2
      <4>2. Owns(d, StoreOfNode(x.id)) /\ LocOfNode(x.id) = l
        BY <3>2, <4>1 DEF QueueOfOwn, OwnEvents, loc
      <4> QED BY <2>1, <4>2 DEF Owns, Allocating
    <3> QED BY <3>4, <3>5 DEF QueueOfOwn
  <2> QED BY <2>2, <2>3
<1>4. ASSUME NEW c \in Clients, ListNodesForClient(c) PROVE QueueOfOwn'
  BY <1>1, <1>4, ListFrame
<1>5. CASE UNCHANGED vars
  BY <1>1, <1>5 DEF vars, storeVars, distVars
<1> QED BY <1>2, <1>3, <1>4, <1>5 DEF Next

(* A region gives each event a version that none of its location had.      *)
LEMMA NextNewestHandled ==
  ASSUME CollisionFree, Known, Known', NewestHandled, [Next]_vars
  PROVE  NewestHandled'
<1>1. ASSUME UNCHANGED <<proc, fed>> PROVE NewestHandled'
  BY <1>1 DEF NewestHandled
<1>2. ASSUME NEW r \in Regions, ProcessEvents(r) PROVE NewestHandled'
  <2>1. CASE Pending(r)
    <3>1. \A q \in Regions : proc'[q].event = proc[q].event /\ (proc'[q].pc # "idle" => proc[q].pc # "idle")
      BY <1>2, <2>1, PendingOrStored DEF Known, Pending
    <3>2. UNCHANGED fed
      BY <1>2, <2>1, PendingOrStored DEF Known
    <3> QED BY <3>1, <3>2 DEF NewestHandled
  <2>2. CASE updateResourceVersion(r)
    <3>1. /\ UNCHANGED fed
          /\ \A q \in Regions : proc'[q].pc # "idle" => proc'[q] = proc[q]
      BY <2>2 DEF updateResourceVersion, Idle, Known, TInv, TypeOK
    <3> QED BY <3>1 DEF NewestHandled
  <2>3. ASSUME NEW e \in NodeEvent, processNodeEvent(r, e) PROVE NewestHandled'
    <3> SUFFICES ASSUME NEW q \in Regions, proc'[q].pc # "idle",
                        NEW n \in NodeIds \ {proc'[q].event.id},
                        LocOfNode(n) = LocOfNode(proc'[q].event.id)
                 PROVE  fed'[n] < proc'[q].event.rv
      BY DEF NewestHandled
    <3>1. /\ e.id \in NodeIds /\ LocOfNode(e.id) \in Locations /\ RegionOf[LocOfNode(e.id)] = r
          /\ \A m \in NodeIds : LocOfNode(m) = LocOfNode(e.id) => fed[m] < e.rv
      <4>1. \A rv \in LatestFed(LocOfNode(e.id)) : e.rv > rv
        BY <2>3 DEF processNodeEvent, NextForLocation
      <4>2. fed \in [NodeIds -> Nat] /\ e.rv \in Nat
        BY EventPlace DEF Known, TInv, TypeOK, RVs
      <4> QED BY <2>3, <4>1, <4>2, EventPlace DEF processNodeEvent, LatestFed
    <3>2. /\ proc'[r].event = e /\ \A x \in Regions \ {r} : proc'[x] = proc[x]
          /\ \A m \in NodeIds \ {e.id} : fed'[m] = fed[m]
      BY <2>3, <3>1 DEF processNodeEvent, Idle, Known, TInv, TypeOK
    <3>3. CASE q = r
      BY <3>1, <3>2, <3>3
    <3>4. CASE q # r
      <4>1. proc'[q] = proc[q] /\ RegionOf[LocOfNode(proc[q].event.id)] = q
        BY <3>2, <3>4 DEF Known, KInv, LastFed
      <4>2. n # e.id
        BY <3>1, <3>4, <4>1
      <4> QED BY <3>2, <4>1, <4>2 DEF NewestHandled
    <3> QED BY <3>3, <3>4
  <2> QED BY <1>2, <2>1, <2>2, <2>3, NothingPending
<1>3. ASSUME NEW q \in Requests, RegisterClient(q) PROVE NewestHandled'
  BY <1>1, <1>3, RegisterFrame
<1>4. ASSUME NEW c \in Clients, ListNodesForClient(c) PROVE NewestHandled'
  BY <1>1, <1>4, ListFrame
<1>5. CASE UNCHANGED vars
  BY <1>1, <1>5 DEF vars, storeVars
<1> QED BY <1>2, <1>3, <1>4, <1>5 DEF Next

(* A store that has a queue keeps it while an event waits for it.          *)
LEMMA NextQueueOfStore ==
  ASSUME Known, QueueOfStore, [Next]_vars
  PROVE  QueueOfStore'
<1>0. proc \in [Regions -> PType]
  BY DEF Known, TInv, TypeOK, PType
<1>1. ASSUME UNCHANGED <<proc, eventQueue>> PROVE QueueOfStore'
  BY <1>1 DEF QueueOfStore
<1>2. ASSUME NEW r \in Regions, ProcessEvents(r) PROVE QueueOfStore'
  <2>1. UNCHANGED eventQueue
    BY <1>2, ProcessFrame
  <2>2. CASE checkQueue(r)
    BY <1>0, <2>1, <2>2 DEF checkQueue, NextLock, QueueOfStore, PType
  <2>3. CASE ~checkQueue(r)
    <3>1. \A q \in Regions : proc'[q].pc = "enqueue" => proc'[q] = proc[q]
      <4>1. ASSUME NEW e \in NodeEvent, processNodeEvent(r, e)
            PROVE  \A q \in Regions : proc'[q].pc = "enqueue" => proc'[q] = proc[q]
        BY <1>0, <4>1 DEF processNodeEvent, Idle
      <4>2. CASE EnqueueEvent(r) \/ lockStore(r)
        BY <1>0, <4>2 DEF EnqueueEvent, lockStore, NextLock, PType
      <4>3. CASE addNodeToRing(r) \/ updateNodeInRing(r)
        BY <1>0, <4>3 DEF addNodeToRing, updateNodeInRing, PType
      <4>4. CASE updateResourceVersion(r)
        BY <1>0, <4>4 DEF updateResourceVersion, Idle
      <4> QED BY <1>2, <2>3, <4>1, <4>2, <4>3, <4>4 DEF ProcessEvents, ProcessLocally
    <3> QED BY <2>1, <3>1 DEF QueueOfStore
  <2> QED BY <2>2, <2>3
<1>3. ASSUME NEW q \in Requests, RegisterClient(q) PROVE QueueOfStore'
  <2>1. UNCHANGED proc
    BY <1>3, RegisterFrame
  <2>2. \A s \in Stores : eventQueue'[s] # eventQueue[s] => eventQueue[s] = None
    BY <1>3 DEF RegisterClient, deny, allocateNodesToClient, addBookmarkEvent, AssignToClient,
       finishAllocation, PersistClient, storeVars, Known, TInv, TypeOK, AInv, SameClient
  <2>3. ASSUME NEW r \in Regions, proc[r].pc = "enqueue"
        PROVE  /\ StoreOfNode(proc[r].event.id) \in Stores
               /\ proc[r].queue \in Clients
    BY <2>3, EventPlace DEF Known, TInv, Handling
  <2> QED BY <2>1, <2>2, <2>3, NodeStoreAssumption DEF QueueOfStore
<1>4. ASSUME NEW c \in Clients, ListNodesForClient(c) PROVE QueueOfStore'
  BY <1>1, <1>4, ListFrame
<1>5. CASE UNCHANGED vars
  BY <1>1, <1>5 DEF vars, storeVars
<1> QED BY <1>2, <1>3, <1>4, <1>5 DEF Next

(* A pending event stays pending until it is stored.                       *)
LEMMA PendingSettles ==
  ASSUME CollisionFree, Known, Known', [Next]_vars, NEW e \in NodeEvent,
         e.rv <= StoredRV(e.id) \/ PendingIs(e)
  PROVE  e.rv <= StoredRV(e.id)' \/ PendingIs(e)'
<1>0. e.id \in NodeIds /\ e.rv \in Nat
  BY EventPlace
<1>1. CASE e.rv <= StoredRV(e.id)
  <2>1. \A n \in NodeIds : StoredRV(n) <= StoredRV(n)' /\ StoredRV(n) \in Nat /\ StoredRV(n)' \in Nat
    <3>1. \A n \in NodeIds : StoredRV(n)' \in Nat
      BY NodeStoreAssumption DEF Known, TInv, TypeOK, NodeEvent, NoNode, StoredRV
    <3> QED BY <3>1, StoredGrows, Versions DEF Known
  <2>2. \A n \in NodeIds : n = e.id => StoredRV(n)' = StoredRV(e.id)'
    BY DEF StoredRV
  <2> QED BY <1>0, <1>1, <2>1, <2>2 DEF StoredRV
<1>2. ASSUME NEW r \in Regions, Pending(r), proc[r].event.id = e.id, proc[r].event.rv = e.rv
      PROVE  e.rv <= StoredRV(e.id)' \/ PendingIs(e)'
  <2>1. CASE UNCHANGED proc
    BY <1>2, <2>1 DEF PendingIs, Pending
  <2>2. ASSUME NEW q \in Regions, ProcessEvents(q) PROVE e.rv <= StoredRV(e.id)' \/ PendingIs(e)'
    <3>1. CASE q # r
      <4>1. proc'[r] = proc[r]
        <5>1. CASE \E fedEvent \in NodeEvent : processNodeEvent(q, fedEvent)
          BY <3>1, <5>1 DEF processNodeEvent, Known, TInv, TypeOK
        <5>2. CASE checkQueue(q) \/ EnqueueEvent(q) \/ lockStore(q)
          BY <3>1, <5>2 DEF checkQueue, EnqueueEvent, lockStore, Known, TInv, TypeOK
        <5>3. CASE addNodeToRing(q) \/ updateNodeInRing(q) \/ updateResourceVersion(q)
          BY <3>1, <5>3 DEF addNodeToRing, updateNodeInRing, updateResourceVersion, Known, TInv,
             TypeOK
        <5> QED BY <2>2, <5>1, <5>2, <5>3 DEF ProcessEvents, ProcessLocally
      <4> QED BY <1>2, <4>1 DEF PendingIs, Pending
    <3>2. CASE q = r
      <4>1. \/ Pending(r)' /\ proc'[r].event = proc[r].event
            \/ \A n \in NodeIds : n = proc[r].event.id => StoredRV(n)' = proc[r].event.rv
        BY <1>2, <2>2, <3>2, PendingOrStored DEF Known
      <4>2. CASE Pending(r)' /\ proc'[r].event = proc[r].event
        BY <1>2, <4>2 DEF PendingIs
      <4>3. CASE \A n \in NodeIds : n = proc[r].event.id => StoredRV(n)' = proc[r].event.rv
        BY <1>0, <1>2, <4>3 DEF StoredRV
      <4> QED BY <4>1, <4>2, <4>3
    <3> QED BY <3>1, <3>2
  <2> QED BY <2>1, <2>2, RegisterFrame, ListFrame DEF Next, vars, storeVars
<1> QED BY <1>1, <1>2 DEF PendingIs

(* An event is queued when it is about to be stored.                       *)
LEMMA NextQueuedSettles ==
  ASSUME CollisionFree, Known, Known', QueueOfOwn, QueueOfStore, QueuedSettles, [Next]_vars
  PROVE  QueuedSettles'
<1> SUFFICES ASSUME NEW c \in Clients, NEW loc \in Locations, NEW e \in NodeEvent,
                    InQueue(c, loc, e)', ~InQueue(c, loc, e)
             PROVE  e.rv <= StoredRV(e.id)' \/ PendingIs(e)'
  BY PendingSettles DEF QueuedSettles
<1>1. queues' # queues
  BY DEF InQueue
<1>2. ASSUME NEW r \in Regions, EnqueueEvent(r) PROVE PendingIs(e)'
  <2> DEFINE x == proc[r].event
             l == LocOfNode(x.id)
  <2>1. PICK d \in Clients :
          /\ x \in NodeEvent /\ l \in Locations
          /\ queues'[d][l] = WithEvent(queues[d][l], x)
          /\ \A y \in Clients, z \in Locations : y # d \/ z # l => queues'[y][z] = queues[y][z]
          /\ Pending(r)' /\ proc'[r].event = x
    BY <1>2, Enqueued
  <2>2. c = d /\ loc = l
    BY <2>1 DEF InQueue
  <2>3. queues[d][l] \in Seq(NodeEvent)
    <3>1. queues \in [Clients -> [Locations -> Seq(NodeEvent)]]
      BY DEF Known, TInv, TypeOK
    <3> QED BY <2>1, <3>1
  <2>4. \E i \in DOMAIN WithEvent(queues[d][l], x) : WithEvent(queues[d][l], x)[i] = e
    BY <2>1, <2>2 DEF InQueue
  <2>5. ~\E i \in DOMAIN queues[d][l] : queues[d][l][i] = e
    BY <2>2 DEF InQueue
  <2>6. e = x
    <3> HIDE DEF x, l
    <3> QED BY ONLY <2>1, <2>3, <2>4, <2>5, InWithEvent, ZenonT(60)
  <2> QED BY <2>1, <2>6 DEF PendingIs
<1>3. ASSUME NEW q \in Requests, addBookmarkEvent(q) PROVE e.rv <= StoredRV(e.id)'
  <2>1. UNCHANGED nodeEventByHash
    BY <1>3 DEF addBookmarkEvent
  <2>2. StoredRV(e.id) = e.rv
    <3>1. c = ClientOf[q]
      BY <1>3, Bookmarked DEF InQueue
    <3> QED BY <1>3, <3>1, Bookmarked
  <2> QED BY <2>1, <2>2, EventPlace DEF StoredRV
<1>4. \/ \E r \in Regions : EnqueueEvent(r)
      \/ \E q \in Requests : addBookmarkEvent(q)
  BY <1>1, OtherwiseNotEnqueued, OtherwiseNoQueue, ListFrame DEF Next, vars, storeVars
<1> QED BY <1>2, <1>3, <1>4

(* All of it holds initially.                                              *)
LEMMA InitKnown == Init => Known
BY InitTInv, InitAInv, InitHInv, InitKInv DEF Known, Init, DistInit, GInv, Allocating, Granted

(* There is no queue yet.                                                  *)
LEMMA InitQInv ==
  ASSUME Init
  PROVE  QInv
<1>1. /\ \A r \in Regions : proc[r].pc = "idle"
      /\ \A c \in Clients : \A loc \in Locations : queues[c][loc] = <<>>
      /\ \A s \in Stores : clientId[s] = None
      /\ \A q \in Requests : registration[q].pc = "start"
  BY DEF Init, StoreInit, DistInit, Idle, EmptyQueue
<1>2. QueueOfOwn
  BY <1>1, NodeStoreAssumption DEF QueueOfOwn, AssignedIsOwned, OwnEvents, InQueue
<1> QED BY <1>1, <1>2 DEF QInv, NewestHandled, QueueOfStore, QueuedSettles, InQueue

(* Every step keeps what the queues hold.                                  *)
LEMMA NextQInv ==
  ASSUME CollisionFree, Known, QInv, [Next]_vars
  PROVE  QInv'
BY KnownNext, NextQueueOfOwn, NextNewestHandled, NextQueueOfStore, NextQueuedSettles DEF QInv

-----------------------------------------------------------------------------
(* The list call.                                                          *)

(* A client whose list call has begun is registered and stays so: it gets  *)
(* no second queue and its stores are what they were.                      *)
LEMMA Registered ==
  ASSUME Known, [Next]_vars, NEW c \in Clients, clientToStores[c] # {}
  PROVE  /\ clientToStores'[c] = clientToStores[c]
         /\ \A q \in Requests : ~(addBookmarkEvent(q) /\ ClientOf[q] = c)
         /\ \A q \in Requests : Allocating(q) => ClientOf[q] # c
<1>1. \A q \in Requests : Allocating(q) => ClientOf[q] # c
  BY DEF Known, GInv
<1>2. \A q \in Requests : ~(addBookmarkEvent(q) /\ ClientOf[q] = c)
  BY <1>1 DEF addBookmarkEvent, Allocating
<1>3. ASSUME NEW q \in Requests, RegisterClient(q) PROVE clientToStores'[c] = clientToStores[c]
  <2>1. CASE finishAllocation(q)
    BY <1>1, <2>1 DEF finishAllocation, Allocating, Known, TInv, TypeOK
  <2> QED BY <1>3, <2>1 DEF RegisterClient, deny, allocateNodesToClient, addBookmarkEvent,
             AssignToClient, PersistClient
<1>4. clientToStores'[c] = clientToStores[c]
  BY <1>3, ProcessFrame, ListFrame DEF Next, vars, distVars
<1> QED BY <1>1, <1>2, <1>4

(* A list call lists what is stored in the stores of its client.           *)
LEMMA NextListing ==
  ASSUME CollisionFree, Known, Known', Listing, [Next]_vars
  PROVE  Listing'
<1> SUFFICES ASSUME NEW c \in Clients
             PROVE  /\ lister'[c].pc # "none" => clientToStores'[c] # {}
                    /\ lister'[c].pc = "snapshot" =>
                         c \in snapshotReaders' /\ lister'[c].todo \subseteq clientToStores'[c]
                    /\ \A n \in NodeIds :
                         /\ lister'[c].nodes[n] <= StoredRV(n)'
                         /\ lister'[c].nodes[n] > 0 => StoreOfNode(n) \in clientToStores'[c]
  BY DEF Listing
<1> DEFINE ListType == [pc : {"none", "snapshot", "listed"}, todo : SUBSET Stores,
                        nodes : [NodeIds -> RVs]]
<1>1. lister \in [Clients -> ListType] /\ clientToStores \in [Clients -> SUBSET Stores]
  BY DEF Known, TInv, TypeOK
<1>2. \A n \in NodeIds : /\ StoredRV(n) <= StoredRV(n)' /\ StoredRV(n) \in Nat /\ StoredRV(n)' \in Nat
                         /\ lister[c].nodes[n] \in Nat
  <2>1. \A n \in NodeIds : StoredRV(n)' \in Nat
    BY NodeStoreAssumption DEF Known, TInv, TypeOK, NodeEvent, NoNode, StoredRV
  <2> QED BY <2>1, StoredGrows, Versions DEF Known
<1>3. clientToStores[c] # {} => clientToStores'[c] = clientToStores[c]
  BY Registered
<1>4. \A n \in NodeIds : lister[c].nodes[n] > 0 =>
        clientToStores[c] # {} /\ StoreOfNode(n) \in clientToStores[c]
  BY DEF Listing
<1>5. ASSUME lister'[c] = lister[c], lister[c].pc = "snapshot" => (c \in snapshotReaders => c \in snapshotReaders')
      PROVE  /\ lister'[c].pc # "none" => clientToStores'[c] # {}
             /\ lister'[c].pc = "snapshot" =>
                  c \in snapshotReaders' /\ lister'[c].todo \subseteq clientToStores'[c]
             /\ \A n \in NodeIds :
                  /\ lister'[c].nodes[n] <= StoredRV(n)'
                  /\ lister'[c].nodes[n] > 0 => StoreOfNode(n) \in clientToStores'[c]
  BY <1>2, <1>3, <1>4, <1>5 DEF Listing
<1>6. CASE AcquireSnapshotRLock(c)
  <2>1. /\ lister'[c] = [NotListed EXCEPT !.pc = "snapshot", !.todo = clientToStores[c]]
        /\ c \in snapshotReaders' /\ clientToStores[c] # {}
    BY <1>1, <1>6 DEF AcquireSnapshotRLock
  <2>2. /\ lister'[c].pc = "snapshot" /\ lister'[c].todo = clientToStores[c]
        /\ \A n \in NodeIds : lister'[c].nodes[n] = 0
    BY <2>1 DEF NotListed
  <2> QED BY <1>2, <1>3, <2>1, <2>2
<1>7. ASSUME NEW s \in Stores, SnapShot(c, s)
      PROVE  /\ lister'[c].pc # "none" => clientToStores'[c] # {}
             /\ lister'[c].pc = "snapshot" =>
                  c \in snapshotReaders' /\ lister'[c].todo \subseteq clientToStores'[c]
             /\ \A n \in NodeIds :
                  /\ lister'[c].nodes[n] <= StoredRV(n)'
                  /\ lister'[c].nodes[n] > 0 => StoreOfNode(n) \in clientToStores'[c]
  <2>1. /\ lister[c].pc = "snapshot" /\ s \in lister[c].todo
        /\ lister'[c] = [pc |-> "snapshot", todo |-> lister[c].todo \ {s},
                         nodes |-> WithStore(lister[c].nodes, s)]
        /\ UNCHANGED <<snapshotReaders, clientToStores, nodeEventByHash>>
    BY <1>1, <1>7 DEF SnapShot, storeVars
  <2>2. /\ c \in snapshotReaders /\ lister[c].todo \subseteq clientToStores[c] /\ clientToStores[c] # {}
    BY <2>1 DEF Listing
  <2>3. \A n \in NodeIds : \/ lister'[c].nodes[n] = lister[c].nodes[n]
                           \/ lister'[c].nodes[n] = StoredRV(n) /\ StoreOfNode(n) = s
    BY <2>1 DEF WithStore, StoredRV, StoreOfNode, Hosts
  <2>4. \A n \in NodeIds : StoredRV(n)' = StoredRV(n)
    BY <2>1 DEF StoredRV
  <2>5. \A n \in NodeIds : lister[c].nodes[n] <= StoredRV(n)
    BY DEF Listing
  <2> QED BY <1>2, <1>4, <2>1, <2>2, <2>3, <2>4, <2>5
<1>8. CASE ReleaseSnapshotRLock(c)
  <2>1. /\ lister[c].pc = "snapshot" /\ lister'[c].pc = "listed" /\ lister'[c].nodes = lister[c].nodes
        /\ UNCHANGED <<clientToStores, nodeEventByHash>>
    BY <1>1, <1>8 DEF ReleaseSnapshotRLock
  <2> QED BY <1>4, <2>1 DEF Listing, StoredRV
<1>9. ASSUME NEW d \in Clients, ListNodesForClient(d), d # c
      PROVE  lister'[c] = lister[c] /\ (c \in snapshotReaders => c \in snapshotReaders')
  BY <1>1, <1>9 DEF ListNodesForClient, AcquireSnapshotRLock, SnapShot, ReleaseSnapshotRLock, storeVars
<1> QED BY <1>5, <1>6, <1>7, <1>8, <1>9, ProcessFrame, RegisterFrame
        DEF Next, ListNodesForClient, vars, storeVars, distVars

(* What a snapshot of a store does to the versions listed.                 *)
LEMMA Snapped ==
  ASSUME CollisionFree, Known, Listing, NEW c \in Clients, NEW s \in Stores, SnapShot(c, s)
  PROVE  /\ lister[c].pc = "snapshot" /\ s \in lister[c].todo
         /\ lister'[c].pc = "snapshot" /\ lister'[c].todo = lister[c].todo \ {s}
         /\ \A n \in NodeIds : lister[c].nodes[n] <= lister'[c].nodes[n] /\ lister'[c].nodes[n] \in Nat
         /\ \A n \in NodeIds : StoreOfNode(n) = s /\ StoredRV(n) > 0 => lister'[c].nodes[n] = StoredRV(n)
         /\ UNCHANGED <<nodeEventByHash, proc, queues, clientToStores>>
<1>1. /\ lister[c].pc = "snapshot" /\ s \in lister[c].todo
      /\ lister'[c] = [pc |-> "snapshot", todo |-> lister[c].todo \ {s},
                       nodes |-> WithStore(lister[c].nodes, s)]
      /\ UNCHANGED <<nodeEventByHash, proc, queues, clientToStores>>
  BY DEF SnapShot, storeVars, Known, TInv, TypeOK
<1>2. \A n \in NodeIds : /\ StoredRV(n) \in Nat /\ lister[c].nodes[n] \in Nat
                         /\ lister[c].nodes[n] <= StoredRV(n)
  BY Versions DEF Known, Listing
<1>3. \A n \in NodeIds : \/ lister'[c].nodes[n] = lister[c].nodes[n]
                         \/ lister'[c].nodes[n] = StoredRV(n)
  BY <1>1 DEF WithStore, StoredRV
<1>4. ASSUME NEW n \in NodeIds, StoreOfNode(n) = s, StoredRV(n) > 0
      PROVE  lister'[c].nodes[n] = StoredRV(n)
  <2> DEFINE h == HashOf[n]
  <2>1. h \in Hashes /\ nodeEventByHash[h] # NoNode /\ h \in Hosts({s})
    BY <1>4, NodeStoreAssumption DEF StoredRV, NoNode, Hosts, StoreOfNode
  <2>2. nodeEventByHash[h] \in NodeEvent /\ HashOf[nodeEventByHash[h].id] = h
    BY <2>1 DEF Known, TInv, TypeOK, HInv
  <2>3. nodeEventByHash[h].id = n
    BY <2>2, EventPlace DEF CollisionFree
  <2> QED BY <1>1, <2>1, <2>3 DEF WithStore, StoredRV
<1> QED BY <1>1, <1>2, <1>3, <1>4

(* Processing writes nothing newer while the lock of the queue is held.    *)
LEMMA NoneAsNewKept ==
  ASSUME CollisionFree, Known, Known', QueueOfStore, [Next]_vars,
         NEW c \in Clients, NEW e \in NodeEvent, NoneAsNew(c, e),
         c \in snapshotReaders, clientToStores[c] # {}
  PROVE  NoneAsNew(c, e)'
<1> SUFFICES ASSUME NEW n \in NodeIds \ {e.id}, LocOfNode(n) = LocOfNode(e.id),
                    StoreOfNode(n) \in clientToStores'[c]
             PROVE  /\ StoredRV(n)' < e.rv
                    /\ \A r \in Regions : proc'[r].pc \in {"lock", "write"} /\ proc'[r].event.id = n =>
                         proc'[r].event.rv < e.rv
  BY DEF NoneAsNew
<1>1. /\ StoredRV(n) < e.rv
      /\ \A r \in Regions : proc[r].pc \in {"lock", "write"} /\ proc[r].event.id = n =>
           proc[r].event.rv < e.rv
  BY Registered DEF NoneAsNew
<1>2. StoredRV(n)' < e.rv
  BY <1>1, StoredGrows DEF Known
<1>3. proc \in [Regions -> PType]
  BY DEF Known, TInv, TypeOK, PType
<1>4. StoreOfNode(n) \in Stores /\ eventQueue[StoreOfNode(n)] = c
  <2>1. clientToStores'[c] = clientToStores[c] /\ clientToStores[c] \subseteq Stores
    BY Registered DEF Known, TInv, TypeOK
  <2> QED BY <2>1 DEF Known, AInv, ListedStores, SameClient
<1>5. c # None
  BY NodeStoreAssumption
<1>6. ASSUME NEW r \in Regions, proc'[r].pc \in {"lock", "write"}, proc'[r].event.id = n,
             NEW q \in Regions, ProcessEvents(q)
      PROVE  proc[r].pc \in {"lock", "write"} /\ proc'[r].event = proc[r].event
  <2>1. CASE q # r
    <3>1. proc'[r] = proc[r]
      BY <1>3, <1>6, <2>1 DEF ProcessEvents, ProcessLocally, processNodeEvent, checkQueue, EnqueueEvent,
         lockStore, addNodeToRing, updateNodeInRing, updateResourceVersion
    <3> QED BY <1>6, <3>1
  <2>2. CASE q = r
    <3>1. ASSUME NEW x \in NodeEvent, processNodeEvent(r, x) PROVE FALSE
      BY <1>3, <1>6, <3>1 DEF processNodeEvent, Idle
    <3>2. ~checkQueue(r)
      BY <1>3, <1>4, <1>5, <1>6 DEF checkQueue, NextLock, PType
    <3>3. ~EnqueueEvent(r)
      <4> SUFFICES ASSUME EnqueueEvent(r) PROVE FALSE
        OBVIOUS
      <4>1. proc[r].queue = c
        BY <1>3, <1>4, <1>6 DEF EnqueueEvent, QueueOfStore, PType
      <4> QED BY <4>1 DEF EnqueueEvent, EnqueueLockFree
    <3>4. ~addNodeToRing(r) /\ ~updateNodeInRing(r) /\ ~updateResourceVersion(r)
      BY <1>3, <1>6 DEF addNodeToRing, updateNodeInRing, updateResourceVersion, Idle, PType
    <3>5. lockStore(r)
      BY <1>6, <2>2, <3>1, <3>2, <3>3, <3>4 DEF ProcessEvents, ProcessLocally
    <3> QED BY <1>3, <3>5 DEF lockStore, NextLock, PType
  <2> QED BY <2>1, <2>2
<1>7. ASSUME NEW r \in Regions, proc'[r].pc \in {"lock", "write"}, proc'[r].event.id = n
      PROVE  proc[r].pc \in {"lock", "write"} /\ proc'[r].event = proc[r].event
  BY <1>6, <1>7, RegisterFrame, ListFrame DEF Next, vars, storeVars
<1> QED BY <1>1, <1>2, <1>7

(* An event that is still to be written is newer than all else there is in *)
(* its location.                                                           *)
LEMMA PendingIsNewest ==
  ASSUME Known, NewestHandled, NEW c \in Clients, NEW e \in NodeEvent, PendingIs(e)
  PROVE  NoneAsNew(c, e)
<1>1. PICK r \in Regions : Pending(r) /\ proc[r].event.id = e.id /\ proc[r].event.rv = e.rv
  BY DEF PendingIs
<1> SUFFICES ASSUME NEW n \in NodeIds \ {e.id}, LocOfNode(n) = LocOfNode(e.id)
             PROVE  /\ StoredRV(n) < e.rv
                    /\ \A q \in Regions : proc[q].pc \in {"lock", "write"} => proc[q].event.id # n
  BY DEF NoneAsNew
<1>2. fed[n] < e.rv /\ StoredRV(n) <= fed[n]
  BY <1>1 DEF NewestHandled, Pending, Known, KInv, Behind
<1>3. StoredRV(n) < e.rv
  BY <1>2, Versions, EventPlace DEF Known
<1>4. \A q \in Regions : proc[q].pc \in {"lock", "write"} => proc[q].event.id # n
  BY <1>1, ApartByRegion DEF Known, Pending
<1> QED BY <1>3, <1>4

(* What the list call of another client and registrations leave alone.     *)
LEMMA ListerFrame ==
  ASSUME Known, [Next]_vars, NEW c \in Clients
  PROVE  \/ lister'[c] = lister[c] /\ (c \in snapshotReaders <=> c \in snapshotReaders')
         \/ AcquireSnapshotRLock(c)
         \/ \E s \in Stores : SnapShot(c, s)
         \/ ReleaseSnapshotRLock(c)
<1>1. lister \in [Clients -> [pc : {"none", "snapshot", "listed"}, todo : SUBSET Stores,
                              nodes : [NodeIds -> RVs]]]
  BY DEF Known, TInv, TypeOK
<1>2. ASSUME NEW d \in Clients, ListNodesForClient(d), d # c
      PROVE  lister'[c] = lister[c] /\ (c \in snapshotReaders <=> c \in snapshotReaders')
  BY <1>1, <1>2 DEF ListNodesForClient, AcquireSnapshotRLock, SnapShot, ReleaseSnapshotRLock, storeVars
<1> QED BY <1>2, ProcessFrame, RegisterFrame DEF Next, ListNodesForClient, vars, storeVars, distVars

(* The queue of a registered client changes by EnqueueEvent alone, which   *)
(* waits for a list call to end.                                           *)
LEMMA QueueStands ==
  ASSUME CollisionFree, Known, QueueOfStore, [Next]_vars, NEW c \in Clients, clientToStores[c] # {},
         NEW loc \in Locations, NEW e \in NodeEvent, InQueue(c, loc, e)', ~InQueue(c, loc, e)
  PROVE  c \notin snapshotReaders /\ PendingIs(e)
<1>1. queues'[c] # queues[c]
  BY DEF InQueue
<1>2. ASSUME NEW q \in Requests, addBookmarkEvent(q) PROVE FALSE
  BY <1>1, <1>2, Bookmarked, Registered
<1>3. PICK r \in Regions : EnqueueEvent(r)
  BY <1>1, <1>2, OtherwiseNotEnqueued, OtherwiseNoQueue, ListFrame DEF Next, vars, storeVars
<1> DEFINE x == proc[r].event
           l == LocOfNode(x.id)
<1>4. PICK d \in Clients :
        /\ x \in NodeEvent /\ l \in Locations /\ d \notin snapshotReaders
        /\ queues'[d][l] = WithEvent(queues[d][l], x)
        /\ \A y \in Clients, z \in Locations : y # d \/ z # l => queues'[y][z] = queues[y][z]
        /\ Pending(r)
  BY <1>3, Enqueued
<1>5. c = d /\ loc = l
  BY <1>4 DEF InQueue
<1>6. queues[d][l] \in Seq(NodeEvent)
  <2>1. queues \in [Clients -> [Locations -> Seq(NodeEvent)]]
    BY DEF Known, TInv, TypeOK
  <2> QED BY <1>4, <2>1
<1>7. \E i \in DOMAIN WithEvent(queues[d][l], x) : WithEvent(queues[d][l], x)[i] = e
  BY <1>4, <1>5 DEF InQueue
<1>8. ~\E i \in DOMAIN queues[d][l] : queues[d][l][i] = e
  BY <1>5 DEF InQueue
<1>9. e = x
  <2> HIDE DEF x, l
  <2> QED BY ONLY <1>4, <1>6, <1>7, <1>8, InWithEvent, ZenonT(60)
<1> QED BY <1>4, <1>5, <1>9 DEF PendingIs

(* An event that is queued during the call is newer than all others of its *)
(* location; one that was queued before is copied with its store, or else  *)
(* pending, and then it is such an event too.                              *)
LEMMA NextDuringSnapshot ==
  ASSUME CollisionFree, Known, Known', QInv, SInv, [Next]_vars
  PROVE  DuringSnapshot'
<1> SUFFICES ASSUME NEW c \in Clients, lister'[c].pc = "snapshot",
                    NEW loc \in Locations, NEW e \in NodeEvent, InQueue(c, loc, e)'
             PROVE  \/ StoreOfNode(e.id) \in lister'[c].todo
                    \/ e.rv <= lister'[c].nodes[e.id]
                    \/ NoneAsNew(c, e)'
  BY DEF DuringSnapshot
<1>0. e.id \in NodeIds /\ e.rv \in Nat /\ e.rv > 0 /\ StoreOfNode(e.id) \in Stores
  BY EventPlace
<1>1. CASE lister'[c] = lister[c]
  <2>1. lister[c].pc = "snapshot" /\ c \in snapshotReaders /\ clientToStores[c] # {}
    BY <1>1 DEF SInv, Listing
  <2>2. InQueue(c, loc, e)
    BY <2>1, QueueStands DEF QInv
  <2>3. \/ StoreOfNode(e.id) \in lister[c].todo \/ e.rv <= lister[c].nodes[e.id] \/ NoneAsNew(c, e)
    BY <2>1, <2>2 DEF SInv, DuringSnapshot
  <2> QED BY <1>1, <2>1, <2>3, NoneAsNewKept DEF QInv
<1>2. CASE AcquireSnapshotRLock(c)
  <2>1. lister'[c].todo = clientToStores[c] /\ allocateLock = None /\ UNCHANGED queues
    BY <1>2 DEF AcquireSnapshotRLock, NotListed, Known, TInv, TypeOK
  <2>2. \A q \in Requests : ~Allocating(q)
    BY <2>1, RequestAssumption DEF Known, AInv, LockHolder
  <2>3. Owns(c, StoreOfNode(e.id))
    BY <2>1 DEF QInv, QueueOfOwn, OwnEvents, InQueue
  <2> QED BY <2>1, <2>2, <2>3 DEF Owns
<1>3. ASSUME NEW s \in Stores, SnapShot(c, s)
      PROVE  \/ StoreOfNode(e.id) \in lister'[c].todo
             \/ e.rv <= lister'[c].nodes[e.id]
             \/ NoneAsNew(c, e)'
  <2>1. /\ lister[c].pc = "snapshot" /\ lister'[c].todo = lister[c].todo \ {s}
        /\ UNCHANGED <<nodeEventByHash, proc, queues, clientToStores>>
        /\ lister[c].nodes[e.id] <= lister'[c].nodes[e.id] /\ lister'[c].nodes[e.id] \in Nat
    BY <1>0, <1>3, Snapped DEF SInv
  <2>2. InQueue(c, loc, e) /\ (NoneAsNew(c, e) => NoneAsNew(c, e)')
    BY <2>1 DEF InQueue, NoneAsNew, StoredRV
  <2>3. lister[c].nodes[e.id] \in Nat
    BY <1>0, Versions DEF Known
  <2>4. \/ StoreOfNode(e.id) \in lister[c].todo \/ e.rv <= lister[c].nodes[e.id] \/ NoneAsNew(c, e)
    BY <2>1, <2>2 DEF SInv, DuringSnapshot
  <2>5. CASE StoreOfNode(e.id) = s
    <3>1. e.rv <= StoredRV(e.id) \/ PendingIs(e)
      BY <2>2 DEF QInv, QueuedSettles
    <3>2. StoredRV(e.id) \in Nat
      BY <1>0, Versions DEF Known
    <3>3. CASE e.rv <= StoredRV(e.id)
      BY <1>0, <1>3, <2>5, <3>2, <3>3, Snapped DEF SInv
    <3>4. CASE PendingIs(e)
      BY <2>2, <3>4, PendingIsNewest DEF QInv
    <3> QED BY <3>1, <3>3, <3>4
  <2>6. CASE StoreOfNode(e.id) # s
    BY <1>0, <2>1, <2>2, <2>3, <2>4, <2>6
  <2> QED BY <2>5, <2>6
<1>4. ~ReleaseSnapshotRLock(c)
  BY DEF ReleaseSnapshotRLock, Known, TInv, TypeOK
<1> QED BY <1>1, <1>2, <1>3, <1>4, ListerFrame

(* After the call, what is queued is newer than what was listed.           *)
LEMMA NextAfterSnapshot ==
  ASSUME CollisionFree, Known, Known', QInv, SInv, [Next]_vars
  PROVE  AfterSnapshot'
<1> SUFFICES ASSUME NEW c \in Clients, lister'[c].pc = "listed",
                    NEW loc \in Locations, NEW e \in NodeEvent, InQueue(c, loc, e)'
             PROVE  e.rv <= lister'[c].nodes[e.id] \/ NewerThanListed(c, e)'
  BY DEF AfterSnapshot
<1>0. e.id \in NodeIds /\ e.rv \in Nat /\ e.rv > 0
  BY EventPlace
<1>1. \A n \in NodeIds : /\ lister[c].nodes[n] \in Nat /\ StoredRV(n) \in Nat
                         /\ lister[c].nodes[n] <= StoredRV(n)
                         /\ lister[c].nodes[n] > 0 => StoreOfNode(n) \in clientToStores[c]
  BY Versions DEF Known, SInv, Listing
<1>2. NoneAsNew(c, e) => NewerThanListed(c, e)
  BY <1>0, <1>1 DEF NoneAsNew, NewerThanListed
<1>3. CASE lister'[c] = lister[c]
  <2>1. lister[c].pc = "listed" /\ clientToStores[c] # {}
    BY <1>3 DEF SInv, Listing
  <2>2. CASE InQueue(c, loc, e)
    BY <1>3, <2>1, <2>2 DEF SInv, AfterSnapshot, NewerThanListed
  <2>3. CASE ~InQueue(c, loc, e)
    <3>1. PendingIs(e)
      BY <2>1, <2>3, QueueStands DEF QInv
    <3>2. NewerThanListed(c, e)
      BY <1>2, <3>1, PendingIsNewest DEF QInv
    <3> QED BY <1>3, <3>2 DEF NewerThanListed
  <2> QED BY <2>2, <2>3
<1>4. CASE ReleaseSnapshotRLock(c)
  <2>1. /\ lister[c].pc = "snapshot" /\ lister[c].todo = {} /\ lister'[c].nodes = lister[c].nodes
        /\ UNCHANGED queues
    BY <1>4 DEF ReleaseSnapshotRLock, Known, TInv, TypeOK
  <2>2. InQueue(c, loc, e)
    BY <2>1 DEF InQueue
  <2>3. e.rv <= lister[c].nodes[e.id] \/ NoneAsNew(c, e)
    BY <2>1, <2>2 DEF SInv, DuringSnapshot
  <2> QED BY <1>2, <2>1, <2>3 DEF NewerThanListed
<1>5. ~AcquireSnapshotRLock(c)
  <2> SUFFICES ASSUME AcquireSnapshotRLock(c) PROVE FALSE
    OBVIOUS
  <2>1. lister'[c] = [NotListed EXCEPT !.pc = "snapshot", !.todo = clientToStores[c]]
    BY DEF AcquireSnapshotRLock, Known, TInv, TypeOK
  <2> QED BY <2>1 DEF NotListed
<1>6. \A s \in Stores : ~SnapShot(c, s)
  BY Snapped DEF SInv
<1> QED BY <1>3, <1>4, <1>5, <1>6, ListerFrame

(* No list call has begun.                                                 *)
LEMMA InitSInv ==
  ASSUME Init
  PROVE  SInv
<1>1. \A c \in Clients : lister[c].pc = "none" /\ \A n \in NodeIds : lister[c].nodes[n] = 0
  BY DEF Init, DistInit, NotListed
<1>2. \A n \in NodeIds : StoredRV(n) = 0
  BY NodeStoreAssumption DEF Init, StoreInit, StoredRV, NoNode
<1> QED BY <1>1, <1>2 DEF SInv, Listing, DuringSnapshot, AfterSnapshot

(* Every step keeps what the list calls owe.                               *)
LEMMA NextSInv ==
  ASSUME CollisionFree, Known, QInv, SInv, [Next]_vars
  PROVE  SInv'
<1>1. Known'
  BY KnownNext
<1>2. Listing'
  BY <1>1, NextListing DEF SInv
<1> QED BY <1>1, <1>2, NextDuringSnapshot, NextAfterSnapshot DEF SInv

(* The inductive invariant of the two theorems.                            *)
LEMMA ListInvariant ==
  ASSUME CollisionFree
  PROVE  Spec => [](Known /\ QInv /\ SInv)
<1>1. Known /\ QInv /\ SInv /\ [Next]_vars => (Known /\ QInv /\ SInv)'
  BY KnownNext, NextQInv, NextSInv
<1>2. Init => Known /\ QInv /\ SInv
  BY InitKnown, InitQInv, InitSInv
<1> QED BY <1>1, <1>2, PTL DEF Spec

(* The version of a list is the newest of those listed for the location:   *)
(* there is one, since versions are bounded.                               *)
LEMMA ListedIsNewest ==
  ASSUME Known, NEW c \in Clients, NEW loc \in Locations
  PROVE  /\ ListedRV(c, loc) = 0 \/ \E n \in NodeIds : LocOfNode(n) = loc /\ ListedRV(c, loc) = lister[c].nodes[n]
         /\ \A n \in NodeIds : LocOfNode(n) = loc => lister[c].nodes[n] <= ListedRV(c, loc)
         /\ ListedRV(c, loc) \in Nat
<1> DEFINE rvs == {lister[c].nodes[n] : n \in {m \in NodeIds : LocOfNode(m) = loc}} \cup {0}
           less == {p \in Nat \X Nat : p[1] < p[2]}
           below == {MaxRV - rv : rv \in rvs}
<1>1. rvs \subseteq 0..MaxRV /\ 0 \in rvs /\ MaxRV \in Nat
  BY NodeStoreAssumption DEF Known, TInv, TypeOK, RVs
<1>2. \E rv \in rvs : \A other \in rvs : other <= rv
  <2>1. IsWellFoundedOn(less, Nat)
    BY NatLessThanWellFounded DEF OpToRel
  <2> HIDE DEF rvs, less
  <2>2. below \subseteq Nat /\ MaxRV - 0 \in below
    BY <1>1
  <2> HIDE DEF below
  <2>3. \E x \in below : \A y \in below : <<y, x>> \notin less
    BY <2>1, <2>2, WFMin
  <2>4. PICK x \in below : \A y \in below : ~(y < x)
    BY <2>2, <2>3 DEF less
  <2>5. PICK rv \in rvs : x = MaxRV - rv
    BY DEF below
  <2>6. \A other \in rvs : ~(MaxRV - other < MaxRV - rv)
    BY <2>4, <2>5 DEF below
  <2> QED BY <1>1, <2>6
<1>3. ListedRV(c, loc) \in rvs /\ \A other \in rvs : other <= ListedRV(c, loc)
  BY <1>2 DEF ListedRV
<1> QED BY <1>1, <1>3

(* What the queue holds and the list lacks is newer than the list.         *)
LEMMA MissingIsNewer ==
  ASSUME Known, QueueOfOwn, AfterSnapshot, NEW c \in Clients, lister[c].pc = "listed",
         NEW loc \in Locations, NEW e \in NodeEvent, InQueue(c, loc, e),
         lister[c].nodes[e.id] < e.rv
  PROVE  e.rv > ListedRV(c, loc)
<1>1. /\ e.id \in NodeIds /\ e.rv \in Nat /\ e.rv > 0 /\ LocOfNode(e.id) = loc
      /\ lister[c].nodes[e.id] \in Nat
  BY EventPlace, Versions DEF QueueOfOwn, OwnEvents, Known
<1>2. NewerThanListed(c, e)
  BY <1>1 DEF AfterSnapshot
<1>3. \A n \in NodeIds : LocOfNode(n) = loc => lister[c].nodes[n] < e.rv
  BY <1>1, <1>2 DEF NewerThanListed
<1> QED BY <1>1, <1>3, ListedIsNewest

(* A client that watches from the versions a list returned misses nothing  *)
(* that was queued: whatever is in its queue and not in the list is newer  *)
(* than the version of its location.  Holding enqueueLock for reading is   *)
(* enough for that, although the stores are copied one after the other     *)
(* while events are processed: an event that was queued before the call is *)
(* stored or the newest of its location, and no newer one gets past        *)
(* EnqueueEvent before the call ends.                                      *)
THEOREM ListResumes ==
  ASSUME CollisionFree
  PROVE  Spec => []SnapshotResumable
<1>1. ASSUME Known, QInv, SInv PROVE SnapshotResumable
  <2> SUFFICES ASSUME NEW c \in Clients, lister[c].pc = "listed", NEW loc \in Locations,
                      NEW i \in DOMAIN queues[c][loc],
                      lister[c].nodes[queues[c][loc][i].id] < queues[c][loc][i].rv
               PROVE  queues[c][loc][i].rv > ListedRV(c, loc)
    BY DEF SnapshotResumable
  <2> DEFINE e == queues[c][loc][i]
  <2>1. queues[c][loc] \in Seq(NodeEvent)
    BY <1>1 DEF Known, TInv, TypeOK
  <2>2. e \in NodeEvent /\ InQueue(c, loc, e) /\ lister[c].nodes[e.id] < e.rv
    BY <2>1 DEF InQueue
  <2> HIDE DEF e
  <2>3. e.rv > ListedRV(c, loc)
    BY <1>1, <2>2, MissingIsNewer DEF QInv, SInv
  <2> QED BY <2>3 DEF e
<1> QED BY <1>1, ListInvariant, PTL

-----------------------------------------------------------------------------
(* The oldest event of a queue.                                            *)

(* Nodes are kept in stores of their own location.                         *)
OwnStores == \A n \in NodeIds : LocOf[StoreOfNode(n)] = LocOfNode(n)

(* A client that a store is assigned to has a queue for its location.      *)
Given(c, s) ==
  \/ clientId[s] = c
  \/ \E q \in Requests : /\ registration[q].pc = "assign" /\ ClientOf[q] = c
                         /\ s \in registration[q].selected
HasQueue ==
  \A c \in Clients : \A s \in Stores : Given(c, s) => queues[c][LocOf[s]] # <<>>

(* How often a goroutine may have added its event to a queue by now.       *)
Again(r) ==
  \/ proc[r].op = "add" /\ ~proc[r].create
  \/ proc[r].op = "update" /\ proc[r].create
Handed(r) == (IF Again(r) THEN 1 ELSE 0) + (IF proc[r].pc \in {"lock", "write"} THEN 1 ELSE 0)

(* It is added no third time: CreateNode goes on to an update of a node    *)
(* that it found in its position.                                          *)
FoundThere ==
  \A r \in Regions : Pending(r) /\ proc[r].op = "update" /\ proc[r].create => Occupied(proc[r].event)

(* So the events of a queue that are not stored yet are the last of it,    *)
(* and the oldest one, first a bookmark, is.                               *)
Settled(e) == e.rv <= StoredRV(e.id)
UnsettledLast ==
  \A c \in Clients : \A loc \in Locations : \A i \in DOMAIN queues[c][loc] :
    Settled(queues[c][loc][i]) \/ Len(queues[c][loc]) - i < Handed(RegionOf[loc])
OldestSettled ==
  \A c \in Clients : \A loc \in Locations :
    queues[c][loc] # <<>> => Settled(queues[c][loc][1])

(* The events of a queue are in the order of their versions.               *)
Ascending ==
  \A c \in Clients : \A loc \in Locations : \A i, j \in DOMAIN queues[c][loc] :
    i <= j => queues[c][loc][i].rv <= queues[c][loc][j].rv

(* The oldest is in the list, until newer events have filled the queue.    *)
OldestKnown(c, loc) ==
  LET e == queues[c][loc][1] IN
  \/ lister[c].pc = "snapshot" /\ StoreOfNode(e.id) \in lister[c].todo
  \/ e.rv <= lister[c].nodes[e.id]
  \/ lister[c].pc = "listed" /\ Len(queues[c][loc]) = LengthOfNodeEventQueue
OldestInList ==
  \A c \in Clients : lister[c].pc # "none" =>
    \A loc \in Locations : queues[c][loc] # <<>> => OldestKnown(c, loc)

BInv == HasQueue /\ FoundThere /\ UnsettledLast /\ OldestSettled /\ Ascending /\ OldestInList

(* Queues are sequences of events.                                         *)
LEMMA QueueTyped ==
  ASSUME Known, NEW c \in Clients, NEW loc \in Locations
  PROVE  /\ queues[c][loc] \in Seq(NodeEvent) /\ Len(queues[c][loc]) \in Nat
         /\ DOMAIN queues[c][loc] = 1..Len(queues[c][loc])
         /\ queues[c][loc] # <<>> <=> 1 \in DOMAIN queues[c][loc]
         /\ \A i \in DOMAIN queues[c][loc] :
              queues[c][loc][i] \in NodeEvent /\ InQueue(c, loc, queues[c][loc][i])
<1>1. queues \in [Clients -> [Locations -> Seq(NodeEvent)]]
  BY DEF Known, TInv, TypeOK
<1> DEFINE q == queues[c][loc]
<1>2. q \in Seq(NodeEvent)
  BY <1>1
<1>3. \A i \in DOMAIN q : InQueue(c, loc, q[i])
  BY DEF InQueue
<1> HIDE DEF q
<1>4. Len(q) \in Nat /\ DOMAIN q = 1..Len(q) /\ \A i \in DOMAIN q : q[i] \in NodeEvent
  BY <1>2
<1>5. q # <<>> <=> 1 \in DOMAIN q
  BY <1>2, <1>4
<1> QED BY <1>2, <1>3, <1>4, <1>5 DEF q

(* A queue stays as it is, is made by a registration or gets an event.     *)
Receives(r, c, loc) ==
  /\ EnqueueEvent(r) /\ LocOfNode(proc[r].event.id) = loc
  /\ proc[r].event \in NodeEvent
  /\ c = clientId[StoreOfNode(proc[r].event.id)] /\ c \notin snapshotReaders
  /\ queues'[c][loc] = WithEvent(queues[c][loc], proc[r].event)
  /\ Pending(r)

LEMMA QueueStep ==
  ASSUME Known, QueueOfStore, [Next]_vars, NEW c \in Clients, NEW loc \in Locations
  PROVE  \/ queues'[c][loc] = queues[c][loc]
         \/ \E q \in Requests : addBookmarkEvent(q) /\ ClientOf[q] = c
         \/ \E r \in Regions : Receives(r, c, loc)
<1>1. ASSUME NEW r \in Regions, EnqueueEvent(r)
      PROVE  queues'[c][loc] = queues[c][loc] \/ Receives(r, c, loc)
  <2>1. PICK d \in Clients :
          LET e == proc[r].event
              l == LocOfNode(e.id) IN
          /\ e \in NodeEvent
          /\ d = clientId[StoreOfNode(e.id)] /\ d \notin snapshotReaders
          /\ queues'[d][l] = WithEvent(queues[d][l], e)
          /\ \A y \in Clients, z \in Locations : y # d \/ z # l => queues'[y][z] = queues[y][z]
          /\ Pending(r)
    BY <1>1, Enqueued
  <2> QED BY <1>1, <2>1 DEF Receives
<1>2. ASSUME NEW q \in Requests, addBookmarkEvent(q), ClientOf[q] # c
      PROVE  queues'[c] = queues[c]
  BY <1>2, Bookmarked
<1>3. \/ UNCHANGED queues
      \/ \E r \in Regions : EnqueueEvent(r)
      \/ \E q \in Requests : addBookmarkEvent(q)
  BY OtherwiseNotEnqueued, OtherwiseNoQueue, ListFrame DEF Next, vars, storeVars
<1> QED BY <1>1, <1>2, <1>3

(* What a queue that receives an event is.                                 *)
LEMMA Received ==
  ASSUME Known, NEW c \in Clients, NEW loc \in Locations, NEW r \in Regions, Receives(r, c, loc)
  PROVE  LET q == queues[c][loc]
             p == queues'[c][loc]
             e == proc[r].event IN
         /\ p \in Seq(NodeEvent) /\ p[Len(p)] = e /\ Len(p) >= Len(q) /\ Len(p) > 0
         /\ Len(q) # LengthOfNodeEventQueue =>
              Len(p) = Len(q) + 1 /\ \A i \in 1..Len(q) : p[i] = q[i]
         /\ Len(q) = LengthOfNodeEventQueue =>
              Len(p) = Len(q) /\ \A i \in 1..(Len(q) - 1) : p[i] = q[i + 1]
<1> DEFINE q == queues[c][loc]
           e == proc[r].event
           p == WithEvent(q, e)
<1>1. q \in Seq(NodeEvent) /\ Len(q) \in Nat /\ e \in NodeEvent /\ queues'[c][loc] = p
  BY QueueTyped DEF Receives
<1> HIDE DEF q, e
<1>2. p \in Seq(NodeEvent) /\ p[Len(p)] = e
  BY <1>1, WithEventIs
<1>3. CASE Len(q) # LengthOfNodeEventQueue
  <2>1. p = Append(q, e)
    BY <1>3 DEF WithEvent
  <2> HIDE DEF p
  <2>2. Len(p) = Len(q) + 1 /\ \A i \in 1..Len(q) : p[i] = q[i]
    BY <1>1, <2>1
  <2> QED BY <1>1, <1>2, <1>3, <2>2 DEF q, e
<1>4. CASE Len(q) = LengthOfNodeEventQueue
  <2> DEFINE t == Tail(q)
  <2>1. p = Append(t, e)
    BY <1>4 DEF WithEvent
  <2>2. t \in Seq(NodeEvent) /\ Len(t) = Len(q) - 1 /\ \A i \in 1..(Len(q) - 1) : t[i] = q[i + 1]
    BY <1>1, <1>4, NodeStoreAssumption
  <2> HIDE DEF p, t
  <2>3. Len(p) = Len(q) /\ \A i \in 1..(Len(q) - 1) : p[i] = q[i + 1]
    BY <1>1, <2>1, <2>2
  <2> QED BY <1>1, <1>2, <1>4, <2>3, NodeStoreAssumption DEF q, e
<1> QED BY <1>3, <1>4

(* The queue that a registration makes has the bookmark of each location   *)
(* of the stores selected, and nothing else.                               *)
LEMMA BookmarkedOwn ==
  ASSUME OwnStores, Known, NEW q \in Requests, addBookmarkEvent(q)
  PROVE  LET c == ClientOf[q]
             S == registration[q].selected IN
         /\ \A s \in S : queues'[c][LocOf[s]] # <<>>
         /\ \A loc \in Locations : \A i, j \in DOMAIN queues'[c][loc] :
              queues'[c][loc][i] = queues'[c][loc][j]
<1> DEFINE c == ClientOf[q]
           S == registration[q].selected
           locs == {LocOf[s] : s \in S}
<1>1. c \in Clients /\ S \subseteq Stores /\ queues \in [Clients -> [Locations -> Seq(NodeEvent)]]
  BY RequestAssumption DEF Known, TInv, TypeOK
<1>2. PICK bookmark \in [locs -> UNION {BookmarksOf(S, loc) : loc \in locs}] :
        /\ \A loc \in locs : bookmark[loc] \in BookmarksOf(S, loc)
        /\ \E queue \in [Locations -> UNION {InSomeOrder(QueuedUnder(bookmark, loc)) : loc \in Locations}] :
             /\ \A loc \in Locations : queue[loc] \in InSomeOrder(QueuedUnder(bookmark, loc))
             /\ queues' = [queues EXCEPT ![c] = queue]
  BY DEF addBookmarkEvent
<1>3. PICK queue \in [Locations -> UNION {InSomeOrder(QueuedUnder(bookmark, loc)) : loc \in Locations}] :
        /\ \A loc \in Locations : queue[loc] \in InSomeOrder(QueuedUnder(bookmark, loc))
        /\ queues' = [queues EXCEPT ![c] = queue]
  BY <1>2
<1>4. queues'[c] = queue
  BY <1>1, <1>3
<1>5. ASSUME NEW loc \in locs PROVE LocOfNode(bookmark[loc].id) = loc
  <2>1. PICK h \in Hosts({s \in S : LocOf[s] = loc}) :
          bookmark[loc] = [type |-> "Bookmark", id |-> nodeEventByHash[h].id,
                           rv |-> nodeEventByHash[h].rv]
    BY <1>2 DEF BookmarksOf
  <2>2. /\ h \in Hashes /\ nodeEventByHash[h] \in NodeEvent
        /\ LocOf[StoreOf[h]] = loc
        /\ HashOf[nodeEventByHash[h].id] = h
    BY DEF Hosts, Known, TInv, TypeOK, HInv
  <2>3. bookmark[loc].id = nodeEventByHash[h].id /\ nodeEventByHash[h].id \in NodeIds
    BY <2>1, <2>2, EventPlace
  <2> QED BY <2>2, <2>3 DEF OwnStores, StoreOfNode
<1>6. DOMAIN bookmark = locs
  BY <1>2
<1>7. ASSUME NEW s \in S PROVE queue[LocOf[s]] # <<>>
  <2> DEFINE loc == LocOf[s]
             B == QueuedUnder(bookmark, loc)
  <2>1. loc \in locs /\ loc \in Locations
    BY <1>1, NodeStoreAssumption
  <2>2. bookmark[loc] \in B
    BY <1>5, <1>6, <2>1 DEF QueuedUnder
  <2>3. \A b \in B : \E i \in DOMAIN queue[loc] : queue[loc][i] = b
    BY <1>3, <2>1, Zenon DEF InSomeOrder
  <2>4. DOMAIN queue[loc] # {}
    BY <2>2, <2>3
  <2>5. DOMAIN <<>> = {}
    OBVIOUS
  <2> QED BY <2>4, <2>5
<1>8. ASSUME NEW loc \in Locations, NEW i \in DOMAIN queue[loc], NEW j \in DOMAIN queue[loc]
      PROVE  queue[loc][i] = queue[loc][j]
  <2> DEFINE B == QueuedUnder(bookmark, loc)
  <2>1. queue[loc] \in [1..Cardinality(B) -> B]
    BY <1>3, Zenon DEF InSomeOrder
  <2>2. \A b \in B : LocOfNode(b.id) = loc /\ \E l \in locs : b = bookmark[l]
    BY <1>6 DEF QueuedUnder
  <2> HIDE DEF locs, B
  <2>3. \A b \in B : b = bookmark[loc]
    BY <1>5, <2>2
  <2> QED BY <2>1, <2>3
<1> HIDE DEF locs, S, c
<1> QED BY <1>4, <1>7, <1>8 DEF S, c

(* What is settled stays so, and so is what a registration queues.         *)
SettledNext(e) == e.rv <= nodeEventByHash'[HashOf[e.id]].rv

LEMMA SettledKept ==
  ASSUME CollisionFree, Known, Known', [Next]_vars, NEW e \in NodeEvent, Settled(e)
  PROVE  SettledNext(e)
<1>1. \A n \in NodeIds : StoredRV(n) <= StoredRV(n)' /\ StoredRV(n) \in Nat /\ StoredRV(n)' \in Nat
  <2>1. \A n \in NodeIds : StoredRV(n)' \in Nat
    BY NodeStoreAssumption DEF Known, TInv, TypeOK, NodeEvent, NoNode, StoredRV
  <2> QED BY <2>1, StoredGrows, Versions DEF Known
<1>2. e.id \in NodeIds /\ e.rv \in Nat
  BY EventPlace
<1> QED BY <1>1, <1>2 DEF Settled, SettledNext, StoredRV

LEMMA BookmarkSettled ==
  ASSUME Known, Known', NEW q \in Requests, addBookmarkEvent(q), NEW loc \in Locations,
         NEW i \in DOMAIN queues'[ClientOf[q]][loc]
  PROVE  SettledNext(queues'[ClientOf[q]][loc][i])
<1>1. ClientOf[q] \in Clients
  BY RequestAssumption
<1>2. queues'[ClientOf[q]][loc] \in Seq(NodeEvent)
  BY <1>1 DEF Known, TInv, TypeOK
<1>3. PICK b \in NodeEvent : queues'[ClientOf[q]][loc][i] = b
  BY <1>2
<1>4. StoredRV(b.id) = b.rv /\ b.rv \in Nat
  BY <1>3, Bookmarked, EventPlace DEF InQueue
<1>5. UNCHANGED nodeEventByHash
  BY DEF addBookmarkEvent
<1> QED BY <1>3, <1>4, <1>5 DEF SettledNext, StoredRV

(* A client that has nothing yet gets nothing before its queue.            *)
LEMMA NextHasQueue ==
  ASSUME OwnStores, Known, QInv, HasQueue, [Next]_vars
  PROVE  HasQueue'
<1> SUFFICES ASSUME NEW c \in Clients, NEW s \in Stores, Given(c, s)'
             PROVE  queues'[c][LocOf[s]] # <<>>
  BY DEF HasQueue
<1>1. LocOf[s] \in Locations
  BY NodeStoreAssumption
<1>2. ASSUME Given(c, s), \A q \in Requests : ~(addBookmarkEvent(q) /\ ClientOf[q] = c)
      PROVE  queues'[c][LocOf[s]] # <<>>
  <2> DEFINE l == LocOf[s]
  <2>1. queues[c][l] # <<>>
    BY <1>2 DEF HasQueue
  <2>2. ASSUME NEW r \in Regions, Receives(r, c, l) PROVE queues'[c][l] # <<>>
    <3>1. Len(queues'[c][l]) > 0
      BY <1>1, <2>2, Received
    <3> QED BY <3>1
  <2> QED BY <1>1, <1>2, <2>1, <2>2, QueueStep DEF QInv
<1>3. ASSUME NEW q \in Requests, addBookmarkEvent(q) PROVE queues'[c][LocOf[s]] # <<>>
  <2>1. registration \in [Requests -> [pc : RegistrationSteps, selected : SUBSET Stores,
                                       todo : SUBSET Stores]]
    BY DEF Known, TInv, TypeOK
  <2>2. /\ UNCHANGED clientId /\ Allocating(q)
        /\ registration'[q].selected = registration[q].selected
        /\ \A x \in Requests \ {q} : registration'[x] = registration[x]
    BY <1>3, <2>1 DEF addBookmarkEvent, Allocating
  <2>3. Given(c, s) \/ (c = ClientOf[q] /\ s \in registration[q].selected)
    BY <2>2 DEF Given
  <2>4. CASE c # ClientOf[q]
    <3>1. \A x \in Requests : addBookmarkEvent(x) => x = q
      BY <2>2 DEF addBookmarkEvent, Allocating, Known, AInv, LockHolder
    <3> QED BY <1>2, <2>3, <2>4, <3>1
  <2>5. CASE c = ClientOf[q]
    <3>1. Given(c, s) => Owns(c, s)
      BY DEF Given, Owns, Allocating, QInv, QueueOfOwn, AssignedIsOwned
    <3>2. clientToStores[c] = {}
      BY <1>3, <2>5, Bookmarked
    <3>3. \A x \in Requests : Allocating(x) => x = q
      BY <2>2 DEF Known, AInv, LockHolder
    <3>4. s \in registration[q].selected
      BY <2>3, <3>1, <3>2, <3>3 DEF Owns
    <3> QED BY <1>3, <2>5, <3>4, BookmarkedOwn
  <2> QED BY <2>4, <2>5
<1>4. ASSUME NEW q \in Requests, RegisterClient(q), ~addBookmarkEvent(q)
      PROVE  queues'[c][LocOf[s]] # <<>>
  <2>1. /\ registration \in [Requests -> [pc : RegistrationSteps, selected : SUBSET Stores,
                                          todo : SUBSET Stores]]
        /\ clientId \in [Stores -> Clients \cup {None}]
    BY DEF Known, TInv, TypeOK
  <2>2. UNCHANGED queues
    BY <1>4, OtherwiseNoQueue
  <2>3. \A x \in Requests : registration'[x].pc = "assign" =>
          registration[x].pc = "assign" /\ registration'[x].selected = registration[x].selected
    BY <1>4, <2>1 DEF RegisterClient, deny, allocateNodesToClient, AssignToClient,
       finishAllocation, PersistClient
  <2>4. ASSUME clientId'[s] = c, clientId[s] # c PROVE Given(c, s)
    <3>1. PICK t \in Stores : AssignToClient(q, t)
      BY <1>4, <2>4 DEF RegisterClient, deny, allocateNodesToClient, finishAllocation,
         PersistClient, storeVars
    <3>2. /\ ClientOf[q] = c /\ s \in registration[q].todo /\ registration[q].pc = "assign"
      BY <2>1, <2>4, <3>1 DEF AssignToClient
    <3>3. s \in registration[q].selected
      BY <3>2 DEF Known, AInv, SelectedStores, Allocating
    <3> QED BY <3>2, <3>3 DEF Given
  <2>5. Given(c, s)
    BY <2>3, <2>4 DEF Given
  <2> QED BY <2>2, <2>5 DEF HasQueue
<1>5. ASSUME UNCHANGED <<clientId, registration>>, \A q \in Requests : ~addBookmarkEvent(q)
      PROVE  queues'[c][LocOf[s]] # <<>>
  BY <1>2, <1>5 DEF Given
<1>6. ASSUME UNCHANGED registration PROVE \A q \in Requests : ~addBookmarkEvent(q)
  BY <1>6 DEF addBookmarkEvent, Known, TInv, TypeOK
<1> QED BY <1>3, <1>4, <1>5, <1>6, ProcessFrame, ListFrame DEF Next, vars, storeVars, distVars

(* The processing of an event goes on to its update for a node found.      *)
LEMMA NextFoundThere ==
  ASSUME Known, FoundThere, [Next]_vars
  PROVE  FoundThere'
<1> SUFFICES ASSUME NEW r \in Regions, Pending(r)', proc'[r].op = "update", proc'[r].create
             PROVE  nodeEventByHash'[HashOf[proc'[r].event.id]] # NoNode
  BY DEF FoundThere, Occupied, Stored
<1>0. proc \in [Regions -> PType]
  BY DEF Known, TInv, TypeOK, PType
<1>1. ASSUME proc'[r].event = proc[r].event, Pending(r), Occupied(proc[r].event)
      PROVE  nodeEventByHash'[HashOf[proc'[r].event.id]] # NoNode
  <2>1. HashOf[proc[r].event.id] \in Hashes
    BY <1>1, HandledEvent DEF Known, Pending
  <2> QED BY <1>1, <2>1, RingGrows DEF Known, Occupied, Stored
<1>2. CASE proc'[r] = proc[r]
  <2>1. Pending(r)
    BY <1>2 DEF Pending
  <2> QED BY <1>1, <1>2, <2>1 DEF FoundThere
<1>3. ASSUME ProcessEvents(r) PROVE nodeEventByHash'[HashOf[proc'[r].event.id]] # NoNode
  <2>1. ASSUME NEW e \in NodeEvent, processNodeEvent(r, e) PROVE FALSE
    BY <1>0, <2>1 DEF processNodeEvent, Idle
  <2>2. CASE checkQueue(r) \/ EnqueueEvent(r) \/ lockStore(r)
    <3>1. Pending(r)
      BY <2>2 DEF checkQueue, EnqueueEvent, lockStore, Pending
    <3>2. /\ proc'[r].event = proc[r].event
          /\ proc'[r].op = proc[r].op /\ proc'[r].create = proc[r].create
      <4>1. CASE checkQueue(r)
        BY <1>0, <4>1 DEF checkQueue, PType
      <4>2. CASE EnqueueEvent(r)
        BY <1>0, <4>2 DEF EnqueueEvent, PType
      <4>3. CASE lockStore(r)
        BY <1>0, <4>3 DEF lockStore, PType
      <4> QED BY <2>2, <4>1, <4>2, <4>3
    <3> QED BY <1>1, <3>1, <3>2 DEF FoundThere
  <2>3. CASE addNodeToRing(r)
    <3>1. SameNode(proc[r].event) /\ proc'[r].event = proc[r].event /\ Pending(r)
      BY <1>0, <2>3 DEF addNodeToRing, Pending, PType
    <3> QED BY <1>1, <3>1 DEF SameNode
  <2>4. ~updateNodeInRing(r) /\ ~updateResourceVersion(r)
    BY <1>0 DEF updateNodeInRing, updateResourceVersion, Pending, Idle, PType
  <2> QED BY <1>3, <2>1, <2>2, <2>3, <2>4 DEF ProcessEvents, ProcessLocally
<1>4. ASSUME NEW q \in Regions, ProcessEvents(q), q # r PROVE proc'[r] = proc[r]
  BY <1>0, <1>4 DEF ProcessEvents, ProcessLocally, processNodeEvent, checkQueue, EnqueueEvent,
     lockStore, addNodeToRing, updateNodeInRing, updateResourceVersion
<1> QED BY <1>2, <1>3, <1>4, RegisterFrame, ListFrame DEF Next, vars, storeVars

(* An event is added to queues in turn, or it is stored.                   *)
LEMMA HandedGrows ==
  ASSUME CollisionFree, Known, Known', FoundThere, [Next]_vars, NEW r \in Regions, Pending(r)
  PROVE  \/ Handed(r) <= Handed(r)' /\ (EnqueueEvent(r) => Handed(r)' = Handed(r) + 1)
         \/ \A n \in NodeIds : n = proc[r].event.id => StoredRV(n)' = proc[r].event.rv
<1>0. proc \in [Regions -> PType]
  BY DEF Known, TInv, TypeOK, PType
<1>1. ASSUME proc'[r] = proc[r] PROVE Handed(r) <= Handed(r)'
  BY <1>1 DEF Handed, Again
<1>2. ASSUME ProcessEvents(r), Pending(r)'
      PROVE  Handed(r) <= Handed(r)' /\ (EnqueueEvent(r) => Handed(r)' = Handed(r) + 1)
  <2>1. CASE EnqueueEvent(r)
    <3>1. /\ proc[r].pc = "enqueue" /\ proc'[r].pc = "lock"
          /\ proc'[r].op = proc[r].op /\ proc'[r].create = proc[r].create
      BY <1>0, <2>1 DEF EnqueueEvent, NextLock, PType
    <3> QED BY <3>1 DEF Handed, Again
  <2>2. CASE checkQueue(r) \/ lockStore(r)
    <3>1. /\ proc[r].pc \in {"check", "lock"}
          /\ proc[r].pc = "lock" => proc'[r].pc = "write"
          /\ proc'[r].op = proc[r].op /\ proc'[r].create = proc[r].create
      BY <1>0, <2>2 DEF checkQueue, lockStore, NextLock, PType
    <3>2. ~EnqueueEvent(r)
      BY <3>1 DEF EnqueueEvent
    <3> QED BY <3>1, <3>2 DEF Handed, Again
  <2>3. CASE addNodeToRing(r)
    <3>1. /\ proc[r].pc = "write" /\ proc[r].op = "add" /\ proc[r].create
          /\ proc'[r].op = "update" /\ proc'[r].create = proc[r].create
      BY <1>0, <1>2, <2>3 DEF addNodeToRing, Pending, PType
    <3>2. ~EnqueueEvent(r)
      BY <3>1 DEF EnqueueEvent
    <3> QED BY <3>1, <3>2 DEF Handed, Again
  <2>4. CASE updateNodeInRing(r)
    <3>1. /\ proc[r].pc = "write" /\ proc[r].op = "update" /\ ~Occupied(proc[r].event)
          /\ proc'[r].op = "add" /\ ~proc'[r].create
      BY <1>0, <1>2, <2>4 DEF updateNodeInRing, Pending, PType
    <3>2. ~EnqueueEvent(r) /\ ~proc[r].create
      BY <3>1 DEF EnqueueEvent, FoundThere, Pending
    <3> QED BY <3>1, <3>2 DEF Handed, Again
  <2> QED BY <1>2, <2>1, <2>2, <2>3, <2>4
          DEF ProcessEvents, ProcessLocally, Pending, processNodeEvent, updateResourceVersion
<1>3. ASSUME ProcessEvents(r), ~Pending(r)'
      PROVE  \A n \in NodeIds : n = proc[r].event.id => StoredRV(n)' = proc[r].event.rv
  BY <1>3, PendingOrStored DEF Known
<1>4. ASSUME NEW q \in Regions, ProcessEvents(q), q # r PROVE proc'[r] = proc[r]
  BY <1>0, <1>4 DEF ProcessEvents, ProcessLocally, processNodeEvent, checkQueue, EnqueueEvent,
     lockStore, addNodeToRing, updateNodeInRing, updateResourceVersion
<1>5. EnqueueEvent(r) => proc'[r] # proc[r]
  BY <1>0 DEF EnqueueEvent, NextLock, PType
<1> QED BY <1>1, <1>2, <1>3, <1>4, <1>5, RegisterFrame, ListFrame DEF Next, vars, storeVars

(* An event that is queued and not stored is the one that the goroutine of *)
(* its region handles.                                                     *)
LEMMA UnsettledIsHandled ==
  ASSUME Known, QInv, NEW c \in Clients, NEW loc \in Locations, NEW e \in NodeEvent,
         InQueue(c, loc, e), ~Settled(e)
  PROVE  LET r == RegionOf[loc] IN
         r \in Regions /\ Pending(r) /\ proc[r].event.id = e.id /\ proc[r].event.rv = e.rv
<1>1. LocOfNode(e.id) = loc
  BY DEF QInv, QueueOfOwn, OwnEvents
<1>2. PICK r \in Regions : Pending(r) /\ proc[r].event.id = e.id /\ proc[r].event.rv = e.rv
  BY DEF QInv, QueuedSettles, PendingIs, Settled
<1>3. RegionOf[LocOfNode(proc[r].event.id)] = r
  BY <1>2 DEF Known, KInv, LastFed, Pending
<1> QED BY <1>1, <1>2, <1>3

(* An event that is not stored is followed by later copies of itself only. *)
LEMMA NextUnsettledLast ==
  ASSUME CollisionFree, Known, Known', QInv, FoundThere, UnsettledLast, [Next]_vars
  PROVE  UnsettledLast'
<1> SUFFICES ASSUME NEW c \in Clients, NEW loc \in Locations, NEW i \in DOMAIN queues'[c][loc],
                    ~SettledNext(queues'[c][loc][i])
             PROVE  Len(queues'[c][loc]) - i < Handed(RegionOf[loc])'
  BY DEF UnsettledLast, Settled, SettledNext, StoredRV
<1> DEFINE q == queues[c][loc]
           p == queues'[c][loc]
           r == RegionOf[loc]
<1>1. /\ q \in Seq(NodeEvent) /\ Len(q) \in Nat /\ DOMAIN q = 1..Len(q)
      /\ \A j \in DOMAIN q : q[j] \in NodeEvent /\ InQueue(c, loc, q[j])
  BY QueueTyped
<1>2. Len(p) \in Nat /\ i \in 1..Len(p) /\ p[i] \in NodeEvent
  <2>1. p \in Seq(NodeEvent) /\ i \in DOMAIN p
    BY DEF Known, TInv, TypeOK
  <2> HIDE DEF p
  <2> QED BY <2>1
<1>3. \A x \in Regions : Handed(x) \in 0..2 /\ Handed(x)' \in 0..2
  BY DEF Handed
<1>4. ASSUME NEW j \in DOMAIN q, q[j] = p[i]
      PROVE  /\ Len(q) - j < Handed(r) /\ r \in Regions /\ Handed(r) <= Handed(r)'
             /\ EnqueueEvent(r) => Handed(r)' = Handed(r) + 1
  <2>1. ~Settled(q[j])
    BY <1>1, <1>4, SettledKept
  <2>2. r \in Regions /\ Pending(r) /\ proc[r].event.id = q[j].id /\ proc[r].event.rv = q[j].rv
    BY <1>1, <2>1, UnsettledIsHandled
  <2>3. Len(q) - j < Handed(r)
    BY <2>1 DEF UnsettledLast
  <2>4. ~\A n \in NodeIds : n = proc[r].event.id => StoredRV(n)' = proc[r].event.rv
    <3>1. p[i].id \in NodeIds /\ p[i].rv \in Nat
      BY <1>2, EventPlace
    <3>2. nodeEventByHash'[HashOf[p[i].id]].rv # p[i].rv
      BY <3>1 DEF SettledNext
    <3> HIDE DEF p, q, r
    <3> QED BY <1>4, <2>2, <3>1, <3>2 DEF StoredRV
  <2> QED BY <2>2, <2>3, <2>4, HandedGrows
<1>5. CASE p = q
  BY <1>1, <1>2, <1>3, <1>4, <1>5
<1>6. ASSUME NEW k \in Requests, addBookmarkEvent(k), ClientOf[k] = c PROVE FALSE
  BY <1>6, BookmarkSettled
<1>7. ASSUME NEW x \in Regions, Receives(x, c, loc) PROVE Len(p) - i < Handed(r)'
  <2>1. x = r /\ EnqueueEvent(r) /\ Pending(r)
    BY <1>7 DEF Receives, Known, KInv, LastFed, Pending
  <2>2. /\ Len(q) # LengthOfNodeEventQueue =>
             Len(p) = Len(q) + 1 /\ \A j \in 1..Len(q) : p[j] = q[j]
        /\ Len(q) = LengthOfNodeEventQueue =>
             Len(p) = Len(q) /\ \A j \in 1..(Len(q) - 1) : p[j] = q[j + 1]
        /\ p[Len(p)] = proc[r].event
    BY <1>7, <2>1, Received
  <2>3. CASE i = Len(p)
    <3>1. p[i].id = proc[r].event.id /\ p[i].rv = proc[r].event.rv /\ r \in Regions
      BY <1>7, <2>1, <2>2, <2>3
    <3>2. p[i].id \in NodeIds /\ p[i].rv \in Nat
      BY <1>2, EventPlace
    <3>3. ~\A n \in NodeIds : n = proc[r].event.id => StoredRV(n)' = proc[r].event.rv
      <4>1. nodeEventByHash'[HashOf[p[i].id]].rv # p[i].rv
        BY <3>2 DEF SettledNext
      <4> HIDE DEF p, q, r
      <4> QED BY <3>1, <3>2, <4>1 DEF StoredRV
    <3>4. Handed(r)' = Handed(r) + 1
      BY <2>1, <3>1, <3>3, HandedGrows
    <3> QED BY <1>2, <1>3, <2>3, <3>1, <3>4
  <2>4. CASE i # Len(p) /\ Len(q) # LengthOfNodeEventQueue
    <3>1. i \in DOMAIN q /\ q[i] = p[i] /\ Len(p) = Len(q) + 1
      BY <1>1, <1>2, <2>2, <2>4
    <3>2. Len(q) - i < Handed(r) /\ Handed(r)' = Handed(r) + 1 /\ r \in Regions
      BY <1>4, <2>1, <3>1
    <3>3. i \in Nat /\ Len(q) \in Nat /\ Handed(r) \in Nat
      BY <1>1, <1>2, <1>3, <3>1, <3>2
    <3> HIDE DEF p, q, r
    <3> QED BY ONLY <3>1, <3>2, <3>3
  <2>5. CASE i # Len(p) /\ Len(q) = LengthOfNodeEventQueue
    <3>1. i + 1 \in DOMAIN q /\ q[i + 1] = p[i] /\ Len(p) = Len(q)
      BY <1>1, <1>2, <2>2, <2>5
    <3>2. Len(q) - (i + 1) < Handed(r) /\ Handed(r)' = Handed(r) + 1 /\ r \in Regions
      BY <1>4, <2>1, <3>1
    <3> QED BY <1>1, <1>2, <1>3, <3>1, <3>2
  <2> QED BY <2>3, <2>4, <2>5
<1> QED BY <1>5, <1>6, <1>7, QueueStep DEF QInv

(* What makes room in a full queue leaves an event that is stored behind.  *)
LEMMA NextOldestSettled ==
  ASSUME OwnStores, CollisionFree, Known, Known', QInv, HasQueue, UnsettledLast, OldestSettled,
         [Next]_vars
  PROVE  OldestSettled'
<1> SUFFICES ASSUME NEW c \in Clients, NEW loc \in Locations, queues'[c][loc] # <<>>
             PROVE  SettledNext(queues'[c][loc][1])
  BY DEF OldestSettled, Settled, SettledNext, StoredRV
<1> DEFINE q == queues[c][loc]
           p == queues'[c][loc]
<1>1. /\ q \in Seq(NodeEvent) /\ Len(q) \in Nat /\ DOMAIN q = 1..Len(q)
      /\ \A j \in DOMAIN q : q[j] \in NodeEvent
  BY QueueTyped
<1>2. p \in Seq(NodeEvent) /\ 1 \in DOMAIN p /\ p[1] \in NodeEvent
  <2>1. p \in Seq(NodeEvent)
    BY DEF Known, TInv, TypeOK
  <2> HIDE DEF p
  <2> QED BY <2>1 DEF p
<1>3. ASSUME NEW j \in DOMAIN q, q[j] = p[1], Settled(q[j]) PROVE SettledNext(p[1])
  BY <1>1, <1>3, SettledKept
<1>4. CASE p = q
  <2>1. 1 \in DOMAIN q /\ Settled(q[1])
    BY <1>2, <1>4 DEF OldestSettled
  <2> QED BY <1>3, <1>4, <2>1
<1>5. ASSUME NEW k \in Requests, addBookmarkEvent(k), ClientOf[k] = c PROVE SettledNext(p[1])
  BY <1>2, <1>5, BookmarkSettled
<1>6. ASSUME NEW r \in Regions, Receives(r, c, loc) PROVE SettledNext(p[1])
  <2>1. q # <<>>
    <3>1. /\ proc[r].event.id \in NodeIds /\ StoreOfNode(proc[r].event.id) \in Stores
          /\ LocOf[StoreOfNode(proc[r].event.id)] = loc
      BY <1>6, EventPlace DEF Receives, OwnStores
    <3> QED BY <1>6, <3>1 DEF Receives, HasQueue, Given
  <2>2. 1 \in DOMAIN q /\ Len(q) > 0 /\ Settled(q[1])
    BY <1>1, <2>1, QueueTyped DEF OldestSettled
  <2>3. /\ Len(q) # LengthOfNodeEventQueue => p[1] = q[1]
        /\ Len(q) = LengthOfNodeEventQueue => p[1] = q[2]
    <3>1. /\ Len(q) # LengthOfNodeEventQueue => \A j \in 1..Len(q) : p[j] = q[j]
          /\ Len(q) = LengthOfNodeEventQueue => \A j \in 1..(Len(q) - 1) : p[j] = q[j + 1]
      BY <1>6, Received
    <3>2. 1 \in 1..Len(q) /\ (Len(q) = LengthOfNodeEventQueue => 1 \in 1..(Len(q) - 1))
      BY <1>1, <2>2, NodeStoreAssumption
    <3> HIDE DEF p, q
    <3>3. Len(q) = LengthOfNodeEventQueue => p[1] = q[1 + 1]
      BY <3>1, <3>2
    <3>4. 1 + 1 = 2
      OBVIOUS
    <3> QED BY <3>1, <3>2, <3>3, <3>4
  <2>4. CASE Len(q) # LengthOfNodeEventQueue
    BY <1>3, <2>2, <2>3, <2>4
  <2>5. CASE Len(q) = LengthOfNodeEventQueue
    <3>1. 2 \in DOMAIN q /\ Len(q) >= 3
      BY <1>1, <2>5, NodeStoreAssumption
    <3>2. Handed(RegionOf[loc]) <= 1
      <4>1. RegionOf[loc] = r /\ proc[r].pc = "enqueue"
        BY <1>6 DEF Receives, EnqueueEvent, Known, KInv, LastFed
      <4> QED BY <4>1 DEF Handed
    <3>3. Settled(q[2])
      <4>1. Settled(q[2]) \/ Len(q) - 2 < Handed(RegionOf[loc])
        BY <3>1 DEF UnsettledLast
      <4>2. Handed(RegionOf[loc]) \in 0..2
        BY DEF Handed
      <4> QED BY <1>1, <3>1, <3>2, <4>1, <4>2
    <3> QED BY <1>3, <2>3, <2>5, <3>1, <3>3
  <2> QED BY <2>4, <2>5
<1> QED BY <1>4, <1>5, <1>6, QueueStep DEF QInv

(* An event is as new as all of its location that came before.             *)
LEMMA NextAscending ==
  ASSUME OwnStores, CollisionFree, Known, Known', QInv, Ascending, [Next]_vars
  PROVE  Ascending'
<1> SUFFICES ASSUME NEW c \in Clients, NEW loc \in Locations,
                    NEW i \in DOMAIN queues'[c][loc], NEW j \in DOMAIN queues'[c][loc], i <= j
             PROVE  queues'[c][loc][i].rv <= queues'[c][loc][j].rv
  BY DEF Ascending
<1> DEFINE q == queues[c][loc]
           p == queues'[c][loc]
<1>1. /\ q \in Seq(NodeEvent) /\ Len(q) \in Nat /\ DOMAIN q = 1..Len(q)
      /\ \A k \in DOMAIN q : q[k] \in NodeEvent /\ InQueue(c, loc, q[k]) /\ q[k].rv \in Nat
  BY QueueTyped, EventPlace
<1>2. /\ Len(p) \in Nat /\ i \in 1..Len(p) /\ j \in 1..Len(p)
      /\ p[i].rv \in Nat /\ p[j].rv \in Nat
  <2>1. p \in Seq(NodeEvent)
    BY DEF Known, TInv, TypeOK
  <2>2. i \in DOMAIN p /\ j \in DOMAIN p
    OBVIOUS
  <2> HIDE DEF p
  <2> QED BY <2>1, <2>2, EventPlace
<1>3. CASE p = q
  BY <1>3 DEF Ascending
<1>4. ASSUME NEW k \in Requests, addBookmarkEvent(k), ClientOf[k] = c PROVE p[i] = p[j]
  BY <1>4, BookmarkedOwn
<1>5. ASSUME NEW r \in Regions, Receives(r, c, loc) PROVE p[i].rv <= p[j].rv
  <2>1. /\ Len(q) # LengthOfNodeEventQueue =>
             Len(p) = Len(q) + 1 /\ \A k \in 1..Len(q) : p[k] = q[k]
        /\ Len(q) = LengthOfNodeEventQueue =>
             Len(p) = Len(q) /\ \A k \in 1..(Len(q) - 1) : p[k] = q[k + 1]
        /\ p[Len(p)] = proc[r].event
    BY <1>5, Received
  <2>2. ASSUME NEW k \in DOMAIN q PROVE q[k].rv <= proc[r].event.rv
    <3>1. q[k].id \in NodeIds /\ LocOfNode(q[k].id) = loc /\ q[k].rv \in Nat
      BY <1>1, EventPlace DEF QInv, QueueOfOwn, OwnEvents
    <3>2. /\ proc[r].event.id \in NodeIds /\ LocOfNode(proc[r].event.id) = loc
          /\ proc[r].pc # "idle" /\ proc[r].event.rv \in Nat
      BY <1>5, EventPlace DEF Receives, Pending
    <3>3. fed[q[k].id] <= proc[r].event.rv /\ fed[q[k].id] \in Nat
      <4>1. fed[q[k].id] \in Nat
        BY <3>1, Versions DEF Known
      <4>2. CASE q[k].id = proc[r].event.id
        BY <3>2, <4>1, <4>2 DEF Known, KInv, LastFed
      <4>3. CASE q[k].id # proc[r].event.id
        BY <3>1, <3>2, <4>1, <4>3 DEF QInv, NewestHandled
      <4> QED BY <4>1, <4>2, <4>3
    <3>4. q[k].rv <= fed[q[k].id]
      <4>1. q[k].rv <= StoredRV(q[k].id) \/ PendingIs(q[k])
        BY <1>1 DEF QInv, QueuedSettles
      <4>2. CASE q[k].rv <= StoredRV(q[k].id)
        BY <3>1, <3>3, <4>2, Versions DEF Known, KInv, Behind
      <4>3. CASE PendingIs(q[k])
        BY <3>1, <3>3, <4>3 DEF PendingIs, Pending, Known, KInv, LastFed
      <4> QED BY <4>1, <4>2, <4>3
    <3> QED BY <3>1, <3>2, <3>3, <3>4
  <2>3. \A k, l \in DOMAIN q : k <= l => q[k].rv <= q[l].rv
    BY DEF Ascending
  <2> HIDE DEF p, q
  <2>4. CASE i = Len(p)
    BY <1>2, <2>4
  <2>5. CASE i # Len(p) /\ Len(q) # LengthOfNodeEventQueue
    <3>0. Len(p) = Len(q) + 1 /\ Len(q) \in Nat /\ DOMAIN q = 1..Len(q)
      BY <1>1, <2>1, <2>5
    <3>1. i \in 1..Len(q) /\ DOMAIN q = 1..Len(q)
      BY ONLY <1>2, <2>5, <3>0
    <3>4. i \in DOMAIN q /\ p[i] = q[i]
      BY <2>1, <2>5, <3>1
    <3>2. CASE j = Len(p)
      BY <2>1, <2>2, <3>4, <3>2
    <3>3. CASE j # Len(p)
      <4>1. j \in 1..Len(q)
        BY ONLY <1>2, <3>0, <3>3
      <4>2. j \in DOMAIN q /\ p[j] = q[j]
        BY <2>1, <2>5, <3>1, <4>1
      <4> QED BY <2>3, <3>4, <4>2
    <3> QED BY <3>2, <3>3
  <2>6. CASE i # Len(p) /\ Len(q) = LengthOfNodeEventQueue
    <3>1. i + 1 \in DOMAIN q /\ p[i] = q[i + 1]
      BY <1>1, <1>2, <2>1, <2>6
    <3>2. CASE j = Len(p)
      BY <2>1, <2>2, <3>1, <3>2
    <3>3. CASE j # Len(p)
      <4>1. j + 1 \in DOMAIN q /\ p[j] = q[j + 1] /\ i + 1 <= j + 1
        BY <1>1, <1>2, <2>1, <2>6, <3>3
      <4> QED BY <2>3, <3>1, <4>1
    <3> QED BY <3>2, <3>3
  <2> QED BY <2>4, <2>5, <2>6
<1>6. p[i].rv <= p[j].rv
  BY <1>2, <1>3, <1>4, <1>5, QueueStep DEF QInv
<1> QED BY <1>6

(* A list call lists what opens each queue, since it is settled when its   *)
(* store is copied; afterwards it goes only when the queue is full.        *)
LEMMA NextOldestInList ==
  ASSUME OwnStores, CollisionFree, Known, QInv, SInv, HasQueue, OldestSettled, OldestInList,
         [Next]_vars
  PROVE  OldestInList'
<1> SUFFICES ASSUME NEW c \in Clients, lister'[c].pc # "none",
                    NEW loc \in Locations, queues'[c][loc] # <<>>
             PROVE  OldestKnown(c, loc)'
  BY DEF OldestInList
<1> DEFINE q == queues[c][loc]
           p == queues'[c][loc]
<1>1. lister \in [Clients -> [pc : {"none", "snapshot", "listed"}, todo : SUBSET Stores,
                              nodes : [NodeIds -> RVs]]]
  BY DEF Known, TInv, TypeOK
<1>2. q # <<>> => /\ 1 \in DOMAIN q /\ q[1] \in NodeEvent /\ InQueue(c, loc, q[1])
                  /\ q[1].id \in NodeIds /\ q[1].rv \in Nat /\ q[1].rv > 0
  BY QueueTyped, EventPlace
<1>3. CASE lister'[c] = lister[c] /\ (c \in snapshotReaders <=> c \in snapshotReaders')
  <2>1. lister[c].pc # "none" /\ clientToStores[c] # {}
    BY <1>3 DEF SInv, Listing
  <2>2. \A k \in Requests : ~(addBookmarkEvent(k) /\ ClientOf[k] = c)
    BY <2>1, Registered
  <2>3. CASE p = q
    <3>1. OldestKnown(c, loc)
      BY <2>1, <2>3 DEF OldestInList
    <3> QED BY <1>3, <2>3, <3>1 DEF OldestKnown
  <2>4. ASSUME NEW r \in Regions, Receives(r, c, loc) PROVE OldestKnown(c, loc)'
    <3>1. lister[c].pc = "listed"
      BY <1>1, <2>1, <2>4 DEF Receives, SInv, Listing
    <3>2. q # <<>>
      <4>1. /\ proc[r].event.id \in NodeIds /\ StoreOfNode(proc[r].event.id) \in Stores
            /\ LocOf[StoreOfNode(proc[r].event.id)] = loc
        BY <2>4, EventPlace DEF Receives, OwnStores
      <4> QED BY <2>4, <4>1 DEF Receives, HasQueue, Given
    <3>3. q[1].rv <= lister[c].nodes[q[1].id] \/ Len(q) = LengthOfNodeEventQueue
      BY <2>1, <3>1, <3>2 DEF OldestInList, OldestKnown
    <3>4. CASE Len(q) = LengthOfNodeEventQueue
      <4>1. Len(p) = LengthOfNodeEventQueue
        BY <2>4, <3>4, Received
      <4> QED BY <1>3, <3>1, <4>1 DEF OldestKnown
    <3>5. CASE Len(q) # LengthOfNodeEventQueue
      <4>1. 1 \in 1..Len(q)
        BY <3>2, QueueTyped
      <4>2. p[1] = q[1]
        BY <2>4, <3>5, <4>1, Received
      <4> QED BY <1>3, <3>3, <3>5, <4>2 DEF OldestKnown
    <3> QED BY <3>4, <3>5
  <2> QED BY <2>2, <2>3, <2>4, QueueStep DEF QInv
<1>4. CASE AcquireSnapshotRLock(c)
  <2>1. /\ lister'[c].pc = "snapshot" /\ lister'[c].todo = clientToStores[c]
        /\ allocateLock = None /\ p = q
    BY <1>1, <1>4 DEF AcquireSnapshotRLock, NotListed
  <2>2. \A k \in Requests : ~Allocating(k)
    BY <2>1, RequestAssumption DEF Known, AInv, LockHolder
  <2>3. StoreOfNode(q[1].id) \in clientToStores[c]
    <3>1. Owns(c, StoreOfNode(q[1].id))
      BY <1>2, <2>1 DEF QInv, QueueOfOwn, OwnEvents
    <3> QED BY <2>2, <3>1 DEF Owns
  <2> QED BY <2>1, <2>3 DEF OldestKnown
<1>5. ASSUME NEW s \in Stores, SnapShot(c, s) PROVE OldestKnown(c, loc)'
  <2>1. /\ lister[c].pc = "snapshot" /\ lister'[c].pc = "snapshot"
        /\ lister'[c].todo = lister[c].todo \ {s} /\ p = q
        /\ \A n \in NodeIds : /\ lister[c].nodes[n] <= lister'[c].nodes[n]
                              /\ lister'[c].nodes[n] \in Nat /\ lister[c].nodes[n] \in Nat
                              /\ StoredRV(n) \in Nat
                              /\ StoreOfNode(n) = s /\ StoredRV(n) > 0 =>
                                   lister'[c].nodes[n] = StoredRV(n)
    BY <1>5, Snapped, Versions DEF SInv, Known
  <2>2. OldestKnown(c, loc) /\ Settled(q[1])
    BY <2>1 DEF OldestInList, OldestSettled
  <2>3. CASE StoreOfNode(q[1].id) = s
    <3>1. q[1].rv <= lister'[c].nodes[q[1].id]
      BY <1>2, <2>1, <2>2, <2>3 DEF Settled
    <3> QED BY <2>1, <3>1 DEF OldestKnown
  <2>4. CASE StoreOfNode(q[1].id) # s
    <3>1. StoreOfNode(q[1].id) \in lister'[c].todo \/ q[1].rv <= lister'[c].nodes[q[1].id]
      BY <1>2, <2>1, <2>2, <2>4 DEF OldestKnown
    <3> QED BY <2>1, <3>1 DEF OldestKnown
  <2> QED BY <2>3, <2>4
<1>6. CASE ReleaseSnapshotRLock(c)
  <2>1. /\ lister[c].pc = "snapshot" /\ lister[c].todo = {} /\ p = q
        /\ lister'[c].pc = "listed" /\ lister'[c].nodes = lister[c].nodes
    BY <1>1, <1>6 DEF ReleaseSnapshotRLock
  <2>2. OldestKnown(c, loc)
    BY <2>1 DEF OldestInList
  <2> QED BY <2>1, <2>2 DEF OldestKnown
<1> QED BY <1>3, <1>4, <1>5, <1>6, ListerFrame

(* There is no queue and no event yet.                                     *)
LEMMA InitBInv ==
  ASSUME Init
  PROVE  BInv
<1>1. /\ \A r \in Regions : proc[r].pc = "idle"
      /\ \A c \in Clients : \A loc \in Locations : queues[c][loc] = <<>>
      /\ \A s \in Stores : clientId[s] = None
      /\ \A q \in Requests : registration[q].pc = "start"
      /\ \A c \in Clients : lister[c].pc = "none"
  BY DEF Init, StoreInit, DistInit, Idle, EmptyQueue, NotListed
<1>2. HasQueue /\ FoundThere /\ OldestInList
  BY <1>1, NodeStoreAssumption DEF HasQueue, Given, FoundThere, Pending, OldestInList
<1>3. \A c \in Clients : \A loc \in Locations : DOMAIN queues[c][loc] = {}
  BY <1>1
<1>4. UnsettledLast /\ OldestSettled /\ Ascending
  BY <1>1, <1>3 DEF UnsettledLast, OldestSettled, Ascending
<1> QED BY <1>2, <1>4 DEF BInv

(* The inductive invariant of ListAccepted.                                *)
LEMMA QueueInvariant ==
  ASSUME CollisionFree, OwnStores
  PROVE  Spec => [](Known /\ QInv /\ SInv /\ BInv)
<1>1. ASSUME Known, QInv, SInv, BInv, [Next]_vars PROVE Known' /\ QInv' /\ SInv' /\ BInv'
  <2>1. Known' /\ QInv' /\ SInv'
    BY <1>1, KnownNext, NextQInv, NextSInv
  <2>2. HasQueue' /\ FoundThere' /\ UnsettledLast'
    BY <1>1, <2>1, NextHasQueue, NextFoundThere, NextUnsettledLast DEF BInv
  <2>3. OldestSettled' /\ Ascending' /\ OldestInList'
    BY <1>1, <2>1, NextOldestSettled, NextAscending, NextOldestInList DEF BInv
  <2> QED BY <2>1, <2>2, <2>3 DEF BInv
<1>2. Known /\ QInv /\ SInv /\ BInv /\ [Next]_vars => (Known /\ QInv /\ SInv /\ BInv)'
  BY <1>1
<1>3. Init => Known /\ QInv /\ SInv /\ BInv
  BY InitKnown, InitQInv, InitSInv, InitBInv
<1> QED BY <1>2, <1>3, PTL DEF Spec

(* What the finished list has of the oldest event of a queue.              *)
LEMMA OldestAccepted ==
  ASSUME CollisionFree, Known, QInv, SInv, BInv, NEW c \in Clients, NEW loc \in Locations,
         lister[c].pc # "none", lister[c].todo = {}, queues[c][loc] # <<>>
  PROVE  OldestListed(c, loc) \/ (lister[c].pc = "listed" /\ Overwritten(c, loc))
<1> DEFINE q == queues[c][loc]
           e == q[1]
<1>1. /\ q \in Seq(NodeEvent) /\ DOMAIN q = 1..Len(q) /\ 1 \in DOMAIN q
      /\ \A i \in DOMAIN q : q[i] \in NodeEvent /\ InQueue(c, loc, q[i])
  BY QueueTyped
<1>2. /\ e \in NodeEvent /\ InQueue(c, loc, e) /\ e.id \in NodeIds /\ e.rv \in Nat
      /\ LocOfNode(e.id) = loc
  BY <1>1, EventPlace DEF QInv, QueueOfOwn, OwnEvents
<1>3. /\ lister[c].nodes[e.id] \in Nat /\ ListedRV(c, loc) \in Nat
      /\ lister[c].nodes[e.id] <= ListedRV(c, loc)
  BY <1>2, Versions, ListedIsNewest DEF Known
<1>4. Head(q) = e
  <2> HIDE DEF q
  <2> QED BY <1>1
<1>5. CASE e.rv <= lister[c].nodes[e.id]
  BY <1>2, <1>3, <1>4, <1>5 DEF OldestListed
<1>6. CASE e.rv > lister[c].nodes[e.id]
  <2>1. lister[c].pc = "listed" /\ Len(q) = LengthOfNodeEventQueue
    <3>1. OldestKnown(c, loc)
      BY DEF BInv, OldestInList
    <3>2. ~(e.rv <= lister[c].nodes[e.id])
      BY <1>2, <1>3, <1>6
    <3> QED BY <3>1, <3>2 DEF OldestKnown
  <2>2. e.rv > ListedRV(c, loc)
    <3> HIDE DEF e
    <3> QED BY <1>2, <1>3, <1>6, <2>1, MissingIsNewer DEF QInv, SInv
  <2>3. ASSUME NEW i \in DOMAIN q PROVE q[i].rv > ListedRV(c, loc)
    <3>1. 1 <= i /\ q[i].rv \in Nat
      BY <1>1, EventPlace
    <3>2. e.rv <= q[i].rv
      BY <1>1, <3>1 DEF BInv, Ascending
    <3> QED BY <1>2, <1>3, <2>2, <3>1, <3>2
  <2> QED BY <2>1, <2>3 DEF Overwritten
<1> QED BY <1>2, <1>3, <1>5, <1>6

(* A version that a list returned opens a watch: the queue of its location *)
(* exists by then, and its oldest event, a bookmark at first, was stored   *)
(* before the list call came to its store.  The eviction that a full queue *)
(* makes cannot change that before the call ends, and it never leaves an   *)
(* event at the head that is not stored, since the queue holds more than   *)
(* the two entries that one event may add to it; after the call the        *)
(* version is too old only once the queue is full of newer events.         *)
THEOREM ListAccepted ==
  ASSUME CollisionFree, OwnStores
  PROVE  Spec => []ListedVersionAccepted
<1>1. ASSUME Known, QInv, SInv, BInv PROVE ListedVersionAccepted
  <2> SUFFICES ASSUME NEW c \in Clients, lister[c].pc # "none", lister[c].todo = {},
                      NEW loc \in Locations, ListedRV(c, loc) > 0
               PROVE  /\ queues[c][loc] # <<>>
                      /\ OldestListed(c, loc) \/ (lister[c].pc = "listed" /\ Overwritten(c, loc))
    BY DEF ListedVersionAccepted
  <2>1. PICK n \in NodeIds : LocOfNode(n) = loc /\ lister[c].nodes[n] > 0
    BY <1>1, ListedIsNewest
  <2>2. /\ StoreOfNode(n) \in clientToStores[c] /\ clientToStores[c] \subseteq Stores
        /\ LocOf[StoreOfNode(n)] = loc
    BY <1>1, <2>1 DEF SInv, Listing, Known, TInv, TypeOK, OwnStores
  <2>3. queues[c][loc] # <<>>
    <3>1. clientId[StoreOfNode(n)] = c
      BY <1>1, <2>2 DEF Known, AInv, ListedStores
    <3> QED BY <1>1, <2>2, <3>1 DEF BInv, HasQueue, Given
  <2> QED BY <1>1, <2>3, OldestAccepted
<1> QED BY <1>1, QueueInvariant, PTL

=============================================================================
