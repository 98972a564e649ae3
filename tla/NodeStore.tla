------------------------------ MODULE NodeStore ------------------------------
(***************************************************************************)
(* The virtual node stores of the hash ring and the processing of node     *)
(* events (distributor/storage/nodestore.go), down to the critical         *)
(* sections of enqueueLock and of a store's mu.                            *)
(*                                                                         *)
(* One aggregator goroutine per region calls ProcessEvents, so a region is *)
(* a process; it handles one event at a time, in several steps, while      *)
(* other goroutines register clients and take snapshots.                   *)
(***************************************************************************)
EXTENDS Integers, FiniteSets, Sequences

CONSTANTS
  Regions,     \* one aggregator goroutine each
  Locations,   \* resource partitions of regions
  Stores,      \* virtual node stores
  Hashes,      \* positions on the ring that nodes are kept at
  NodeIds,
  Clients,
  RegionOf,    \* location -> region
  LocationOf,  \* node -> its location
  LocOf,       \* store -> the location it was generated for
  StoreOf,     \* position -> store
  HashOf,      \* node -> position
  LengthOfNodeEventQueue,
  MaxRV,       \* bound on the resource versions a region manager hands out
  None         \* nil

(* The queue of a location holds more than the two entries that the        *)
(* processing of one event can add to it: 10000 in the code.               *)
ASSUME NodeStoreAssumption ==
  /\ RegionOf \in [Locations -> Regions]
  /\ LocationOf \in [NodeIds -> Locations]
  /\ LocOf \in [Stores -> Locations]
  /\ StoreOf \in [Hashes -> Stores]
  /\ HashOf \in [NodeIds -> Hashes]
  /\ IsFiniteSet(Hashes)
  /\ LengthOfNodeEventQueue \in Nat /\ LengthOfNodeEventQueue >= 3
  /\ MaxRV \in Nat
  /\ None \notin Clients

(* Definitions named after what is wrong with them are deliberately wrong  *)
(* variants of the definition that follows them; none is part of the       *)
(* specification.                                                          *)

NodeEvent == [type : {"Added", "Modified", "Bookmark"}, id : NodeIds, rv : 1..MaxRV]
NoNode == [rv |-> 0]
RVs == 0..MaxRV

(* Nothing compares the location of a node, which its events are queued    *)
(* under, with that of the store its position leads to.                    *)
StoreOfNode(n) == StoreOf[HashOf[n]]
LocOfNode(n) == LocationOf[n]

VARIABLES
  nodeEventByHash,  \* position -> the event last stored there, or NoNode
  clientId,         \* store -> the client it is assigned to, or None
  eventQueue,       \* store -> the client whose queue it feeds, or None
  queues,           \* client -> location -> events of its NodeEventQueue
  snapshotReaders,  \* clients whose enqueueLock a snapshot holds for reading
  totalHostNum,
  currentRVs,       \* location -> latest resource version processed
  proc,             \* region -> where its goroutine is with which event
  fed               \* node -> resource version of its last event (auxiliary)

storeVars == <<nodeEventByHash, clientId, eventQueue, queues, snapshotReaders,
               totalHostNum, currentRVs, proc, fed>>

Idle == [pc |-> "idle", op |-> None, create |-> FALSE, event |-> NoNode,
         queue |-> None, locked |-> FALSE]

EmptyQueue == [loc \in Locations |-> <<>>]

StoreInit ==
  /\ nodeEventByHash = [h \in Hashes |-> NoNode]
  /\ clientId = [s \in Stores |-> None]
  /\ eventQueue = [s \in Stores |-> None]
  /\ queues = [c \in Clients |-> EmptyQueue]
  /\ snapshotReaders = {}
  /\ totalHostNum = 0
  /\ currentRVs = [loc \in Locations |-> 0]
  /\ proc = [r \in Regions |-> Idle]
  /\ fed = [n \in NodeIds |-> 0]

(* The nodes kept in a set of stores.                                      *)
Hosts(S) == {h \in Hashes : StoreOf[h] \in S /\ nodeEventByHash[h] # NoNode}
GetHostNum(s) == Cardinality(Hosts({s}))

(* mu of store s is held for writing.                                      *)
MuHeld(s) == \E r \in Regions : proc[r].locked /\ StoreOfNode(proc[r].event.id) = s

-----------------------------------------------------------------------------
(* Processing an event.                                                    *)

(* A region manager numbers the changes of one location in order.          *)
LatestFed(loc) == {fed[n] : n \in {m \in NodeIds : LocOfNode(m) = loc}}
NextForLocation(e) == \A rv \in LatestFed(LocOfNode(e.id)) : e.rv > rv

(* An event of another type than the two is only logged: nothing changes.  *)
processNodeEvent(r, e) ==
  /\ proc[r].pc = "idle"
  /\ RegionOf[LocOfNode(e.id)] = r
  /\ e.type # "Bookmark"
  /\ NextForLocation(e)
  /\ proc' = [proc EXCEPT ![r] =
                [Idle EXCEPT !.pc = "check", !.event = e, !.create = (e.type = "Added"),
                             !.op = IF e.type = "Added" THEN "add" ELSE "update"]]
  /\ fed' = [fed EXCEPT ![e.id] = e.rv]
  /\ UNCHANGED <<nodeEventByHash, clientId, eventQueue, queues, snapshotReaders,
                 totalHostNum, currentRVs>>

(* The locking sequence: the queue first, the store afterwards.            *)
StoreBeforeQueue(pc, queue) ==
  IF pc = "check" THEN "lock" ELSE IF pc = "lock" /\ queue # None THEN "enqueue" ELSE "write"
NextLock(pc, queue) ==
  IF pc = "check" /\ queue # None THEN "enqueue" ELSE IF pc = "lock" THEN "write" ELSE "lock"

(* vNodeStore.eventQueue is looked at without a lock.                      *)
checkQueue(r) ==
  /\ proc[r].pc = "check"
  /\ LET queue == eventQueue[StoreOfNode(proc[r].event.id)] IN
       proc' = [proc EXCEPT ![r].queue = queue, ![r].pc = NextLock("check", queue)]
  /\ UNCHANGED <<nodeEventByHash, clientId, eventQueue, queues, snapshotReaders,
                 totalHostNum, currentRVs, fed>>

(* The queue of a location: when it is full the oldest event makes room.   *)
OneSlotUnused(q, e) ==
  IF Len(q) = LengthOfNodeEventQueue - 1 THEN Append(Tail(q), e) ELSE Append(q, e)
WithEvent(q, e) ==
  IF Len(q) = LengthOfNodeEventQueue THEN Append(Tail(q), e) ELSE Append(q, e)

AlwaysFree(c) == c \in Clients
EnqueueLockFree(c) == c \notin snapshotReaders

EnqueueEvent(r) ==
  /\ proc[r].pc = "enqueue"
  /\ EnqueueLockFree(proc[r].queue)
  /\ queues' = [queues EXCEPT ![proc[r].queue][LocOfNode(proc[r].event.id)] =
                  WithEvent(@, proc[r].event)]
  /\ proc' = [proc EXCEPT ![r].pc = NextLock("enqueue", proc[r].queue)]
  /\ UNCHANGED <<nodeEventByHash, clientId, eventQueue, snapshotReaders,
                 totalHostNum, currentRVs, fed>>

lockStore(r) ==
  /\ proc[r].pc = "lock"
  /\ ~MuHeld(StoreOfNode(proc[r].event.id))
  /\ proc' = [proc EXCEPT ![r].locked = TRUE, ![r].pc = NextLock("lock", proc[r].queue)]
  /\ UNCHANGED <<nodeEventByHash, clientId, eventQueue, queues, snapshotReaders,
                 totalHostNum, currentRVs, fed>>

Stored(e) == nodeEventByHash[HashOf[e.id]]
Occupied(e) == Stored(e) # NoNode
SameVersion(e) == Occupied(e) /\ Stored(e).rv = e.rv
SameNode(e) == Occupied(e) /\ Stored(e).id = e.id

(* The rest of addNodeToRing, mu held.  A position taken by another node   *)
(* is overwritten; a node that is there already is left to updateNodeInRing*)
(* by CreateNode, and to nobody otherwise.                                 *)
addNodeToRing(r) ==
  LET e == proc[r].event IN
  /\ proc[r].pc = "write" /\ proc[r].op = "add"
  /\ IF SameNode(e)
     THEN /\ proc' = [proc EXCEPT ![r].locked = FALSE, ![r].op = "update",
                                  ![r].pc = IF proc[r].create THEN "check" ELSE "rv"]
          /\ UNCHANGED <<nodeEventByHash, totalHostNum>>
     ELSE /\ nodeEventByHash' = [nodeEventByHash EXCEPT ![HashOf[e.id]] = e]
          /\ totalHostNum' = totalHostNum + 1
          /\ proc' = [proc EXCEPT ![r].locked = FALSE, ![r].pc = "rv"]
  /\ UNCHANGED <<clientId, eventQueue, queues, snapshotReaders, currentRVs, fed>>

NewerByTwo(old, new) == old.rv + 1 < new.rv
Newer(old, new) == old.rv < new.rv

(* The rest of updateNodeInRing, mu held.  An unknown node is handed to    *)
(* addNodeToRing, which looks for a queue once more.                       *)
updateNodeInRing(r) ==
  LET e == proc[r].event IN
  /\ proc[r].pc = "write" /\ proc[r].op = "update"
  /\ proc' = [proc EXCEPT ![r].locked = FALSE,
                          ![r].create = FALSE,
                          ![r].op = IF Occupied(e) THEN "update" ELSE "add",
                          ![r].pc = IF Occupied(e) THEN "rv" ELSE "check"]
  /\ nodeEventByHash' = IF SameNode(e) /\ Newer(Stored(e), e)
                        THEN [nodeEventByHash EXCEPT ![HashOf[e.id]] = e]
                        ELSE nodeEventByHash
  /\ UNCHANGED <<clientId, eventQueue, queues, snapshotReaders, totalHostNum, currentRVs, fed>>

updateResourceVersion(r) ==
  LET e == proc[r].event
      loc == LocOfNode(e.id) IN
  /\ proc[r].pc = "rv"
  /\ currentRVs' = [currentRVs EXCEPT ![loc] = IF @ < e.rv THEN e.rv ELSE @]
  /\ proc' = [proc EXCEPT ![r] = Idle]
  /\ UNCHANGED <<nodeEventByHash, clientId, eventQueue, queues, snapshotReaders,
                 totalHostNum, fed>>

(* What ProcessEvents does apart from EnqueueEvent.                        *)
ProcessLocally(r) ==
  \/ \E e \in NodeEvent : processNodeEvent(r, e)
  \/ checkQueue(r)
  \/ lockStore(r)
  \/ addNodeToRing(r)
  \/ updateNodeInRing(r)
  \/ updateResourceVersion(r)

(* Once it has an event a goroutine keeps going.  EnqueueEvent waits for a *)
(* sync.RWMutex, which keeps new readers out while a writer waits.         *)
ProcessFairness ==
  \A r \in Regions :
    /\ WF_storeVars(checkQueue(r) \/ lockStore(r) \/ addNodeToRing(r)
                      \/ updateNodeInRing(r) \/ updateResourceVersion(r))
    /\ SF_storeVars(EnqueueEvent(r))
=============================================================================
