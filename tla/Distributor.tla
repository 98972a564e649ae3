----------------------------- MODULE Distributor -----------------------------
(***************************************************************************)
(* The resource distributor (distributor/distributor.go) on top of the     *)
(* node store: client registration, which allocates virtual node stores    *)
(* under allocateLock, and the list call, which takes a snapshot of a      *)
(* client's stores while the regions' goroutines keep processing events.   *)
(***************************************************************************)
EXTENDS NodeStore

CONSTANTS
  Requests,               \* registration calls
  ClientOf,               \* request -> the client id it registers
  RequestedHostNum,       \* request -> TotalMachines
  MinimalRequestHostNum

ASSUME RequestAssumption ==
  /\ ClientOf \in [Requests -> Clients]
  /\ RequestedHostNum \in [Requests -> Nat]
  /\ MinimalRequestHostNum \in Nat
  /\ None \notin Requests

VARIABLES
  nodeEventQueueMap,  \* clients that have an event queue
  clientToStores,     \* client -> its stores, {} when it has no entry
  allocateLock,       \* the request that holds it for writing, or None
  registration,       \* request -> where RegisterClient is, and what it selected
  lister              \* client -> the list call in progress or last completed

distVars == <<nodeEventQueueMap, clientToStores, allocateLock, registration, lister>>
vars == <<storeVars, distVars>>

RegistrationSteps ==
  {"start", "denied", "bookmark", "assign", "persist", "registered", "failed"}
NotListed == [pc |-> "none", todo |-> {}, nodes |-> [n \in NodeIds |-> 0]]

DistInit ==
  /\ nodeEventQueueMap = {}
  /\ clientToStores = [c \in Clients |-> {}]
  /\ allocateLock = None
  /\ registration = [q \in Requests |-> [pc |-> "start", selected |-> {}, todo |-> {}]]
  /\ lister = [c \in Clients |-> NotListed]

Init == StoreInit /\ DistInit

-----------------------------------------------------------------------------
(* Registration.                                                           *)

Admissible(q) ==
  /\ RequestedHostNum[q] > MinimalRequestHostNum
  /\ RequestedHostNum[q] <= totalHostNum
  /\ RequestedHostNum[q] <= Cardinality(Hosts(Stores))
  /\ ClientOf[q] \notin nodeEventQueueMap
  /\ clientToStores[ClientOf[q]] = {}

AnyNonEmptyStore == {s \in Stores : GetHostNum(s) > 0}
FreeStores == {s \in Stores : clientId[s] = None /\ GetHostNum(s) > 0}

(* Free stores are taken in the random order of a Go map until they hold   *)
(* enough hosts.                                                           *)
OneHostShort(q) ==
  {S \in SUBSET FreeStores :
     /\ S # {}
     /\ Cardinality(Hosts(S)) + 1 >= RequestedHostNum[q]}
Selections(q) ==
  {S \in SUBSET FreeStores :
     /\ Cardinality(Hosts(S)) >= RequestedHostNum[q]
     /\ \E last \in S : Cardinality(Hosts(S \ {last})) < RequestedHostNum[q]}

LockNotTaken(q) == q \in Requests
AllocateLockFree(q) == allocateLock = None

deny(q) ==
  /\ registration[q].pc = "start"
  /\ AllocateLockFree(q)
  /\ ~Admissible(q) \/ Selections(q) = {}
  /\ registration' = [registration EXCEPT ![q].pc = "denied"]
  /\ UNCHANGED <<storeVars, nodeEventQueueMap, clientToStores, allocateLock, lister>>

allocateNodesToClient(q) ==
  /\ registration[q].pc = "start"
  /\ AllocateLockFree(q)
  /\ Admissible(q)
  /\ \E S \in Selections(q) :
       registration' = [registration EXCEPT ![q] = [pc |-> "bookmark", selected |-> S, todo |-> S]]
  /\ allocateLock' = q
  /\ UNCHANGED <<storeVars, nodeEventQueueMap, clientToStores, lister>>

(* The bookmark of a location is made from some node of some selected      *)
(* store there.                                                            *)
UnversionedBookmarks(S, loc) ==
  {[type |-> "Bookmark", id |-> nodeEventByHash[h].id, rv |-> 0] :
     h \in Hosts({s \in S : LocOf[s] = loc})}
BookmarkAtProcessedRV(S, loc) ==
  {[type |-> "Bookmark", id |-> nodeEventByHash[h].id, rv |-> currentRVs[loc]] :
     h \in Hosts({s \in S : LocOf[s] = loc})}
BookmarksOf(S, loc) ==
  {[type |-> "Bookmark", id |-> nodeEventByHash[h].id, rv |-> nodeEventByHash[h].rv] :
     h \in Hosts({s \in S : LocOf[s] = loc})}

(* Stores come in any order, and a bookmark is queued under the location   *)
(* of its node.                                                            *)
InSomeOrder(B) ==
  {s \in [1..Cardinality(B) -> B] : \A b \in B : \E i \in DOMAIN s : s[i] = b}
QueuedUnder(bookmark, loc) ==
  {b \in {bookmark[l] : l \in DOMAIN bookmark} : LocOfNode(b.id) = loc}

addBookmarkEvent(q) ==
  LET S == registration[q].selected
      locs == {LocOf[s] : s \in S} IN
  /\ registration[q].pc = "bookmark"
  /\ nodeEventQueueMap' = nodeEventQueueMap \cup {ClientOf[q]}
  /\ \E bookmark \in [locs -> UNION {BookmarksOf(S, loc) : loc \in locs}] :
       /\ \A loc \in locs : bookmark[loc] \in BookmarksOf(S, loc)
       /\ \E queue \in [Locations -> UNION {InSomeOrder(QueuedUnder(bookmark, loc)) : loc \in Locations}] :
            /\ \A loc \in Locations : queue[loc] \in InSomeOrder(QueuedUnder(bookmark, loc))
            /\ queues' = [queues EXCEPT ![ClientOf[q]] = queue]
  /\ registration' = [registration EXCEPT ![q].pc = "assign"]
  /\ UNCHANGED <<nodeEventByHash, clientId, eventQueue, snapshotReaders, totalHostNum,
                 currentRVs, proc, fed, clientToStores, allocateLock, lister>>

(* mu is not taken: an event being processed may see either queue.         *)
AssignToClient(q, s) ==
  /\ registration[q].pc = "assign" /\ s \in registration[q].todo
  /\ IF clientId[s] # None
     THEN UNCHANGED <<clientId, eventQueue>>
     ELSE /\ clientId' = [clientId EXCEPT ![s] = ClientOf[q]]
          /\ eventQueue' = [eventQueue EXCEPT ![s] = ClientOf[q]]
  /\ registration' = [registration EXCEPT ![q].todo = @ \ {s}]
  /\ UNCHANGED <<nodeEventByHash, queues, snapshotReaders, totalHostNum, currentRVs, proc, fed,
                 nodeEventQueueMap, clientToStores, allocateLock, lister>>

finishAllocation(q) ==
  /\ registration[q].pc = "assign" /\ registration[q].todo = {}
  /\ clientToStores' = [clientToStores EXCEPT ![ClientOf[q]] = registration[q].selected]
  /\ allocateLock' = None
  /\ registration' = [registration EXCEPT ![q].pc = "persist"]
  /\ UNCHANGED <<storeVars, nodeEventQueueMap, lister>>

(* Whether or not the client could be saved, what was allocated stays.     *)
PersistClient(q) ==
  /\ registration[q].pc = "persist"
  /\ \E result \in {"registered", "failed"} :
       registration' = [registration EXCEPT ![q].pc = result]
  /\ UNCHANGED <<storeVars, nodeEventQueueMap, clientToStores, allocateLock, lister>>

RegisterClient(q) ==
  \/ deny(q)
  \/ allocateNodesToClient(q)
  \/ addBookmarkEvent(q)
  \/ \E s \in Stores : AssignToClient(q, s)
  \/ finishAllocation(q)
  \/ PersistClient(q)

-----------------------------------------------------------------------------
(* The list call.                                                          *)

AcquireSnapshotRLock(c) ==
  /\ lister[c].pc # "snapshot"
  /\ allocateLock = None
  /\ clientToStores[c] # {}
  /\ lister' = [lister EXCEPT ![c] = [NotListed EXCEPT !.pc = "snapshot",
                                                       !.todo = clientToStores[c]]]
  /\ snapshotReaders' = snapshotReaders \cup {c}
  /\ UNCHANGED <<nodeEventByHash, clientId, eventQueue, queues, totalHostNum, currentRVs, proc,
                 fed, nodeEventQueueMap, clientToStores, allocateLock, registration>>

(* The versions listed so far with those of the nodes kept in s.           *)
WithStore(nodes, s) ==
  [n \in NodeIds |-> IF HashOf[n] \in Hosts({s}) /\ nodeEventByHash[HashOf[n]].id = n
                     THEN nodeEventByHash[HashOf[n]].rv ELSE nodes[n]]

SnapShot(c, s) ==
  /\ lister[c].pc = "snapshot" /\ s \in lister[c].todo
  /\ ~MuHeld(s)
  /\ lister' = [lister EXCEPT ![c] = [pc |-> "snapshot", todo |-> @.todo \ {s},
                                      nodes |-> WithStore(@.nodes, s)]]
  /\ UNCHANGED <<storeVars, nodeEventQueueMap, clientToStores, allocateLock, registration>>

ReleaseSnapshotRLock(c) ==
  /\ lister[c].pc = "snapshot" /\ lister[c].todo = {}
  /\ lister' = [lister EXCEPT ![c].pc = "listed"]
  /\ snapshotReaders' = snapshotReaders \ {c}
  /\ UNCHANGED <<nodeEventByHash, clientId, eventQueue, queues, totalHostNum, currentRVs, proc,
                 fed, nodeEventQueueMap, clientToStores, allocateLock, registration>>

(* The resource version the list call returns for a location: the newest   *)
(* among the nodes it returns, 0 when it returns none.                     *)
ListedRV(c, loc) ==
  LET rvs == {lister[c].nodes[n] : n \in {m \in NodeIds : LocOfNode(m) = loc}} \cup {0} IN
  CHOOSE rv \in rvs : \A other \in rvs : other <= rv

ListNodesForClient(c) ==
  \/ AcquireSnapshotRLock(c)
  \/ \E s \in Stores : SnapShot(c, s)
  \/ ReleaseSnapshotRLock(c)

ProcessEvents(r) ==
  /\ ProcessLocally(r) \/ EnqueueEvent(r)
  /\ UNCHANGED distVars

Next ==
  \/ \E r \in Regions : ProcessEvents(r)
  \/ \E q \in Requests : RegisterClient(q)
  \/ \E c \in Clients : ListNodesForClient(c)

Spec == Init /\ [][Next]_vars

(* A call that has started is carried on by its goroutine.                 *)
FairNext ==
  /\ [][Next]_vars
  /\ ProcessFairness
  /\ \A c \in Clients : WF_vars((\E s \in Stores : SnapShot(c, s)) \/ ReleaseSnapshotRLock(c))

-----------------------------------------------------------------------------
(* Every variable has its type.                                            *)
TypeOK ==
  /\ nodeEventByHash \in [Hashes -> NodeEvent \cup {NoNode}]
  /\ clientId \in [Stores -> Clients \cup {None}]
  /\ eventQueue \in [Stores -> Clients \cup {None}]
  /\ queues \in [Clients -> [Locations -> Seq(NodeEvent)]]
  /\ snapshotReaders \subseteq Clients
  /\ totalHostNum \in Nat
  /\ currentRVs \in [Locations -> RVs]
  /\ proc \in [Regions -> [pc : {"idle", "check", "enqueue", "lock", "write", "rv"},
                           op : {"add", "update", None}, create : BOOLEAN,
                           event : NodeEvent \cup {NoNode},
                           queue : Clients \cup {None}, locked : BOOLEAN]]
  /\ fed \in [NodeIds -> RVs]
  /\ nodeEventQueueMap \subseteq Clients
  /\ clientToStores \in [Clients -> SUBSET Stores]
  /\ allocateLock \in Requests \cup {None}
  /\ registration \in [Requests -> [pc : RegistrationSteps, selected : SUBSET Stores,
                                    todo : SUBSET Stores]]
  /\ lister \in [Clients -> [pc : {"none", "snapshot", "listed"}, todo : SUBSET Stores,
                             nodes : [NodeIds -> RVs]]]

(* No store serves two clients: the stores a client lists are assigned to  *)
(* it and feed its queue, however registrations interleave.                *)
ExclusiveAssignment ==
  \A c \in Clients : \A s \in clientToStores[c] : clientId[s] = c /\ eventQueue[s] = c

(* A client's stores hold at least the hosts it asked for, from the moment *)
(* it is allocated them on ("granted in full").                            *)
GrantCoversRequest ==
  \A q \in Requests :
    registration[q].pc \in {"persist", "registered", "failed"} =>
      Cardinality(Hosts(clientToStores[ClientOf[q]])) >= RequestedHostNum[q]

(* "Either denied or granted in full": a client whose registration was     *)
(* answered with an error holds no stores.                                 *)
DeniedHoldsNothing ==
  \A q \in Requests : registration[q].pc = "failed" => clientToStores[ClientOf[q]] = {}

(* totalHostNum, which admits or denies requests, is the number of nodes   *)
(* kept.                                                                   *)
HostCountExact == totalHostNum = Cardinality(Hosts(Stores))

(* The resource version a region manager is told never runs ahead of the   *)
(* store: a node's last event that is acknowledged is the one kept.        *)
AcknowledgedIsStored ==
  \A n \in NodeIds :
    (fed[n] > 0 /\ fed[n] <= currentRVs[LocOfNode(n)]) => nodeEventByHash[HashOf[n]].rv = fed[n]

(* A client may go on from a list with the resource versions it returned:  *)
(* an event in its queue that is missing from the list is newer than the   *)
(* version of its location, so that a watch since that version replays it. *)
SnapshotResumable ==
  \A c \in Clients : lister[c].pc = "listed" =>
    \A loc \in Locations : \A i \in DOMAIN queues[c][loc] :
      LET e == queues[c][loc][i] IN
      lister[c].nodes[e.id] < e.rv => e.rv > ListedRV(c, loc)

(* The versions a list returns are ones a watch accepts: when its last     *)
(* store is copied, the oldest event retained for a location is not newer  *)
(* than what is listed there; and later it is refused as too old only when *)
(* the queue has been filled by newer events alone.                        *)
OldestListed(c, loc) == Head(queues[c][loc]).rv <= ListedRV(c, loc)
Overwritten(c, loc) ==
  /\ Len(queues[c][loc]) = LengthOfNodeEventQueue
  /\ \A i \in DOMAIN queues[c][loc] : queues[c][loc][i].rv > ListedRV(c, loc)
ListedVersionAccepted ==
  \A c \in Clients : lister[c].pc # "none" /\ lister[c].todo = {} =>
    \A loc \in Locations : ListedRV(c, loc) > 0 =>
      /\ queues[c][loc] # <<>>
      /\ OldestListed(c, loc) \/ (lister[c].pc = "listed" /\ Overwritten(c, loc))

(* Whoever waits for a lock waits for somebody who runs, or waits for such *)
(* a one: the processing of an event for a snapshot's enqueueLock, the     *)
(* snapshot for the mu of a store, the holder of a mu for nobody; and the  *)
(* registration that holds allocateLock can go on.                         *)
EventWaits(r) ==
  \/ proc[r].pc = "enqueue" /\ ~EnqueueLockFree(proc[r].queue)
  \/ proc[r].pc = "lock" /\ MuHeld(StoreOfNode(proc[r].event.id))
AllocationGoesOn(q) ==
  \/ registration[q].pc = "assign"
  \/ /\ registration[q].pc = "bookmark"
     /\ \A s \in registration[q].selected : BookmarksOf(registration[q].selected, LocOf[s]) # {}
NobodyWaitsInACircle ==
  /\ \A r \in Regions : proc[r].locked => ~EventWaits(r)
  /\ \A c \in snapshotReaders : lister[c].pc = "snapshot"
  /\ allocateLock # None => AllocationGoesOn(allocateLock)

(* Registration by several steps, some of them outside every lock but      *)
(* allocateLock, shows as if the stores were granted at once: a store      *)
(* belongs to the client from the moment it is selected, although its      *)
(* clientId is set later.                                                  *)
Owner ==
  [s \in Stores |->
     IF clientId[s] = None /\ allocateLock # None /\ s \in registration[allocateLock].selected
     THEN ClientOf[allocateLock] ELSE clientId[s]]
Allocation == INSTANCE AtomicAllocation WITH
                kept <- Hosts(Stores), owner <- Owner, visible <- clientToStores
ImplementsAllocation == Allocation!AllocSpec

(* No locking order makes the goroutines wait on each other: a list call   *)
(* ends, and so does the processing of an event.                           *)
ListReturns == \A c \in Clients : lister[c].pc = "snapshot" ~> lister[c].pc = "listed"
EventIsProcessed == \A r \in Regions : proc[r].pc = "enqueue" ~> proc[r].pc = "idle"
=============================================================================
