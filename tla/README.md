# A verification of the global resource service

TLA+ models, model checking and proofs for the resource management service in
`resource-management/`: the service that collects the compute nodes of many
regions, allots them to clients (schedulers), and keeps every client informed
of what changes on its nodes.

Paths below are relative to `resource-management/`. Names of definitions are
those of the source wherever TLA+ allows it.

## 1. The system

```
 region manager --pull/CRV--> aggregator --ProcessEvents--> distributor
  (one per region)             (one goroutine per region)      |
                                                 hash ring of virtual node stores
                                                               |
                                             NodeEventQueue of a client (ring per location)
                                                               |
 client <--HTTP: register / list / watch-- service API <-------+
                                           distributor --> persistence helper --> Redis
```

| component | state | operations | interacts through |
|---|---|---|---|
| region manager (simulator), `test/resourceRegionMgrSimulator` | nodes, pending events and highest version of each partition | initpull, subsequentpull, posted CRV; a goroutine changes nodes | HTTP; lists and nodes shared by handler and goroutine without a lock |
| aggregator, `pkg/aggregrator` | the composite resource version (CRV) of each region | one endless loop per region: pull, ProcessEvents, post CRV | HTTP; calls the distributor |
| distributor, `pkg/distributor/distributor.go` | client -> event queue, client -> stores, `allocateLock` | RegisterClient, ListNodesForClient, Watch, ProcessEvents | calls from HTTP handlers and aggregator goroutines |
| node store, `distributor/storage/nodestore.go` | ring of virtual node stores, each with its nodes, client and queue; `totalHostNum`; versions processed | ProcessNodeEvents, AssignToClient, SnapShot, bookmarks | store lock `mu`, and the client's `enqueueLock` |
| event queue, `distributor/cache/eventqueue.go` | per location a circular buffer; `watchChan` | EnqueueEvent, Watch, reads since a version | `eqLock`, `enqueueLock`, channels |
| service API, `service-api/endpoints/installer.go` | a buffered channel and a stop channel per watch | registration, list and watch handlers | distributor; chunked HTTP responses |
| persistence helper, `distributor/storage/memorycache.go`, and Redis, `store/redis` | saved nodes, status, clients, assignments | PersistNodes (a goroutine per batch, six attempts), PersistNodeStoreStatus, PersistClient, FlushAll at start-up | a wait group per ProcessEvents call; redis keys shared by all regions and clients |
| locations and hash; metrics | arcs of the ring; latency samples | pure functions | - |
| client SDK, `pkg/clientSdk` | the request being made; a stream watcher and its goroutine; an indexed store | Register, List, Watch, retries, Stop; Add, Update, Delete, Replace, lookups | HTTP; an unbuffered channel of events |
| end-to-end client, `test/e2e/singleClientTest.go` | its id, the list, its store | register, list, store what is listed, watch, store what comes | the SDK |

What is hard about it:

* **Concurrency.** A goroutine per region stores events while handlers
  register clients, snapshot stores and read queues. Two lock orders could meet
  (`enqueueLock` and `mu`); several fields are read without any lock
  (`vNodeStore.eventQueue`, `eq.watchChan`, `nodeEventQueueMap`).
* **Reads in two halves.** An index into the ring is looked up under `eqLock`
  and used after the lock was given up.
* **Ordering.** Every event for a watching client gets a goroutine of its own.
* **Failure.** A response may be lost after the region manager cleared the
  events in it; a client may fail to be saved after its stores were assigned;
  redis fails, or does not say what it stored; the service restarts and has
  forgotten everything; a connection breaks after a request had its effect,
  or in the middle of a list or a stream.
* **Boundaries.** The ring wraps; versions returned by a list must be neither
  too old nor too new for the watch that follows.

What makes the components correct: the ring holds the latest `Length` events of
its location, and a lookup stays meaningful until it is used; no store serves two clients; a
registration is denied or granted in full; the number of hosts that admits
requests is exact; a version acknowledged to a region manager is stored; a
list and the watch that follows it miss nothing between them; a watch replays
what is queued, ends when told to, and leaves the queue to the next one; a
pull loses no change; redis is never ahead of the service's memory, and nodes
come back after a restart; a registration is made once however often a
connection breaks; a client takes a list whole or not at all, and its store
ends up as the service's; a node is kept where its location's store is looked
for.

## 2. Modules

| module | models | composed with |
|---|---|---|
| `BoundedEventLog` | abstract: a log of which the last `Length` events are retained, read atomically | - |
| `EventQueue` | `nodeEventQueueByLoc`: ring, binary search, reads in two halves | refines `BoundedEventLog` |
| `NodeStore` | event processing to the critical section, the locking sequence | used by `Distributor` |
| `AtomicAllocation` | abstract: a request is granted all its stores in one step, or none, and they are shown to the client in another | - |
| `Distributor` | RegisterClient and ListNodesForClient over `NodeStore` | EXTENDS `NodeStore`, refines `AtomicAllocation` |
| `WatchSession` | NodeEventQueue.Watch and EnqueueEvent, relay and delivery goroutines, serverWatch and stopWatch | takes the ring for granted |
| `RegionPull` | the aggregator's loop for a region with the region manager's handler and update goroutine | takes the distributor's answer for granted |
| `HashRing` | arcs of locations, bounds of stores, position and store of a node | - |
| `RingStores` | the distributor whose nodes, stores and locations lie where the ring's formulas put them | EXTENDS `Distributor`, `HashRing` |
| `Persistence` | ProcessEvents as far as redis is concerned: batches, retries, wait group, status, assignments, clients; stop and start of the service | takes ring and queues for granted |
| `ClientRequest` | a request of the SDK: setters, attempts, retries, timeouts, what becomes of the answer | - |
| `ServiceAPI` | the handlers of registration, list and watch as a client sees them, and the stream of a watch | EXTENDS `ClientRequest` |
| `ClientCache` | the indexed store of the SDK | - |
| `ClientSession` | a client's session: calls, stream watcher, the loop that keeps the store | EXTENDS `ServiceAPI`, `ClientCache` |
| `EventQueueProofs`, `DistributorProofs`, `SnapshotProofs`, `WatchSessionProofs`, `RegionPullProofs`, `HashRingProofs`, `PersistenceProofs`, `ClientProofs` | theorems | each EXTENDS the module it is named after; `SnapshotProofs` `DistributorProofs`, `HashRingProofs` `RingStores`, `ClientProofs` `ClientSession` |
| `MC...` | finite instances | - |

**`EventQueue`.** `circularEventQueue`, `startPos` and `endPos` are the
source's. Each critical section of `eqLock` is one action. `reader` is a
call of `getAllEventsSinceResourceVersion` between its two loops: `index` was
looked up in the first, the second uses it while `enqueueEvent` goes on. `history`
is auxiliary. `BoundedEventLog` has neither slots nor halves: the refinement
mapping rebuilds its log from `history`, so `ImplementsLog` says that giving up
the lock in the middle is not observable, but as an out-of-range answer.

**`NodeStore` and `Distributor`.** `proc[r]` is the goroutine of region `r`
with the event it processes. Its steps are those of `addNodeToRing` and
`updateNodeInRing`: look at `vNodeStore.eventQueue` without a lock, enqueue
under `enqueueLock`, take `mu`, write, advance the version. CreateNode of a known
node goes on as an update and UpdateNode of an unknown one as an
addition, as in the code. `registration[q]` is a call of RegisterClient:
selection, bookmarks (one node of each location the stores are of, queued under the location of
that node), one `AssignToClient` per store, the entry in
`clientToStores`, saving the client (which may fail). `lister[c]` is a call of
ListNodesForClient: it holds `enqueueLock` for reading and copies store after store.
A queue is bounded: when it holds `LengthOfNodeEventQueue` events the oldest makes room (`WithEvent`).
Nothing compares the location of a node (`LocationOf`), which its events are queued under, with that
of the store it is kept in (`LocOf`). `fed` is auxiliary: the version of each node's last event.
In `AtomicAllocation` there is no lock, no selection in progress and no store by store assignment.
The refinement mapping gives a selected store to the registering client from
its selection on (`Owner`), so ImplementsAllocation says that nobody can tell the
steps of allocateNodesToClient from one.

**`WatchSession`.** The queue of a location has the entries
`1..queued[loc]`; `version` has the resource version of each. CreateNode of a known node and UpdateNode of
an unknown one reach EnqueueEvent twice, so that an entry may have the version of the one before it
(`NextVersions`). `watch[w]` is a handler, `relay[w]` the goroutine Watch
starts, `watchCh[w]` the buffered channel between them, `delivery[e]` the
goroutine that hands event `e` to whatever `eq.watchChan` is when it runs.

**`RegionPull`.** A pending event *is* its node, for the source keeps
pointers and changes nodes in place; it has the version the node has when
it is looked at. Reading a partition's list (`GetRegionNodeModifiedEventsCRV`), selecting its events one by one
(`SelectEvent`), clearing the list and reading the nodes again for encoding are separate steps, and
the update goroutine may come between any two. `faults` is auxiliary and records that a response to a
subsequent pull was lost or that a change overlapped a request.

**`HashRing`.** The source divides the interval from 0 to `RingRange` in floating
point. The module measures it in positions, `Granularity` of them per virtual
node store, and keeps the source's formulas: a location's arc, a store's
bounds, the compaction of a node's hash into its location's arc
(`getNodeHash`), and the index that `getVirtualNodeStore` computes without looking at
bounds. `RingStores` states that the positions, stores and locations that `Distributor` takes
as constants are these, and StrayOnlyAtArcEnd, what follows for the nodes that are kept. A node lies
anywhere in its arc, both ends included (`RingValue` is 0 to `rpGrain`): the store of the upper end is the first of the
next arc. Only the end of the ring is left out, where the index is out of range and the process panics.
`MCAllocation` is an instance of it.

**`Persistence`.** `call[r]` is a ProcessEvents call of region `r`: its events one
by one, the batch being filled, the wait group (`waiting`), and the copy of the
status it is about to save. `saving[r]` are the goroutines of its batches, each at
a node of its batch with its number of retries. Every write to redis
may fail, with or without having stored, PersistClient's too. `redis` is a record of the keys,
one for all assignments and one for the status of all regions. `Stop` may come
between any two steps; `Run` flushes redis, as NewRedisClient does. `version` is
the region manager's side. `doubtful` is auxiliary: nodes given up on, and nodes that
are in two batches of one call.

**`ClientRequest`, `ServiceAPI`, `ClientSession`, `ClientCache`.** `call` is the
request being made: where it is, how often it was retried, whether the reader of its
body is at the start, whether the service got the body whole, and the answer as
a sequence of JSON documents. Between any two steps the connection may be
reset, end or be refused, the client's timeout may strike, or something in
between may answer with Retry-After. `ServiceAPI` reduces the distributor to what
`Distributor` and `WatchSession` say of it: a list is a snapshot with its version, a
watch replays the events since a version and delivers later ones in any order. `serverWatch`
collects the replay and `OpenStream` opens the stream, without a lock between them: an event in between is
in neither. `missed` is auxiliary: the versions that were lost so, and those of nodes in a chunk
that could not be marshalled or after it. ServiceAPI also has the answers of `installer.go` that a client would not expect: a list of
an unknown client is 200 with no body, a long list is one document per chunk and ends normally after the last one that could be
marshalled, a watch that is refused is never answered. `ClientSession` is the program of
`singleClientTest.go` around `rmsClient.go` and the goroutine of `StreamWatcher`
(`sw`). `ClientCache` is `cache` over `threadSafeMap`; each of its operations
holds the lock throughout and is one action. The session uses it without
indices; the instance lets a second kind of program use it with an index of its own.

## 3. Runs

| run | instance | what it shows |
|---|---|---|
| `event_queue` | ring of 3, 2 nodes, 2 versions, 6 events | the window is bounded and holds the latest events, a lookup stays valid, the bounded log is implemented |
| `allocation` | 2 regions of 2 partitions with 2 stores each, of which 3 stores hold the 3 nodes, one of them where two stores meet and one at the end of its arc; 2 clients, 3 registrations of which 2 for one client | stores are exclusive, grants are full, hosts are counted exactly, acknowledged events are stored, a node strays from the stores of its location at the end of its arc only, and registration implements the atomic allocation |
| `snapshot` | 2 stores of a location holding 3 nodes, 1 client, a queue of 3, 2 further versions | a list returns versions the following watch may resume from and accepts; whoever waits for a lock waits for somebody who runs, and no lock is waited for forever |
| `watch_delivery` | 2 locations, 2 watches, queues of 3 entries and of 2, events queued once or twice | replay is complete when every location has news; one undisturbed watch sends an event as often as it was queued |
| `watch_progress` | 1 location, 2 watches, 2 entries after the bookmark, room in the channel | a served watch stops, its backlog is sent, the queue can be watched again |
| `region_pull` | partitions of 2 and 1 nodes, 2 and 3 further versions | pulling is lossless without the faults named below, and every change arrives once a first pull got through |
| `persistence` | 1 region of 2 nodes, batches of 2, calls of up to 3 events, 1 retry, versions to 4, 1 restart, 1 client, writes that take effect, or not, and are answered with an error | a call returns whatever redis does, and has saved all that was not given up; redis is never ahead of memory; nodes come back after a restart |
| `client` | 2 nodes, versions to 5, chunks of 1, limits 1 and 2, up to 3 attempts, 1 restart, 2 client ids; a store with an index and an object without key | one registration per call, whole bodies, whole lists, a store that never goes back and, but for what the code loses, mirrors the service when nothing is on its way, indices that agree with the store, an end to every session |
| `watch_replay` | as `watch_delivery`, from a list's versions | violation, finding 1 |
| `watch_overlap` | as `watch_progress` | violation, finding 2 |
| `watch_stop` | as `watch_progress`, channel of 1 | violation, finding 3 |
| `failed_registration` | as `snapshot` | violation, finding 4 |

Bounds, and why they are enough:

* *Ring of 3 with 6 events*: it wraps once completely, and any number of
  enqueues up to overwriting everything fits between the halves of a
  read. Versions repeat (2 for 6 events), so that the search meets equal ones.
  The theorems of section 5 lift all these bounds.
* *Three stores, three registrations*: a request over two stores, one over a
  single store, and one of an id already in use compete while nodes arrive; two stores share
  a region and partition in `snapshot`, so a bookmark has a choice of nodes there; in `allocation` one
  store keeps a node of another region, so a bookmark may be queued under a location that no store of the client is of. Two versions per location make
  one node's second event, or two nodes of a location, possible.
  List calls are left out of this instance because they change nothing
  registration reads, and so is the answer to a client that could not be saved, which
  nothing reads; `snapshot` has both.
* *Snapshot*: the initial pull is over in its initial state (all three nodes
  stored, nobody registered), a state that `Distributor` reaches; this leaves
  room for events before, between and after the copies of the two stores. A queue of 3 holds the bookmark and the
  two entries that one event can make, and overflows with the next: the oldest event that is retained moves on during and after a
  list. (`LengthOfNodeEventQueue >= 3` is all the theorem needs; the source's is 10000. With 2 a single event could push out
  everything that was listed.)
* *Watches*: two calls are enough for overlapping and for successive ones. In `watch_delivery` the first location
  has two entries after its bookmark and the second one (`FewEvents`): versions 1, 2, 3 or 1, 2, 2.
  `CalledInOrder` only names the watches in the order of their calls; it is a symmetry
  reduction used with safety properties alone. The resume points are those of
  a list of both locations, of one, and one that is too old.
* *Watch channel*: the source's has a hundred places, the instances' has room for all
  events. When it is full and the handler has left, relay and stopWatch block
  each other; the stated progress properties are therefore about a channel with
  room, and the mutant `RoomForOne` shows that they depend on it.
* *RegionPull*: version 4 lets a partition of two nodes change twice one by one or once as a whole.
  makeDataUpdate publishes any set of a partition's nodes together.
  Updates start only if their versions stay within `MaxRV`.
* *Persistence*: three events in batches of two make a full batch and a rest that are
  saved at the same time, and let one node be in both. One retry is enough for a
  batch that succeeds late and one that is given up: the code's loop does the same
  in each attempt. A second region shares the status with the first and saves it at the same time; with two, the
  liveness properties are out of TLC's reach, and it is the theorem NeverAhead that speaks of any number of regions.
  A write that fails has taken effect by then or never does; one that takes effect after its error is not modelled.
* *Client*: five versions and one node at the start leave four changes to come between
  registration and list, list and watch, or after it, and an overtaken event of each
  node. Chunks of 1 split every list of two nodes unless the limit is 2. Three
  attempts instead of ten: the first, one in the middle and the last. A second
  client id is what a repeated registration would be given.
* CHECK_DEADLOCK is off everywhere: with the bounds spent, and with all
  requests answered, the models come to rest.

Fairness:

* Goroutines and started calls go on when they can (weak fairness): nothing in
  the code parks them but locks and channels, which are modelled.
* `EnqueueEvent` is strongly fair: it waits for a `sync.RWMutex`, which holds
  new readers back while a writer waits, so repeated list calls cannot starve it.
* `stopWatch` is strongly fair: the relay's `select` chooses among ready cases at
  random, so a stop offered for ever is taken although events keep coming.
* In `persistence` a region's call and its saving goroutines go on when they can,
  the aggregator pulls for ever, and a service that is down is started again. That
  redis answers in the end, with an error if need be, is its client's read and
  write timeout (`redis.go:42`).
* In `client` the client's own goroutines go on, its requests go on, and its timeout
  strikes in the end if nothing else ends a call or a stream: `Timeout` sets it for
  the HTTP client. Nothing is asked of the service, so SessionEnds
  holds although the service may never answer.
* Nothing makes clients call, nodes change or requests end. `RequestDone` is not fair.

## 4. Findings

1. **A watch loses queued events** (`watch_replay`). The first loop of
   `getAllEventsSinceResourceVersion` returns at the first location without news
   (`cache/eventqueue.go:213`); what is queued for the others is never sent.
2. **Two watchers of one queue** (`watch_overlap`). Watch tests `eq.watchChan`, reads
   the queues, then sets it, under no lock (`cache/eventqueue.go:160`).
3. **A failed watch never returns** (`watch_stop`). The deferred `stopWatch`
   sends on an unbuffered channel that only a successful Watch has a receiver for
   (`installer.go:305`).
4. **A failed registration keeps its stores** (`failed_registration`). They are
   neither released nor usable again (`distributor.go:86`).

Other places where code and documentation, or the code's two ends, disagree. The
models have the behaviour; no run is spent on it, because the properties that
the runs check hold all the same or name the exception:

* `data/regionNodeEvents.go:38` says that posting the CRV discards old events; they
  are cleared when they are pulled (`:139`), and the handler of the CRV discards nothing.
  NoChangeForgotten therefore excepts lost responses.
* `watch/watch.go:25` says that Stop closes the result channel; `streamwatcher.go:83`
  closes only the source, and the decoder's Close is empty, so that a receiver that has
  something to send stays blocked. SessionEnds excepts stopped watchers.
* `installer.go:383` ends a list that cannot be marshalled further as if it were complete: WriteHeader comes too late, and each chunk has
  the versions of the whole list. With one chunk written the client takes that part for the list. ListAllOrNothing and
  MirrorWhenDrained except exactly what could not be marshalled (`missed`).
* `cache/eventqueue.go:164` reads the queues and `:170` sets `watchChan`, with no lock over both: an event enqueued in between is neither
  replayed nor handed on. MirrorWhenDrained excepts exactly those versions (`missed`).
* `nodestore.go:372` looks at a store's queue without a lock: an event that finds none while AssignToClient sets it is in no
  queue, and a client that lists before the event is stored never hears of it. SnapshotResumable is about queued events.
* `rest/request.go:74` says that a request's error is kept for the end of the
  call; `DoRaw` (`:556`) never looks at it, nor at the status code, so that a list without an
  id is sent and answered with 404, and `List` returns no error.
* `rmsClient.go:146` drops the error of Unmarshal: a list that came in several
  chunks, or for an unknown client, is returned as an empty list without versions. A
  watch with such versions is rejected and not answered, and the test client uses
  the watcher it did not get (`singleClientTest.go:183`). ListAllOrNothing states what is left:
  never a part of a list.
* `request.go:542` logs the seconds of Retry-After and tries again at once.
* The store takes events in the order they arrive and does not compare versions, so that an
  event overtaken on its way leaves an old node behind. MirrorWhenDrained excepts those.
* `memorycache.go:63` gives a batch up without telling anybody. SavedWhenReturned
  excepts its nodes.
* All assignments are saved under one key (`interfaces/store/interface.go:72`); the last client's is there.
* `nodestore.go:44` says that a virtual store can only have nodes from one resource partition, and a store's range is written `(lower, upper]`
  (`:357`), while the computed index puts the upper end into the first store of the next arc. StrayOnlyAtArcEnd
  says that this is the only exception. A list has a version for the location of each node it
  lists, and the bookmarks may leave one of these locations without an entry: the watch that follows is refused. ListAccepted
  therefore assumes that every node is kept in a store of its location (`OwnStores`). At the end of the ring there is no next store, and
  the index is out of range.
* `redis.go:189` decodes all nodes into one variable, so that GetNodes returns one node many
  times. The service does not call it.

## 5. Theorems

All theorems hold for every value of the constants that the modules' named assumptions
admit. TLC evaluates the assumptions in every run.

| theorem | statement |
|---|---|
| `EventQueueProofs!Typing, Window, Contents, Lookup` | `Spec => []` of TypeOK, WindowBounded, WindowHoldsTheLatest, LookupStaysValid |
| `EventQueueProofs!Refinement` | `Spec => ImplementsLog` |
| `DistributorProofs!Typing` | `Spec => []TypeOK` |
| `DistributorProofs!Exclusive` | `Spec => []ExclusiveAssignment` |
| `DistributorProofs!GrantedInFull` | `Spec => []GrantCoversRequest` |
| `DistributorProofs!RegistrationIsAtomic` | `Spec => ImplementsAllocation` |
| `DistributorProofs!NoCircularWait` | `Spec => []NobodyWaitsInACircle` |
| `DistributorProofs!HostsCountedOnce` | if no two nodes have one position, `Spec => []HostCountExact` |
| `DistributorProofs!AcknowledgedIsKept` | if no two nodes have one position, `Spec => []AcknowledgedIsStored` |
| `SnapshotProofs!ListResumes, ListAccepted` | if no two nodes have one position, `Spec => []SnapshotResumable`; if moreover every node is kept in a store of its location, `Spec => []ListedVersionAccepted` |
| `WatchSessionProofs!TypeCorrect, ReplayIsComplete, TwiceNeedsAnotherWatch` | `Spec => []` of TypeOK, ReplayComplete, TwiceOnlyAcrossWatches |
| `RegionPullProofs!PullTyping, PullForgetsNothing, PendingStaysNewer` | `Spec => []` of TypeOK, NoChangeForgotten, PendingIsNewer |
| `HashRingProofs!StoreHoldsItsLocation` | the store of a node's position is of the node's region and partition, and the position lies between its bounds; at the end of the arc it is the first store of the next, and at the end of the ring there is none |
| `HashRingProofs!NodesStrayAtArcEndOnly` | if no two nodes have one position, `Spec => []StrayOnlyAtArcEnd` |
| `PersistenceProofs!NeverAhead` | `Spec => []NothingFromBefore` |
| `PersistenceProofs!WaitingIsCounted, SavedOnReturn` | `Spec => []` of TypeOK, SavedWhenReturned |
| `ClientProofs!IndicesAgree, StoreTyping, IndexIsSound` | `StoreSpec => []` of IndexMatchesItems, StoreTypeOK, IndexedIsStored |
| `ClientProofs!OneRegistration, WholeBodies` | `Spec => []` of RegisteredOnce, BodyArrivesWhole |
| `ClientProofs!SessionTyping, ListIsWhole, Mirror` | `Spec => []` of TypeOK, ListAllOrNothing, MirrorWhenDrained |
| `ClientProofs!MovesForward` | `Spec => StoreMovesForward`, an action property |

Assumptions on constants, besides the types and ranges that every module names: nodes are
finite in number, for they are counted or the largest of their versions is taken; there is a partition; no
watch, event, client or number is `None`, and no watch has the name of a goroutine's state; the client's store has a key and an object for each node.
None of them bounds a size from above; a queue holds 3 events at least, the source's holds 10000. The assumptions with content are `CollisionFree` (no two node ids share
a ring position) and `OwnStores` (every node is kept in a store of its location: by StoreHoldsItsLocation, no node is at the end of its arc),
hypotheses of the theorems that need them and not of the modules.

*Event queue.* The four invariants are proved from one inductive invariant: the window
is `startPos..endPos` with at most `Length` positions, position `i` of it is
`history[i + 1]`, and `history` is ordered by version. The order, an
assumption on region managers (`InOrder`), is what binary search needs. `Lookup`
adds that the index of a read in progress splits the *whole* history at the
version asked for, which later enqueues cannot change; this is also why the
second half of a read maps to the atomic read of the log. What the search
finds is stated by its result (`SearchResults`), so no induction over its steps is needed.

*Exclusive assignment.* ExclusiveAssignment alone is not inductive: the
stores a registration has selected are free only as long as nobody else allocates. `AInv` adds
that a registration past its selection and before its end holds `allocateLock`
(so there is one), that a store's client and queue are the same, that what is
selected and not assigned yet is free and what is assigned is
the registration's own, and that listed stores are assigned.

*Grants.* `GInv` adds that the selected stores cover the request from the moment of
selection. It is preserved because the ring only grows (`RingGrows`:
processing never empties a position), so that the number of hosts in
a fixed set of stores never falls (`CoversStable`).

*Atomic allocation.* Under the mapping, allocateNodesToClient is `Grant`, finishAllocation is `Publish`, a node
put on the ring is `Keep`, and every other step stutters; `StepIsAtomic` has one
case per action. That a grant meets a client without stores and free stores
only is `AInv` and `GInv` once more. What they lack is the converse of ListedStores, `Listed`: a
store that has a client is listed for it, or was selected by the request that holds
`allocateLock`. It makes the client's owned stores exactly what finishAllocation publishes
(`OwnedStores`), and assigning a store to the client that owns it already a stutter (`AssigningIsHidden`).

*Waiting.* NobodyWaitsInACircle is what the liveness runs rest on, for every number of goroutines. A goroutine that
holds `mu` only writes (`Handling`), since the queue is locked before the store; a lock for reading is
held by a snapshot in progress only (`Readers`), which waits for stores and never for a queue; and the registration that holds
`allocateLock` has a node for each bookmark it must make (`SelectedHaveNodes`), because a store without nodes is never
selected and stores keep their nodes (`RingGrows`). TLC finds a circle as soon as the store is locked before the queue.

*Host count.* `HInv` relates an addition in progress to the position it will
fill. `CollisionFree` (no two node ids share a ring position) is needed: on a collision
`addNodeToRing` overwrites the node that is there and counts one more.

*Acknowledged versions.* `KInv` follows an event from processNodeEvent to its
writing. A goroutine has the last event fed of a node of its region
(`LastFed`), so goroutines of two regions never have the same location
(`ApartByRegion`); until it is written, its version is above the one
acknowledged (`NotYetAcknowledged`), which also says that updateNodeInRing hands an event to
addNodeToRing for an empty position only, the case in which addNodeToRing would drop
it otherwise; what is stored is never newer than the last event fed (`Behind`), and is that event
unless a goroutine still has it (`Kept`). At the moment of feeding the first of
these follows from the region manager's order and from `AcknowledgedWasFed`. `HInv` gives the rest: a position that is
taken is taken by the node itself.

*Lists and the watches that follow.* SnapshotResumable is about a list taken store by store while events
arrive. `QInv` says what a client's queues hold: events of its own stores only (`QueueOfOwn`), each of them stored
or in the hands of a goroutine that will store it (`QueuedSettles`), and at the head
something that was stored (`BookmarkStored`), because a bookmark opens a queue. `SInv` says what a list in
progress owes to each queued event: its store is still to be copied, or the list shows the event, or nothing
as new as it, of its location, is stored or past the lock (`NoneAsNew`). The last case is why the lock
matters: while the list holds `enqueueLock` no event enters the queue, so a goroutine that gets to write
a newer version of the location waited before. When the copy is complete, `NoneAsNew` has become
`NewerThanListed`, which is the property.

*Listed versions.* ListedVersionAccepted is about the oldest event a queue retains, which changes when the queue is full. One event is enqueued
twice at most while it is processed (`Handed`, `FoundThere`), and the events of a queue that are not stored yet are its
last ones (`UnsettledLast`); as the queue holds three, the one that becomes the oldest is stored (`OldestSettled`). A location has one
goroutine, which feeds its events in order, so the queue ascends (`Ascending`). While a list is being made it holds `enqueueLock`: nothing is pushed out, and what
is oldest is in a store still to be copied or in the list (`OldestInList`). When the lock is released it is listed, and
from then on the listed version is refused only when a full queue of newer events has come.
`BInv` is the conjunction of these parts. It needs `OwnStores`, for a bookmark opens the queue of its node's location, not of its store's.

*Watches.* `RInv` follows what a watch owes from the index its first loop computes to the list of the second,
the channel, and the client (`Indexed`, `Collected`), if all locations have news; if one has not, the code
drops the rest (finding 1), and nothing is claimed. `CInv` counts the copies of an entry on the way to a watch; an event that was enqueued
twice is two entries. There are two sources, the queue and the entry's own delivery goroutine, each used at most
once (`AtMostTwice`); both can be used for one watch only if the goroutine was started for
another one, because a watch reads the queue before it sets `eq.watchChan` (`NobodyToHand`, `AtMostOnce`).

*Pulls.* `BInv` holds whatever goes wrong: no copy of a version is ahead of the original. `FInv` adds what holds as long as no
response was lost and no change overlapped a pull. A pending change is newer than everything of its
partition on its way, or is itself on its way (`Newer`), hence newer than the CRV when that is posted
(`NewerThanCRV`), so that the handler's selection by version never skips one that is missing. The events are
selected while others are already in the response; that is why `Newer` speaks of responses too.

*Redis.* `PInv` relates what is stored to what every goroutine is about to store: an event
in a batch, and the status a call has copied, are not newer than the memory they were
copied from, and memory only grows while the service runs. That holds whether or not a write that failed had taken effect. Stop empties
memory, and Run redis, before anything is saved again.

*The wait group.* `CInv` counts: `waiting` is the number of events that the call has still to hand to a batch, that are in the
batch being filled, or in the batch of a goroutine that has not ended (`Outstanding`). A call that has seen zero therefore has no goroutine left.

*What a call has saved.* SavedWhenReturned needs to know which of several events of a node is saved
last. `OInv` adds the order: the events of a call increase, and none is behind memory or ahead of the region
manager. `VInv` says where the version in memory of every undoubted node is (`NodeComes`): in the batch
being filled and in no goroutine; or in exactly one goroutine, as its last event of the node,
which has not been passed unless it was stored; or in redis. A node in two batches is doubtful
because two goroutines may then save it in either order. With no batch and no goroutine, only redis is left.

*The client's store.* The index invariant needs that an index that is not in use is empty
(`UnusedAreEmpty`), for AddIndexers may take it into use; AddIndexers refuses when the store has objects.

*The client's requests.* `SInv`: while Register is being made, the service has given
out an id only if the request is past the service, and a request that
was sent is not sent again unless it was turned away before the service saw it (a write is not
retried on a reset); the reader of the body is at its start whenever an attempt begins.

*The client's list.* `LInv`: an answer to a list call without an error, if it is a single document, is everything the service kept at one
moment but for what is in `missed` (`ListAnswer`): a single document is all there was, or the first chunk of a list whose second
could not be marshalled. A list of several chunks is several documents, which do not unmarshal, so that no other part of it
is ever taken. What is still to be stored and what is stored are together that list (`ListHeld`).

*The mirror.* `InTurn` and `Mirroring`, from the collecting of the replay to the end of the stream: of a node no event of which was overtaken, the versions newer than the client's
that are not in `missed`, and no others, are on the stream, in the watcher's hand or with a goroutine yet to deliver them, in
order. When the stream is drained nothing else is newer than what the client has. It begins to hold when the replay is collected, which
is where `ListHeld` is needed: the replay starts at the version the list had.

*Forward only.* The store compares no versions, so that it does not move back is a property of what reaches it.
The invariant is the mirror's, split: `InTurn` keeps the order of what is still to come, whether or not the stream is open, for
a stream that broke is read to its end while the service has gone on or restarted; `Mirroring` adds completeness
while it is open. An event of the stream is therefore newer than what is stored of its node (`ArrivingIsNewer`), and a listed
node is stored once, before any watch (`AddedIsNew`).

*The ring.* Its formulas have no state: arithmetic of quotients and remainders, for every number of
regions, partitions, stores and positions, the ends of arcs included. NodesStrayAtArcEndOnly carries the result to the distributor: where nodes are is
arithmetic, and what a client's queue holds is `QueueOfOwn` of the list theorems, that events in it are of nodes in the client's own stores.

Only model-checked: everything under fairness (ListReturns, EventIsProcessed,
RunningWatchStops, BacklogIsSent, WatchIsRenewable, ChangesArrive, CallReturns,
NodesComeBack, SessionEnds). Liveness from weak and strong fairness, and ENABLED, are beyond
the proof system. The properties of the four runs that expect a violation are false, and TLC shows why. Every other
property that a run checks is a theorem.

## 6. Abstractions

* Nodes are identifiers with a version; labels, resources and taints do not matter
  to any property. In `NodeStore` a position on the ring is an element of `Hashes`, and the
  maps from node to position, to store and to location are constants; `HashRing` computes them.
* `HashRing` is exact where the source rounds; the source's own correction of
  rounding is then without effect. The hash of a node id is any position of its arc.
* `Persistence` gives a region one partition and leaves out the stores of clients. Nil events and events of
  other types than Added and Modified are left out: no region manager of the repository makes any (the simulator builds the two types only,
  `data/regionNodeEvents.go:174, 207, 258`).
  Encoding does not fail.
* `ServiceAPI` has one client, one location, and the versions of its nodes as a log. A restarted service
  is sent all nodes again at once, with the versions they have at the region manager.
* A JSON body is a sequence of documents; it unmarshals if there is exactly one. A
  stream is a sequence of versions and the way it ends. An event that was enqueued twice comes once: it would only be stored again.
* Region managers number the changes of a location in increasing order
  (`NextForLocation`, `InOrder`). The simulator can break this: it changes
  nodes under pending events. `RegionPull` has that behaviour and does not
  assume the order.
* The allocation counts the hosts of a selection in one step; the source counts store
  by store. Stores only gain hosts, so the sum it reaches is never more than what is there
  at the end, and every selection of the source is one of the model's at some moment. This interleaving is argued, not explored.
* `EnqueueEvent` is one action in `Distributor`, whose clients do not watch; `WatchSession` opens it up.
* A request's body can be sought back to its start: every body of the repository is a byte slice or a `bytes.Reader`. The branches of `doRequest`
  for other bodies (`rest/request.go:533-540`) are therefore left out.
* Only something between client and service answers with Retry-After, and then the service has not seen the request: no handler
  of the service sets that header. `doRequest` would send a POST again after any 429 or 5xx answer that has it.
* What is excepted because the code really loses it: RegionPull's properties hold without lost responses and overlapping changes (`faults`),
  SavedWhenReturned without nodes given up on or in two batches (`doubtful`), MirrorWhenDrained and StoreMovesForward without overtaken nodes (`overtaken`), SessionEnds
  without stopped watchers.
* In `WatchSession` the ring does not wrap (that is `EventQueue`), and the locations
  of a queue are those the client may name.
* `RegionPull` replaces the distributor by what `GetCurrentResourceVersions` promises: the
  highest version stored for each partition. It takes the partitions of a response in
  any order. Regions do not share anything there.
* The Go map `nodeEventQueueMap` is read without a lock in ListNodesForClient and
  Watch while registration writes it. A concurrent read and write ends a Go
  process; the models have no such end. Neither have they the nil
  dereference the simulator's update goroutine risks between test and use of a list.
* Some definitions are marked as deliberately wrong variants. They stand before
  the definition they vary, belong to no specification, and serve to
  show that each property can fail.

## 7. Not modelled, and what is left

* `common-lib/metrics` and `event_metrics.go`: latencies for a report in the log.
* `clientSdk/tools/sets`: generated set types; `clientSdk/util`, URLs, TLS and rate
  limiting of `rest`: adapters without state of their own.
* The reads of `redis.go` (GetNodes, GetNodeStoreStatus, GetVirtualNodesAssignments, GetClient ...): the service
  never reads back what it saved.
* Release, DeleteNode, GetNode of the node store, update and delete of a client in the API: not called, or stubs.
* Command line, configuration, logging and JSON formatting.

What could be added: a refinement of a versioned feed by `WatchSession` and of an abstract bounded pull by `RegionPull`; a variant of `EventQueue` that is fed out of order, as the
simulator's shared nodes may; a second client in `ServiceAPI`.
