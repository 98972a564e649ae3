----------------------------- MODULE Persistence -----------------------------
(***************************************************************************)
(* What the service keeps in redis (store/redis/redis.go) and how it gets  *)
(* there: the nodes of every ProcessEvents call, saved in batches by       *)
(* goroutines of their own (distributor/storage/memorycache.go), the node  *)
(* store's status, assignments and clients; and what is left of it when    *)
(* the service stops and is started again.                                 *)
(*                                                                         *)
(* A region has one resource partition here, and the ring, the event queues*)
(* and the stores of clients are left to Distributor.                      *)
(***************************************************************************)
EXTENDS Integers, FiniteSets, Sequences

CONSTANTS
  Regions,
  Nodes,
  RegionOf,           \* node -> region
  Clients,
  BatchPersistSize,
  MaxRetries,         \* 5 in the code: a batch is tried once more than that
  MaxEvents,          \* bound on the events of a pull
  MaxRV,              \* bound on the resource versions of a region
  MaxStops,           \* bound on how often the service stops
  None

ASSUME PersistenceAssumption ==
  /\ IsFiniteSet(Nodes) /\ RegionOf \in [Nodes -> Regions]
  /\ BatchPersistSize \in Nat \ {0}
  /\ MaxRetries \in Nat /\ MaxEvents \in Nat /\ MaxRV \in Nat \ {0} /\ MaxStops \in Nat
  /\ None \notin Clients

(* Definitions named after what is wrong with them are deliberately wrong  *)
(* variants of the definition that follows them; none is part of the       *)
(* specification.                                                          *)

VARIABLES
  up,          \* the service runs
  nodeRV,      \* node -> resource version in the node store, 0 without it
  currentRVs,  \* region -> latest resource version processed
  call,        \* region -> its aggregator's call of ProcessEvents
  saving,      \* region -> the goroutines of its call that save a batch
  client,      \* client -> where its registration is
  redis,       \* what is stored under which key
  version,     \* node -> its resource version at the region manager
  doubtful,    \* nodes given up on, or in two batches of a call (auxiliary)
  stops        \* how often the service has stopped (auxiliary)

memory == <<nodeRV, currentRVs, call, saving, client>>
vars == <<up, memory, redis, version, doubtful, stops>>

RVs == 0..MaxRV
Event == [node : Nodes, rv : RVs]
NodesOf(r) == {n \in Nodes : RegionOf[n] = r}
LargestOf(rvs) == CHOOSE rv \in rvs : \A other \in rvs : other <= rv
LargestVersion(r) == LargestOf({version[n] : n \in NodesOf(r)})

Idle == [pc |-> "idle", todo |-> <<>>, batch |-> <<>>, waiting |-> 0,
         status |-> [r \in Regions |-> 0]]
Emptied == [nodes |-> [n \in Nodes |-> 0], status |-> [r \in Regions |-> 0],
            assignment |-> None, clients |-> {}]

Init ==
  /\ up = TRUE
  /\ nodeRV = [n \in Nodes |-> 0]
  /\ currentRVs = [r \in Regions |-> 0]
  /\ call = [r \in Regions |-> Idle]
  /\ saving = [r \in Regions |-> {}]
  /\ client = [c \in Clients |-> "unknown"]
  /\ redis = Emptied
  /\ version = [n \in Nodes |-> 1]
  /\ doubtful = {}
  /\ stops = 0

-----------------------------------------------------------------------------
(* ProcessEvents.  A region manager sends every node to whom knows none of *)
(* its versions, and what has changed otherwise.  All of them are events of*)
(* a known location that add or modify a node: ProcessNodeEvents would     *)
(* skip a nil one, and save one of another type without storing it, but no *)
(* region manager sends either.                                            *)

Orders(r) == {ns \in [1..Cardinality(NodesOf(r)) -> NodesOf(r)] :
                \A n \in NodesOf(r) : \E i \in DOMAIN ns : ns[i] = n}
EveryNode(r) == {[i \in DOMAIN ns |-> [node |-> ns[i], rv |-> version[ns[i]]]] : ns \in Orders(r)}
Changed(r) ==
  UNION {{[i \in 1..k |-> [node |-> ns[i], rv |-> LargestVersion(r) + i]] :
            ns \in [1..k -> NodesOf(r)]} :
         k \in {l \in 1..MaxEvents : LargestVersion(r) + l <= MaxRV}}
Pulled(r) == IF currentRVs[r] = 0 THEN EveryNode(r) ELSE Changed(r)

VersionsIn(events, n) == {events[i].rv : i \in {j \in DOMAIN events : events[j].node = n}}

ProcessEvents(r) ==
  /\ up /\ call[r].pc = "idle"
  /\ \E events \in Pulled(r) \ {<<>>} :
       /\ call' = [call EXCEPT ![r] = [Idle EXCEPT !.pc = "process", !.todo = events,
                                                   !.waiting = Len(events)]]
       /\ version' = [n \in Nodes |-> LargestOf(VersionsIn(events, n) \cup {version[n]})]
  /\ UNCHANGED <<up, nodeRV, currentRVs, saving, client, redis, doubtful, stops>>

BatchOf(events) == [events |-> events, at |-> 1, retries |-> 0]
InBatches(r, n) == \E g \in saving[r] : \E i \in DOMAIN g.events : g.events[i].node = n

(* One event is stored and put into the batch, which goes to a goroutine   *)
(* when it is full or the events are at an end.                            *)
processNodeEvent(r) ==
  LET e == Head(call[r].todo)
      batch == Append(call[r].batch, e)
      last == Len(call[r].todo) = 1
      handOver == last \/ Len(batch) = BatchPersistSize IN
  /\ call[r].pc = "process"
  /\ nodeRV' = [nodeRV EXCEPT ![e.node] = LargestOf({@, e.rv})]
  /\ currentRVs' = [currentRVs EXCEPT ![r] = LargestOf({@, e.rv})]
  /\ call' = [call EXCEPT ![r].todo = Tail(@), ![r].batch = IF handOver THEN <<>> ELSE batch,
                          ![r].pc = IF last THEN "status" ELSE "process"]
  /\ saving' = IF handOver THEN [saving EXCEPT ![r] = @ \cup {BatchOf(batch)}] ELSE saving
  /\ doubtful' = IF InBatches(r, e.node) THEN doubtful \cup {e.node} ELSE doubtful \ {e.node}
  /\ UNCHANGED <<up, client, redis, version, stops>>

(* The status is saved while the nodes still are being saved.  The other   *)
(* regions go on between its making and its saving.                        *)
getNodeStoreStatus(r) ==
  /\ call[r].pc = "status"
  /\ call' = [call EXCEPT ![r].status = currentRVs, ![r].pc = "save"]
  /\ UNCHANGED <<up, nodeRV, currentRVs, saving, client, redis, version, doubtful, stops>>

PersistNodeStoreStatus(r) ==
  /\ call[r].pc = "save"
  /\ \E stored \in BOOLEAN :
       redis' = IF stored THEN [redis EXCEPT !.status = call[r].status] ELSE redis
  /\ call' = [call EXCEPT ![r].pc = "wait"]
  /\ UNCHANGED <<up, nodeRV, currentRVs, saving, client, version, doubtful, stops>>

NotAwaited(r) == r \in Regions
AllReleased(r) == call[r].waiting = 0

WaitForAllNodesSaved(r) ==
  /\ call[r].pc = "wait" /\ AllReleased(r)
  /\ call' = [call EXCEPT ![r] = Idle]
  /\ UNCHANGED <<up, nodeRV, currentRVs, saving, client, redis, version, doubtful, stops>>

-----------------------------------------------------------------------------
(* The goroutine that saves a batch, node by node.                         *)

ReleasedWhenSaved(g, saved) == IF saved THEN Len(g.events) ELSE 0
ReleasedBatchSize(g, saved) == BatchPersistSize
Released(g, saved) == Len(g.events)

Done(r, g, saved) ==
  /\ saving' = [saving EXCEPT ![r] = @ \ {g}]
  /\ call' = [call EXCEPT ![r].waiting = @ - Released(g, saved)]

GoOn(r, g, next) ==
  /\ saving' = [saving EXCEPT ![r] = (@ \ {g}) \cup {next}]
  /\ UNCHANGED call

SaveNode(r, g) ==
  LET e == g.events[g.at] IN
  /\ redis' = [redis EXCEPT !.nodes[e.node] = e.rv]
  /\ IF g.at = Len(g.events) THEN Done(r, g, TRUE) ELSE GoOn(r, g, [g EXCEPT !.at = @ + 1])
  /\ UNCHANGED <<up, nodeRV, currentRVs, client, version, doubtful, stops>>

(* redis answers with an error, or does not answer, which leaves open what *)
(* it stored.  The batch is tried again from its beginning, or given up    *)
(* without anybody being told.                                             *)
FailToSaveNode(r, g) ==
  LET e == g.events[g.at] IN
  /\ \E stored \in BOOLEAN :
       redis' = IF stored THEN [redis EXCEPT !.nodes[e.node] = e.rv] ELSE redis
  /\ IF g.retries >= MaxRetries
     THEN /\ Done(r, g, FALSE)
          /\ doubtful' = doubtful \cup {g.events[i].node : i \in DOMAIN g.events}
     ELSE /\ GoOn(r, g, [g EXCEPT !.at = 1, !.retries = @ + 1])
          /\ UNCHANGED doubtful
  /\ UNCHANGED <<up, nodeRV, currentRVs, client, version, stops>>

PersistNodes(r) == \E g \in saving[r] : SaveNode(r, g) \/ FailToSaveNode(r, g)

-----------------------------------------------------------------------------
(* Registration, as far as redis is concerned.  Every client's assignment  *)
(* is stored under the same key, while allocateLock is held.               *)

Allocate(c) ==
  /\ up /\ client[c] = "unknown"
  /\ \A other \in Clients : client[other] # "allocated"
  /\ client' = [client EXCEPT ![c] = "allocated"]
  /\ UNCHANGED <<up, nodeRV, currentRVs, call, saving, redis, version, doubtful, stops>>

PersistVirtualNodesAssignments(c) ==
  /\ client[c] = "allocated"
  /\ client' = [client EXCEPT ![c] = "assigned"]
  /\ \E stored \in BOOLEAN :
       redis' = IF stored THEN [redis EXCEPT !.assignment = c] ELSE redis
  /\ UNCHANGED <<up, nodeRV, currentRVs, call, saving, version, doubtful, stops>>

(* A registration that failed here may have stored the client: an answer   *)
(* that does not come in time is an error, too.                            *)
PersistClient(c) ==
  /\ client[c] = "assigned"
  /\ \E stored, answered \in BOOLEAN :
       /\ answered => stored
       /\ redis' = IF stored THEN [redis EXCEPT !.clients = @ \cup {c}] ELSE redis
       /\ client' = [client EXCEPT ![c] = IF answered THEN "registered" ELSE "failed"]
  /\ UNCHANGED <<up, nodeRV, currentRVs, call, saving, version, doubtful, stops>>

-----------------------------------------------------------------------------
(* The service stops between any two steps and loses its memory; starting  *)
(* it again flushes redis, nothing is read back.                           *)

Stop ==
  /\ up /\ stops < MaxStops
  /\ up' = FALSE
  /\ stops' = stops + 1
  /\ nodeRV' = [n \in Nodes |-> 0]
  /\ currentRVs' = [r \in Regions |-> 0]
  /\ call' = [r \in Regions |-> Idle]
  /\ saving' = [r \in Regions |-> {}]
  /\ client' = [c \in Clients |-> "unknown"]
  /\ doubtful' = {}
  /\ UNCHANGED <<redis, version>>

KeptAtStart(stored) == stored
FlushAll(stored) == Emptied

RVsOfStatus == redis.status
RVsAtStart == [r \in Regions |-> 0]

Run ==
  /\ ~up
  /\ up' = TRUE
  /\ currentRVs' = RVsAtStart
  /\ redis' = FlushAll(redis)
  /\ UNCHANGED <<nodeRV, call, saving, client, version, doubtful, stops>>

-----------------------------------------------------------------------------
Step(r) ==
  \/ ProcessEvents(r)
  \/ processNodeEvent(r)
  \/ getNodeStoreStatus(r)
  \/ PersistNodeStoreStatus(r)
  \/ WaitForAllNodesSaved(r)

Next ==
  \/ \E r \in Regions : Step(r) \/ PersistNodes(r)
  \/ \E c \in Clients : Allocate(c) \/ PersistVirtualNodesAssignments(c) \/ PersistClient(c)
  \/ Stop \/ Run

Spec == Init /\ [][Next]_vars

(* The aggregator pulls for ever, a call to redis ends one way or the      *)
(* other, and somebody starts the service again.                           *)
FairSpec ==
  /\ Spec
  /\ \A r \in Regions : WF_vars(Step(r)) /\ WF_vars(PersistNodes(r))
  /\ WF_vars(Run)

-----------------------------------------------------------------------------
(* Every variable has its type; the WaitGroup of a call is never negative, *)
(* which would panic.                                                      *)
TypeOK ==
  /\ up \in BOOLEAN
  /\ nodeRV \in [Nodes -> RVs] /\ version \in [Nodes -> RVs]
  /\ currentRVs \in [Regions -> RVs]
  /\ call \in [Regions -> [pc : {"idle", "process", "status", "save", "wait"},
                           todo : Seq(Event), batch : Seq(Event), waiting : Nat,
                           status : [Regions -> RVs]]]
  /\ \A r \in Regions : \A g \in saving[r] :
       g.events \in Seq(Event) /\ g.at \in DOMAIN g.events /\ g.retries \in 0..MaxRetries
  /\ client \in [Clients -> {"unknown", "allocated", "assigned", "registered", "failed"}]
  /\ redis \in [nodes : [Nodes -> RVs], status : [Regions -> RVs],
                assignment : Clients \cup {None}, clients : SUBSET Clients]
  /\ doubtful \subseteq Nodes
  /\ stops \in 0..MaxStops

(* When ProcessEvents has returned, and the region manager is about to be  *)
(* told that the events are processed, the node store's nodes are in redis,*)
(* but for nodes given up on and nodes that changed twice in one call,     *)
(* whose batches are saved in any order.                                   *)
SavedWhenReturned ==
  \A n \in Nodes : up /\ call[RegionOf[n]].pc = "idle" =>
    redis.nodes[n] = nodeRV[n] \/ n \in doubtful

(* What is stored is of this run of the service: redis never knows a newer *)
(* version than the node store, nor a client that memory has not assigned  *)
(* stores to; what a failed registration left there is of this run, too.   *)
NothingFromBefore ==
  up => /\ \A n \in Nodes : redis.nodes[n] <= nodeRV[n]
        /\ \A r \in Regions : redis.status[r] <= currentRVs[r]
        /\ \A c \in redis.clients : client[c] \in {"registered", "failed"}
        /\ redis.assignment # None => client[redis.assignment] # "unknown"

(* A call returns although redis fails again and again.                    *)
CallReturns == \A r \in Regions : call[r].pc # "idle" ~> call[r].pc = "idle"

(* The nodes lost with the memory of the service come back once it runs    *)
(* again: not knowing any version it is sent every node.                   *)
NodesComeBack == ~up ~> \A n \in Nodes : nodeRV[n] = version[n]
=============================================================================
