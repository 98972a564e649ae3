----------------------------- MODULE RegionPull -----------------------------
(***************************************************************************)
(* The aggregator's loop for one region (aggregrator/aggregator.go) and the*)
(* region manager it pulls from (test/resourceRegionMgrSimulator): the     *)
(* HTTP handler that builds a response and the goroutine that changes      *)
(* nodes, which share their lists without a lock.                          *)
(*                                                                         *)
(* An event points to its node, whose resource version is changed in place:*)
(* a pending event is the node, and has the version that the node has when *)
(* the event is looked at.                                                 *)
(***************************************************************************)
EXTENDS Integers, Sequences, SequencesExt

CONSTANTS
  Nodes,
  Partitions,     \* resource partitions of the region
  PartitionOf,    \* node -> partition
  InitialRV,      \* node -> resource version it is generated with
  NodeOrder,      \* the nodes in the order of RegionNodeEventsList
  MaxRV           \* bound on the resource versions of a partition

ASSUME PullAssumption ==
  /\ IsFiniteSet(Nodes) /\ Partitions # {} /\ MaxRV \in Nat
  /\ PartitionOf \in [Nodes -> Partitions]
  /\ InitialRV \in [Nodes -> 1..MaxRV]
  /\ NodeOrder \in Seq(Nodes)
  /\ \A n \in Nodes : \E i \in DOMAIN NodeOrder : NodeOrder[i] = n

(* Definitions named after what is wrong with them are deliberately wrong  *)
(* variants of the definition that follows them; none is part of the       *)
(* specification.                                                          *)

RVs == 0..MaxRV
Members(p) == {n \in Nodes : PartitionOf[n] = p}
LargestOf(rvs) == CHOOSE rv \in rvs : \A other \in rvs : other <= rv
NoRVs == [p \in Partitions |-> 0]

VARIABLES
  nodeRV,       \* node -> its resource version (RegionNodeList)
  CurrentRVs,   \* partition -> highest version given out
  updateList,   \* partition -> pending events (RegionNodeUpdateEventList)
  updater,      \* the goroutine that changes nodes
  handler,      \* the request being served
  aggregator,   \* where the loop is, with the events it received
  crv,          \* partition -> version the aggregator asks for, 0 in none
  storedRV,     \* node -> version the distributor keeps
  faults        \* what has gone wrong so far (auxiliary)

vars == <<nodeRV, CurrentRVs, updateList, updater, handler, aggregator, crv, storedRV, faults>>

Resting == [pc |-> "idle", partition |-> CHOOSE p \in Partitions : TRUE,
            list |-> <<>>, todo |-> {}]
NotServing == [pc |-> "idle", todo |-> {}, at |-> CHOOSE p \in Partitions : TRUE,
               unread |-> <<>>, pulled |-> <<>>, response |-> <<>>]

Init ==
  /\ nodeRV = InitialRV
  /\ CurrentRVs = [p \in Partitions |-> LargestOf({InitialRV[n] : n \in Members(p)} \cup {0})]
  /\ updateList = [p \in Partitions |-> <<>>]
  /\ updater = Resting
  /\ handler = NotServing
  /\ aggregator = [pc |-> "pull", events |-> <<>>]
  /\ crv = NoRVs
  /\ storedRV = [n \in Nodes |-> 0]
  /\ faults = {}

-----------------------------------------------------------------------------
(* The goroutine that changes nodes, one partition after the other.        *)

(* makeDataUpdate changes some nodes and goes on with the events pending.  *)
(* (A node that is picked again in the same update only has a later version*)
(* and a second event.)                                                    *)
makeDataUpdate(p) ==
  /\ updater.pc = "idle"
  /\ \E nodes \in SUBSET Members(p) \ {{}} :
       /\ CurrentRVs[p] + Cardinality(nodes) <= MaxRV
       /\ updater' = [pc |-> "change", partition |-> p, list |-> updateList[p], todo |-> nodes]
  /\ faults' = IF handler.pc = "idle" THEN faults ELSE faults \cup {"overlap"}
  /\ UNCHANGED <<nodeRV, CurrentRVs, updateList, handler, aggregator, crv, storedRV>>

(* makeOneRPDown changes every node and starts a list of its own.          *)
AllButOne(p) == {n \in Members(p) : \E m \in Members(p) : InitialRV[m] < InitialRV[n]}
NodesDown(p) == Members(p)

makeOneRPDown(p) ==
  /\ updater.pc = "idle"
  /\ CurrentRVs[p] + Cardinality(Members(p)) <= MaxRV
  /\ updater' = [pc |-> "change", partition |-> p, list |-> <<>>, todo |-> NodesDown(p)]
  /\ faults' = IF handler.pc = "idle" THEN faults ELSE faults \cup {"overlap"}
  /\ UNCHANGED <<nodeRV, CurrentRVs, updateList, handler, aggregator, crv, storedRV>>

ChangeNode(n) ==
  LET p == updater.partition IN
  /\ updater.pc = "change" /\ n \in updater.todo
  /\ nodeRV' = [nodeRV EXCEPT ![n] = CurrentRVs[p] + 1]
  /\ CurrentRVs' = [CurrentRVs EXCEPT ![p] = @ + 1]
  /\ updater' = [updater EXCEPT !.list = Append(@, n), !.todo = @ \ {n}]
  /\ faults' = IF handler.pc = "idle" THEN faults ELSE faults \cup {"overlap"}
  /\ UNCHANGED <<updateList, handler, aggregator, crv, storedRV>>

ReplaceUpdateList ==
  /\ updater.pc = "change" /\ updater.todo = {}
  /\ updateList' = [updateList EXCEPT ![updater.partition] = updater.list]
  /\ updater' = Resting
  /\ faults' = IF handler.pc = "idle" THEN faults ELSE faults \cup {"overlap"}
  /\ UNCHANGED <<nodeRV, CurrentRVs, handler, aggregator, crv, storedRV>>

-----------------------------------------------------------------------------
(* The handler.                                                            *)

(* The first pull, and every pull until one brought something, asks for    *)
(* all nodes; a later one for what changed since crv.                      *)
initPullOrSubsequentPull ==
  /\ aggregator.pc = "pull" /\ handler.pc = "idle"
  /\ aggregator' = [aggregator EXCEPT !.pc = "waiting"]
  /\ handler' = IF crv = NoRVs
                THEN [NotServing EXCEPT !.pc = "encode", !.pulled = NodeOrder]
                ELSE [NotServing EXCEPT !.pc = "collect", !.todo = Partitions]
  /\ faults' = IF updater.pc = "idle" THEN faults ELSE faults \cup {"overlap"}
  /\ UNCHANGED <<nodeRV, CurrentRVs, updateList, updater, crv, storedRV>>

MuchNewerThan(requestedRV, n) == nodeRV[n] > requestedRV + 1
NewerThan(requestedRV, n) == nodeRV[n] > requestedRV

(* Partitions do not depend on each other and are taken in any order; one  *)
(* without pending events is passed over.                                  *)
GetRegionNodeModifiedEventsCRV(p) ==
  /\ handler.pc = "collect" /\ p \in handler.todo
  /\ handler' = [handler EXCEPT
       !.pc = IF updateList[p] # <<>> THEN "select"
              ELSE IF handler.todo = {p} THEN "encode" ELSE "collect",
       !.todo = @ \ {p},
       !.at = p,
       !.unread = updateList[p]]
  /\ UNCHANGED <<nodeRV, CurrentRVs, updateList, updater, aggregator, crv, storedRV, faults>>

SelectEvent ==
  /\ handler.pc = "select" /\ handler.unread # <<>>
  /\ LET n == Head(handler.unread) IN
       handler' = [handler EXCEPT
         !.unread = Tail(@),
         !.pulled = IF NewerThan(crv[handler.at], n) THEN Append(@, n) ELSE @]
  /\ UNCHANGED <<nodeRV, CurrentRVs, updateList, updater, aggregator, crv, storedRV, faults>>

CleanUpEventCache ==
  /\ handler.pc = "select" /\ handler.unread = <<>>
  /\ updateList' = [updateList EXCEPT ![handler.at] = <<>>]
  /\ handler' = [handler EXCEPT !.pc = IF handler.todo = {} THEN "encode" ELSE "collect"]
  /\ UNCHANGED <<nodeRV, CurrentRVs, updater, aggregator, crv, storedRV, faults>>

(* The nodes are read once more when the response is encoded.              *)
EncodeEvent ==
  /\ handler.pc = "encode" /\ handler.pulled # <<>>
  /\ LET n == Head(handler.pulled) IN
       handler' = [handler EXCEPT !.pulled = Tail(@),
                                  !.response = Append(@, [node |-> n, rv |-> nodeRV[n]])]
  /\ UNCHANGED <<nodeRV, CurrentRVs, updateList, updater, aggregator, crv, storedRV, faults>>

Respond ==
  /\ handler.pc = "encode" /\ handler.pulled = <<>>
  /\ aggregator' = [pc |-> IF handler.response = <<>> THEN "pull" ELSE "process",
                    events |-> handler.response]
  /\ handler' = NotServing
  /\ UNCHANGED <<nodeRV, CurrentRVs, updateList, updater, crv, storedRV, faults>>

(* The connection breaks: the aggregator logs it and pulls again. Only the *)
(* first pull, which clears nothing, can be repeated without harm.         *)
LoseResponse ==
  /\ handler.pc = "encode" /\ handler.pulled = <<>>
  /\ aggregator' = [aggregator EXCEPT !.pc = "pull"]
  /\ handler' = NotServing
  /\ faults' = IF crv = NoRVs THEN faults ELSE faults \cup {"lost"}
  /\ UNCHANGED <<nodeRV, CurrentRVs, updateList, updater, crv, storedRV>>

-----------------------------------------------------------------------------
(* The aggregator hands the events to the distributor, which keeps a       *)
(* node's newest version, and goes on from the versions it is told.  The   *)
(* CRV it posts changes nothing at the region manager.                     *)

RVsOf(n) == {event.rv : event \in {e \in Range(aggregator.events) : e.node = n}}
OneAheadRVs(stored, p) == 1 + LargestOf({stored[n] : n \in Members(p)} \cup {crv[p]})
ProcessedRVs(stored, p) == LargestOf({stored[n] : n \in Members(p)} \cup {crv[p]})

ProcessEvents ==
  /\ aggregator.pc = "process"
  /\ storedRV' = [n \in Nodes |-> LargestOf(RVsOf(n) \cup {storedRV[n]})]
  /\ crv' = [p \in Partitions |-> ProcessedRVs(storedRV', p)]
  /\ aggregator' = [pc |-> "post", events |-> <<>>]
  /\ UNCHANGED <<nodeRV, CurrentRVs, updateList, updater, handler, faults>>

postCRV ==
  /\ aggregator.pc = "post"
  /\ aggregator' = [aggregator EXCEPT !.pc = "pull"]
  /\ UNCHANGED <<nodeRV, CurrentRVs, updateList, updater, handler, crv, storedRV, faults>>

Pull ==
  \/ initPullOrSubsequentPull
  \/ \E p \in Partitions : GetRegionNodeModifiedEventsCRV(p)
  \/ SelectEvent
  \/ CleanUpEventCache
  \/ EncodeEvent
  \/ Respond
  \/ ProcessEvents
  \/ postCRV

Update == (\E n \in Nodes : ChangeNode(n)) \/ ReplaceUpdateList

Next ==
  \/ Pull
  \/ LoseResponse
  \/ Update
  \/ \E p \in Partitions : makeDataUpdate(p) \/ makeOneRPDown(p)

Spec == Init /\ [][Next]_vars

(* The loop of the aggregator goes on for ever, and a change once begun is *)
(* completed; nothing makes the nodes change.                              *)
FairSpec == Spec /\ WF_vars(Pull) /\ WF_vars(Update)

-----------------------------------------------------------------------------
(* Every variable has its type.                                            *)
TypeOK ==
  /\ nodeRV \in [Nodes -> RVs]
  /\ CurrentRVs \in [Partitions -> RVs]
  /\ updateList \in [Partitions -> Seq(Nodes)]
  /\ updater \in [pc : {"idle", "change"}, partition : Partitions, list : Seq(Nodes),
                  todo : SUBSET Nodes]
  /\ handler \in [pc : {"idle", "collect", "select", "encode"}, todo : SUBSET Partitions,
                  at : Partitions, unread : Seq(Nodes), pulled : Seq(Nodes),
                  response : Seq([node : Nodes, rv : RVs])]
  /\ aggregator \in [pc : {"pull", "waiting", "process", "post"},
                     events : Seq([node : Nodes, rv : RVs])]
  /\ crv \in [Partitions -> RVs]
  /\ storedRV \in [Nodes -> RVs]
  /\ faults \subseteq {"overlap", "lost"}

(* The latest change of n is with the distributor or on its way there.     *)
OnItsWay(n) ==
  \/ storedRV[n] = nodeRV[n]
  \/ crv = NoRVs
  \/ Contains(updateList[PartitionOf[n]], n) \/ Contains(updater.list, n)
  \/ Contains(handler.pulled, n)
  \/ \E events \in {handler.response, aggregator.events} :
       Contains(events, [node |-> n, rv |-> nodeRV[n]])

(* Pulling is lossless although pending events change their versions and   *)
(* are thrown away when they are collected, unless the response of a later *)
(* pull is lost or a node changes while a response is built.               *)
NoChangeForgotten == faults = {} => \A n \in Nodes : OnItsWay(n)

(* The CRV never gets ahead of a pending change: what                      *)
(* GetRegionNodeModifiedEventsCRV would skip has arrived already.          *)
PendingIsNewer ==
  faults = {} /\ crv # NoRVs =>
    \A p \in Partitions : \A i \in DOMAIN updateList[p] :
      LET n == updateList[p][i] IN nodeRV[n] > crv[p] \/ storedRV[n] = nodeRV[n]

(* Without these faults, and once a first pull got through, the distributor*)
(* catches up with the nodes when they stop changing, which the bound on   *)
(* versions makes them do.                                                 *)
ChangesArrive == [](faults = {}) /\ <>(crv # NoRVs) => <>[](storedRV = nodeRV)
=============================================================================
