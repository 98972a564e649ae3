-------------------------- MODULE PersistenceProofs --------------------------
(***************************************************************************)
(* What redis holds is never ahead of the service's memory and never older *)
(* than its last start: for any number of regions, which all save the node *)
(* store's status under one key, any nodes, batches, retries and restarts. *)
(* A call's wait group counts what is left to save, and when the call has  *)
(* returned the nodes nobody doubts are in redis as they are in memory.    *)
(***************************************************************************)
EXTENDS Persistence, FiniteSetTheorems, WellFoundedInduction, TLAPS

(* A non-empty set of bounded numbers has a largest element: the numbers   *)
(* counted down from the bound have a smallest one.                        *)
LEMMA LargestExists ==
  ASSUME NEW b \in Nat, NEW S \in SUBSET (0..b), S # {}
  PROVE  LargestOf(S) \in S /\ \A y \in S : y <= LargestOf(S)
<1> DEFINE R == {p \in Nat \X Nat : p[1] < p[2]}
           T == {b - x : x \in S}
<1>1. IsWellFoundedOn(R, Nat)
  BY NatLessThanWellFounded DEF OpToRel
<1>2. PICK s \in S : TRUE
  OBVIOUS
<1>3. T \subseteq Nat
  OBVIOUS
<1>4. b - s \in T
  OBVIOUS
<1> HIDE DEF T, R
<1>5. \E x \in T : \A y \in T : <<y, x>> \notin R
  BY <1>1, <1>3, <1>4, WFMin
<1>6. PICK x \in T : \A y \in T : ~(y < x)
  BY <1>3, <1>5 DEF R
<1>7. PICK z \in S : x = b - z
  BY DEF T
<1>8. \A y \in S : b - y \in T
  BY DEF T
<1>9. \A y \in S : y <= z
  BY <1>6, <1>7, <1>8
<1> QED BY <1>9 DEF LargestOf

(* The larger of two versions.                                             *)
LEMMA LargerOfTwo ==
  ASSUME NEW a \in RVs, NEW b \in RVs
  PROVE  LargestOf({a, b}) \in RVs /\ a <= LargestOf({a, b}) /\ b <= LargestOf({a, b})
BY PersistenceAssumption, LargestExists, {a, b} \in SUBSET (0..MaxRV) DEF RVs

(* The largest version of a region is one of its nodes' and no node's is   *)
(* larger.                                                                 *)
LEMMA LargestIsVersion ==
  ASSUME NEW r \in Regions, version \in [Nodes -> RVs]
  PROVE  /\ \A n \in NodesOf(r) : version[n] <= LargestVersion(r)
         /\ NodesOf(r) # {} => LargestVersion(r) \in RVs
<1> SUFFICES ASSUME NodesOf(r) # {}
             PROVE  /\ \A n \in NodesOf(r) : version[n] <= LargestVersion(r)
                    /\ LargestVersion(r) \in RVs
  OBVIOUS
<1> DEFINE S == {version[n] : n \in NodesOf(r)}
<1>1. S \in SUBSET (0..MaxRV) /\ S # {}
  BY DEF NodesOf, RVs
<1>2. LargestOf(S) \in S /\ \A rv \in S : rv <= LargestOf(S)
  BY <1>1, LargestExists, PersistenceAssumption
<1> QED BY <1>1, <1>2 DEF LargestVersion, RVs

(* Every version that is pulled is within the bound.                       *)
LEMMA PulledVersions ==
  ASSUME NEW r \in Regions, version \in [Nodes -> RVs], NEW events \in Pulled(r)
  PROVE  events \in Seq(Event)
<1>1. CASE events \in EveryNode(r)
  <2>1. PICK ns \in Orders(r) :
               events = [i \in DOMAIN ns |-> [node |-> ns[i], rv |-> version[ns[i]]]]
    BY <1>1 DEF EveryNode
  <2>2. NodesOf(r) \subseteq Nodes /\ IsFiniteSet(NodesOf(r))
    BY FS_Subset, PersistenceAssumption DEF NodesOf
  <2>3. Cardinality(NodesOf(r)) \in Nat
    BY <2>2, FS_CardinalityType
  <2>4. ns \in [1..Cardinality(NodesOf(r)) -> NodesOf(r)]
    BY <2>1 DEF Orders
  <2>5. \A i \in 1..Cardinality(NodesOf(r)) : events[i] \in Event
    BY <2>1, <2>2, <2>4 DEF Event
  <2> QED BY <2>1, <2>3, <2>4, <2>5
<1>2. CASE events \in Changed(r)
  <2>1. PICK k \in {l \in 1..MaxEvents : LargestVersion(r) + l <= MaxRV} :
             \E ns \in [1..k -> NodesOf(r)] :
               events = [i \in 1..k |-> [node |-> ns[i], rv |-> LargestVersion(r) + i]]
    BY <1>2 DEF Changed
  <2>2. PICK ns \in [1..k -> NodesOf(r)] :
               events = [i \in 1..k |-> [node |-> ns[i], rv |-> LargestVersion(r) + i]]
    BY <2>1
  <2>3. k \in Nat /\ 1 \in 1..k
    BY <2>1, PersistenceAssumption
  <2>4. NodesOf(r) # {} /\ NodesOf(r) \subseteq Nodes
    BY <2>3 DEF NodesOf
  <2>5. LargestVersion(r) \in RVs
    BY <2>4, LargestIsVersion
  <2>6. LargestVersion(r) + k <= MaxRV
    BY <2>1
  <2>7. \A i \in 1..k : LargestVersion(r) + i \in RVs
    BY <2>3, <2>5, <2>6, PersistenceAssumption DEF RVs
  <2>8. \A i \in 1..k : events[i] \in Event
    BY <2>2, <2>4, <2>7 DEF Event
  <2> QED BY <2>2, <2>3, <2>8
<1> QED BY <1>1, <1>2 DEF Pulled

-----------------------------------------------------------------------------
(* The inductive invariant.  NothingFromBefore says nothing of what is on  *)
(* its way to redis: events in batches that are filled or being saved, a   *)
(* status that was made and not saved yet, a client whose assignment has   *)
(* been made.  None of it may be ahead of memory, nor outlive it.          *)

Typed ==
  /\ up \in BOOLEAN
  /\ nodeRV \in [Nodes -> RVs] /\ version \in [Nodes -> RVs]
  /\ currentRVs \in [Regions -> RVs]
  /\ redis \in [nodes : [Nodes -> RVs], status : [Regions -> RVs],
                assignment : Clients \cup {None}, clients : SUBSET Clients]
  /\ client \in [Clients -> {"unknown", "allocated", "assigned", "registered", "failed"}]

CallsTyped ==
  /\ DOMAIN call = Regions
  /\ \A r \in Regions :
       call[r] \in [pc : {"idle", "process", "status", "save", "wait"}, todo : Seq(Event),
                    batch : Seq(Event), waiting : Int, status : [Regions -> RVs]]
  /\ DOMAIN saving = Regions
  /\ \A r \in Regions : \A g \in saving[r] :
       g \in [events : Seq(Event), at : Int, retries : Int] /\ g.at \in DOMAIN g.events
  /\ \A r \in Regions : call[r].pc = "process" => call[r].todo # <<>>

InMemory(events, rvs) == \A i \in DOMAIN events : events[i].rv <= rvs[events[i].node]

OnItsWay ==
  /\ \A r \in Regions : InMemory(call[r].batch, nodeRV)
  /\ \A r \in Regions : \A g \in saving[r] : InMemory(g.events, nodeRV)
  /\ \A r, q \in Regions : call[r].pc = "save" => call[r].status[q] <= currentRVs[q]

Stopped ==
  ~up => /\ \A r \in Regions : call[r] = Idle /\ saving[r] = {}
         /\ \A c \in Clients : client[c] = "unknown"

PInv == Typed /\ CallsTyped /\ OnItsWay /\ Stopped /\ NothingFromBefore

USE DEF PInv

(* Redis is flushed and memory is empty when the service starts.           *)
LEMMA InvInit == Init => PInv
<1> SUFFICES ASSUME Init PROVE PInv
  OBVIOUS
<1>1. 0 \in RVs
  BY PersistenceAssumption DEF RVs
<1>2. \A n \in Nodes : redis.nodes[n] <= nodeRV[n]
  BY DEF Init, Emptied
<1>3. \A r \in Regions : redis.status[r] <= currentRVs[r]
  BY DEF Init, Emptied
<1>4. NothingFromBefore
  BY <1>2, <1>3 DEF NothingFromBefore, Init, Emptied
<1>5. version \in [Nodes -> RVs]
  BY PersistenceAssumption DEF Init, RVs
<1>6. Typed /\ CallsTyped
  BY <1>1, <1>5 DEF Typed, CallsTyped, Init, Emptied, Idle
<1>7. OnItsWay /\ Stopped
  BY DEF OnItsWay, Stopped, InMemory, Init, Idle
<1> QED BY <1>4, <1>6, <1>7

(* A call begins with typed events and nothing on its way.                 *)
LEMMA ProcessEventsKeeps ==
  ASSUME PInv, NEW r \in Regions, ProcessEvents(r)
  PROVE  PInv'
<1>1. PICK events \in Pulled(r) \ {<<>>} :
        /\ call' = [call EXCEPT ![r] = [Idle EXCEPT !.pc = "process", !.todo = events,
                                                    !.waiting = Len(events)]]
        /\ version' = [n \in Nodes |-> LargestOf(VersionsIn(events, n) \cup {version[n]})]
  BY DEF ProcessEvents
<1>2. events \in Seq(Event) /\ events # <<>>
  BY PulledVersions DEF Typed
<1>3. version' \in [Nodes -> RVs]
  <2> SUFFICES ASSUME NEW n \in Nodes
               PROVE  LargestOf(VersionsIn(events, n) \cup {version[n]}) \in RVs
    BY <1>1
  <2> DEFINE S == VersionsIn(events, n) \cup {version[n]}
  <2>1. \A i \in DOMAIN events : events[i].rv \in 0..MaxRV
    <3>1. \A i \in DOMAIN events : events[i] \in Event
      BY <1>2
    <3> QED BY <3>1 DEF Event, RVs
  <2>2. version[n] \in 0..MaxRV
    BY DEF Typed, RVs
  <2>3. S \in SUBSET (0..MaxRV) /\ S # {}
    BY <2>1, <2>2 DEF VersionsIn
  <2> QED BY <2>3, LargestExists, PersistenceAssumption DEF RVs
<1>4. UNCHANGED <<up, nodeRV, currentRVs, saving, client, redis>> /\ up
  BY DEF ProcessEvents
<1> DEFINE begun == [Idle EXCEPT !.pc = "process", !.todo = events, !.waiting = Len(events)]
<1>5. /\ call' = [call EXCEPT ![r] = begun]
      /\ begun \in [pc : {"process"}, todo : Seq(Event), batch : {<<>>}, waiting : Int,
                    status : [Regions -> RVs]]
      /\ begun.todo = events
  <2>1. 0 \in RVs /\ Len(events) \in Int
    BY <1>2, PersistenceAssumption DEF RVs
  <2>2. Idle \in [pc : {"idle"}, todo : {<<>>}, batch : {<<>>}, waiting : {0},
                  status : [Regions -> RVs]]
    BY <2>1 DEF Idle
  <2> QED BY <1>1, <1>2, <2>1, <2>2
<1> HIDE DEF begun
<1>6. Typed'
  BY <1>3, <1>4 DEF Typed
<1>7. CallsTyped'
  <2>1. DOMAIN call' = Regions /\ call'[r] = begun /\ \A q \in Regions \ {r} : call'[q] = call[q]
    BY <1>5 DEF CallsTyped
  <2>2. begun \in [pc : {"idle", "process", "status", "save", "wait"}, todo : Seq(Event),
                   batch : Seq(Event), waiting : Int, status : [Regions -> RVs]]
    <3>1. <<>> \in Seq(Event)
      OBVIOUS
    <3> QED BY <1>5, <3>1
  <2> QED BY <1>2, <1>4, <1>5, <2>1, <2>2 DEF CallsTyped
<1>8. OnItsWay'
  BY <1>4, <1>5 DEF OnItsWay, InMemory, CallsTyped
<1>9. Stopped' /\ NothingFromBefore'
  BY <1>4 DEF Stopped, NothingFromBefore
<1> QED BY <1>6, <1>7, <1>8, <1>9

(* Memory only moves forward, which keeps everything behind it.            *)
LEMMA MemoryMovesForward ==
  ASSUME PInv, nodeRV' \in [Nodes -> RVs], \A n \in Nodes : nodeRV[n] <= nodeRV'[n],
         NEW events \in Seq(Event), InMemory(events, nodeRV)
  PROVE  InMemory(events, nodeRV')
<1> SUFFICES ASSUME NEW i \in DOMAIN events
             PROVE  events[i].rv <= nodeRV'[events[i].node]
  BY DEF InMemory
<1>1. events[i] \in Event
  OBVIOUS
<1>2. events[i].rv <= nodeRV[events[i].node]
  BY DEF InMemory
<1> QED BY <1>1, <1>2, PersistenceAssumption DEF Event, Typed, RVs

(* An event is stored before the status of its call is taken.              *)
LEMMA processNodeEventKeeps ==
  ASSUME PInv, NEW r \in Regions, processNodeEvent(r)
  PROVE  PInv'
<1> DEFINE e == Head(call[r].todo)
           batch == Append(call[r].batch, e)
           last == Len(call[r].todo) = 1
           handOver == last \/ Len(batch) = BatchPersistSize
<1>1. /\ call[r].pc = "process"
      /\ nodeRV' = [nodeRV EXCEPT ![e.node] = LargestOf({@, e.rv})]
      /\ currentRVs' = [currentRVs EXCEPT ![r] = LargestOf({@, e.rv})]
      /\ call' = [call EXCEPT ![r].todo = Tail(@),
                              ![r].batch = IF handOver THEN <<>> ELSE batch,
                              ![r].pc = IF last THEN "status" ELSE "process"]
      /\ saving' = IF handOver THEN [saving EXCEPT ![r] = @ \cup {BatchOf(batch)}] ELSE saving
      /\ UNCHANGED <<up, client, redis, version>>
  BY DEF processNodeEvent
<1>2. call[r].todo \in Seq(Event) /\ call[r].todo # <<>> /\ call[r].batch \in Seq(Event)
  BY <1>1 DEF CallsTyped
<1>3. /\ e \in Event /\ batch \in Seq(Event) /\ batch # <<>>
      /\ Tail(call[r].todo) \in Seq(Event)
      /\ ~last => Tail(call[r].todo) # <<>>
  <2>1. e \in Event /\ Tail(call[r].todo) \in Seq(Event)
    BY <1>2
  <2>2. batch \in Seq(Event) /\ Len(batch) = Len(call[r].batch) + 1 /\ Len(call[r].batch) \in Nat
    BY <1>2, <2>1
  <2>3. Len(Tail(call[r].todo)) = Len(call[r].todo) - 1
    BY <1>2
  <2>4. Len(call[r].todo) \in Nat \ {0}
    BY <1>2
  <2>5. batch # <<>>
    BY <2>2
  <2>6. ASSUME ~last, Tail(call[r].todo) = <<>>
        PROVE  FALSE
    <3> DEFINE rest == Tail(call[r].todo)
               length == Len(call[r].todo)
    <3>1. length # 1 /\ length \in Nat /\ rest = <<>> /\ Len(rest) = length - 1
      BY <2>3, <2>4, <2>6
    <3>2. \A s \in Seq(Event) : s = <<>> => Len(s) = 0
      OBVIOUS
    <3>3. Len(rest) = 0
      BY <2>1, <3>1, <3>2
    <3> HIDE DEF rest, length
    <3> QED BY <3>1, <3>3
  <2> QED BY <2>1, <2>2, <2>5, <2>6
<1>4. e.node \in Nodes /\ e.rv \in RVs
  BY <1>3 DEF Event
<1> HIDE DEF e
<1>5. /\ nodeRV' \in [Nodes -> RVs] /\ \A n \in Nodes : nodeRV[n] <= nodeRV'[n]
      /\ e.rv <= nodeRV'[e.node]
  <2> DEFINE larger == LargestOf({nodeRV[e.node], e.rv})
  <2>1. nodeRV[e.node] \in RVs
    BY <1>4 DEF Typed
  <2>2. larger \in RVs /\ nodeRV[e.node] <= larger /\ e.rv <= larger
    BY <1>4, <2>1, LargerOfTwo
  <2>3. nodeRV' = [nodeRV EXCEPT ![e.node] = larger]
    BY <1>1
  <2> HIDE DEF larger
  <2> QED BY <1>4, <2>2, <2>3, PersistenceAssumption DEF Typed, RVs
<1>6. currentRVs' \in [Regions -> RVs] /\ \A q \in Regions : currentRVs[q] <= currentRVs'[q]
  <2> DEFINE larger == LargestOf({currentRVs[r], e.rv})
  <2>1. currentRVs[r] \in RVs
    BY DEF Typed
  <2>2. larger \in RVs /\ currentRVs[r] <= larger
    BY <1>4, <2>1, LargerOfTwo
  <2>3. currentRVs' = [currentRVs EXCEPT ![r] = larger]
    BY <1>1
  <2> HIDE DEF larger
  <2> QED BY <2>2, <2>3, PersistenceAssumption DEF Typed, RVs
<1>7. up
  BY <1>1 DEF Stopped, Idle
<1>8. Typed'
  BY <1>1, <1>5, <1>6 DEF Typed
<1>9. BatchOf(batch) \in [events : Seq(Event), at : Int, retries : Int]
        /\ BatchOf(batch).at \in DOMAIN BatchOf(batch).events
        /\ BatchOf(batch).events = batch
  BY <1>3 DEF BatchOf
<1>10. CallsTyped'
  <2> HIDE DEF batch, last
  <2> DEFINE nextPc == IF last THEN "status" ELSE "process"
             nextBatch == IF handOver THEN <<>> ELSE batch
  <2>1. nextBatch \in Seq(Event) /\ nextPc \in {"status", "process"}
    BY <1>3
  <2>2. call' = [call EXCEPT ![r].todo = Tail(@), ![r].batch = nextBatch, ![r].pc = nextPc]
    BY <1>1
  <2>3. DOMAIN call' = Regions /\ \A q \in Regions :
         call'[q] \in [pc : {"idle", "process", "status", "save", "wait"}, todo : Seq(Event),
                       batch : Seq(Event), waiting : Int, status : [Regions -> RVs]]
    <3> DEFINE Calls == [pc : {"idle", "process", "status", "save", "wait"}, todo : Seq(Event),
                         batch : Seq(Event), waiting : Int, status : [Regions -> RVs]]
    <3>1. DOMAIN call' = Regions /\ \A q \in Regions \ {r} : call'[q] = call[q]
      BY <2>2 DEF CallsTyped
    <3>2. call'[r] = [call[r] EXCEPT !.todo = Tail(@), !.batch = nextBatch, !.pc = nextPc]
      BY <2>2 DEF CallsTyped
    <3>3. call[r] \in Calls
      BY DEF CallsTyped
    <3> HIDE DEF nextBatch, nextPc
    <3>4. call'[r] \in Calls
      BY <1>3, <2>1, <3>2, <3>3
    <3> QED BY <3>1, <3>4 DEF CallsTyped
  <2>4. \A q \in Regions : call'[q].pc = "process" => call'[q].todo # <<>>
    BY <1>1, <1>3 DEF CallsTyped
  <2>5. DOMAIN saving' = Regions /\ \A q \in Regions : \A g \in saving'[q] :
         g \in [events : Seq(Event), at : Int, retries : Int] /\ g.at \in DOMAIN g.events
    BY <1>1, <1>9 DEF CallsTyped
  <2> QED BY <2>3, <2>4, <2>5 DEF CallsTyped
<1>11. InMemory(batch, nodeRV')
  <2>1. InMemory(call[r].batch, nodeRV')
    BY <1>2, <1>5, MemoryMovesForward DEF OnItsWay
  <2>2. ASSUME NEW i \in DOMAIN batch
        PROVE  batch[i].rv <= nodeRV'[batch[i].node]
    <3>1. CASE i = Len(batch)
      BY <1>2, <1>5, <3>1
    <3>2. CASE i # Len(batch)
      BY <1>2, <2>1, <3>2 DEF InMemory
    <3> QED BY <3>1, <3>2
  <2> QED BY <2>2 DEF InMemory
<1>12. OnItsWay'
  <2> HIDE DEF batch, last
  <2>1. \A q \in Regions : InMemory(call[q].batch, nodeRV')
    BY <1>5, MemoryMovesForward DEF OnItsWay, CallsTyped
  <2>2. \A q \in Regions : call'[q].batch = <<>> \/ call'[q].batch = batch
                                               \/ call'[q].batch = call[q].batch
    BY <1>1 DEF CallsTyped
  <2>3. \A q \in Regions : InMemory(call'[q].batch, nodeRV')
    BY <1>11, <2>1, <2>2 DEF InMemory
  <2>4. \A q \in Regions : \A g \in saving[q] : InMemory(g.events, nodeRV')
    BY <1>5, MemoryMovesForward DEF OnItsWay, CallsTyped
  <2>5. \A q \in Regions : \A g \in saving'[q] : g \in saving[q] \/ g = BatchOf(batch)
    BY <1>1 DEF CallsTyped
  <2>6. \A q \in Regions : \A g \in saving'[q] : InMemory(g.events, nodeRV')
    BY <1>9, <1>11, <2>4, <2>5
  <2>7. \A q, t \in Regions : call'[q].pc = "save" => call'[q].status[t] <= currentRVs'[t]
    <3> SUFFICES ASSUME NEW q \in Regions, NEW t \in Regions, call'[q].pc = "save"
                 PROVE  call'[q].status[t] <= currentRVs'[t]
      OBVIOUS
    <3>1. call[q].pc = "save" /\ call'[q].status = call[q].status
      BY <1>1 DEF CallsTyped
    <3>2. call[q].status[t] \in RVs /\ currentRVs[t] \in RVs /\ currentRVs'[t] \in RVs
      BY <1>6 DEF CallsTyped, Typed
    <3>3. call[q].status[t] <= currentRVs[t] /\ currentRVs[t] <= currentRVs'[t]
      BY <1>6, <3>1 DEF OnItsWay
    <3> QED BY <3>1, <3>2, <3>3, PersistenceAssumption DEF RVs
  <2> QED BY <2>3, <2>6, <2>7 DEF OnItsWay
<1>13. NothingFromBefore'
  <2>1. \A n \in Nodes : redis.nodes[n] <= nodeRV'[n]
    BY <1>5, <1>7, PersistenceAssumption DEF NothingFromBefore, Typed, RVs
  <2>2. \A q \in Regions : redis.status[q] <= currentRVs'[q]
    BY <1>6, <1>7, PersistenceAssumption DEF NothingFromBefore, Typed, RVs
  <2> QED BY <1>1, <1>7, <2>1, <2>2 DEF NothingFromBefore
<1> QED BY <1>1, <1>7, <1>8, <1>10, <1>12, <1>13 DEF Stopped

(* Steps of a call that touch neither memory nor what is being saved.      *)
LEMMA CallStepKeeps ==
  ASSUME PInv, NEW r \in Regions,
         \/ getNodeStoreStatus(r) \/ PersistNodeStoreStatus(r) \/ WaitForAllNodesSaved(r)
  PROVE  PInv'
<1>1. UNCHANGED <<up, nodeRV, currentRVs, saving, client, version>> /\ redis'.nodes = redis.nodes
      /\ redis'.assignment = redis.assignment /\ redis'.clients = redis.clients
  BY DEF getNodeStoreStatus, PersistNodeStoreStatus, WaitForAllNodesSaved, Typed
<1>2. up
  <2>1. call[r].pc # "idle"
    BY DEF getNodeStoreStatus, PersistNodeStoreStatus, WaitForAllNodesSaved
  <2> QED BY <2>1 DEF Stopped, Idle
<1>3. ASSUME NEW next, call' = [call EXCEPT ![r] = next],
             next \in [pc : {"idle", "save", "wait"}, todo : Seq(Event),
                       batch : Seq(Event), waiting : Int, status : [Regions -> RVs]],
             next.batch \in {<<>>, call[r].batch},
             next.pc = "save" => next.status = currentRVs
      PROVE  CallsTyped' /\ OnItsWay'
  <2>1. DOMAIN call' = Regions /\ call'[r] = next /\ \A q \in Regions \ {r} : call'[q] = call[q]
    BY <1>3 DEF CallsTyped
  <2>2. CallsTyped'
    BY <1>1, <1>3, <2>1 DEF CallsTyped
  <2>3. \A q \in Regions : InMemory(call'[q].batch, nodeRV)
    BY <1>3, <2>1 DEF OnItsWay, InMemory
  <2>4. \A q, t \in Regions : call'[q].pc = "save" => call'[q].status[t] <= currentRVs[t]
    <3>1. \A t \in Regions : currentRVs[t] <= currentRVs[t]
      BY PersistenceAssumption DEF Typed, RVs
    <3> QED BY <1>3, <2>1, <3>1 DEF OnItsWay
  <2> QED BY <1>1, <2>2, <2>3, <2>4 DEF OnItsWay
<1>4. call[r] \in [pc : {"idle", "process", "status", "save", "wait"}, todo : Seq(Event),
                   batch : Seq(Event), waiting : Int, status : [Regions -> RVs]]
  BY DEF CallsTyped
<1>5. CallsTyped' /\ OnItsWay'
  <2>1. CASE getNodeStoreStatus(r)
    <3> DEFINE next == [call[r] EXCEPT !.status = currentRVs, !.pc = "save"]
    <3>1. call' = [call EXCEPT ![r] = next]
      BY <2>1 DEF getNodeStoreStatus, CallsTyped
    <3>2. /\ next \in [pc : {"idle", "save", "wait"}, todo : Seq(Event), batch : Seq(Event),
                       waiting : Int, status : [Regions -> RVs]]
          /\ next.batch = call[r].batch /\ next.status = currentRVs
      BY <1>4 DEF Typed
    <3> HIDE DEF next
    <3> QED BY <1>3, <3>1, <3>2
  <2>2. CASE PersistNodeStoreStatus(r)
    <3> DEFINE next == [call[r] EXCEPT !.pc = "wait"]
    <3>1. call' = [call EXCEPT ![r] = next]
      BY <2>2 DEF PersistNodeStoreStatus, CallsTyped
    <3>2. /\ next \in [pc : {"idle", "save", "wait"}, todo : Seq(Event), batch : Seq(Event),
                       waiting : Int, status : [Regions -> RVs]]
          /\ next.batch = call[r].batch /\ next.pc = "wait"
      BY <1>4
    <3> HIDE DEF next
    <3> QED BY <1>3, <3>1, <3>2
  <2>3. CASE WaitForAllNodesSaved(r)
    <3>1. call' = [call EXCEPT ![r] = Idle]
      BY <2>3 DEF WaitForAllNodesSaved
    <3>2. /\ Idle \in [pc : {"idle", "save", "wait"}, todo : Seq(Event), batch : Seq(Event),
                       waiting : Int, status : [Regions -> RVs]]
          /\ Idle.batch = <<>> /\ Idle.pc = "idle"
      BY PersistenceAssumption DEF Idle, RVs
    <3> QED BY <1>3, <3>1, <3>2
  <2> QED BY <2>1, <2>2, <2>3
<1>6. redis' \in [nodes : [Nodes -> RVs], status : [Regions -> RVs],
                  assignment : Clients \cup {None}, clients : SUBSET Clients]
      /\ \A q \in Regions : redis'.status[q] <= currentRVs[q]
  <2>1. CASE redis' = redis
    BY <1>2, <2>1 DEF Typed, NothingFromBefore
  <2>2. CASE PersistNodeStoreStatus(r) /\ redis' = [redis EXCEPT !.status = call[r].status]
    BY <1>4, <2>2 DEF Typed, OnItsWay, PersistNodeStoreStatus
  <2> QED BY <2>1, <2>2 DEF getNodeStoreStatus, PersistNodeStoreStatus, WaitForAllNodesSaved
<1>7. Typed' /\ Stopped'
  BY <1>1, <1>2, <1>6 DEF Typed, Stopped
<1>8. NothingFromBefore'
  BY <1>1, <1>2, <1>6 DEF NothingFromBefore
<1> QED BY <1>5, <1>7, <1>8

(* A node is saved, or not, from a batch that memory is not behind of.     *)
LEMMA PersistNodesKeeps ==
  ASSUME PInv, NEW r \in Regions, PersistNodes(r)
  PROVE  PInv'
<1>1. PICK g \in saving[r] : SaveNode(r, g) \/ FailToSaveNode(r, g)
  BY DEF PersistNodes
<1> DEFINE e == g.events[g.at]
<1>2. /\ g \in [events : Seq(Event), at : Int, retries : Int] /\ g.at \in DOMAIN g.events
      /\ InMemory(g.events, nodeRV)
  BY DEF CallsTyped, OnItsWay
<1>3. e \in Event /\ e.rv <= nodeRV[e.node]
  BY <1>2 DEF InMemory
<1>4. e.node \in Nodes /\ e.rv \in RVs
  BY <1>3 DEF Event
<1>5. up
  BY DEF Stopped
<1>6. redis' \in {redis, [redis EXCEPT !.nodes[e.node] = e.rv]}
  BY <1>1 DEF SaveNode, FailToSaveNode
<1>7. UNCHANGED <<up, nodeRV, currentRVs, client, version>>
  BY <1>1 DEF SaveNode, FailToSaveNode
<1>8. \/ \E k \in Int : call' = [call EXCEPT ![r].waiting = k]
      \/ UNCHANGED call
  <2>1. CASE Done(r, g, TRUE) \/ Done(r, g, FALSE)
    <3>1. call[r].waiting - Len(g.events) \in Int
      BY <1>2 DEF CallsTyped
    <3> QED BY <2>1, <3>1 DEF Done, Released
  <2>2. CASE UNCHANGED call
    BY <2>2
  <2> QED BY <1>1, <2>1, <2>2 DEF SaveNode, FailToSaveNode, GoOn
<1>9. \E next \in [events : Seq(Event), at : Int, retries : Int] :
        /\ next.events = g.events /\ next.at \in DOMAIN g.events
        /\ saving' \in {[saving EXCEPT ![r] = @ \ {g}], [saving EXCEPT ![r] = (@ \ {g}) \cup {next}]}
  <2>1. CASE saving' = [saving EXCEPT ![r] = @ \ {g}]
    BY <1>2, <2>1
  <2>2. CASE g.at # Len(g.events) /\ GoOn(r, g, [g EXCEPT !.at = @ + 1])
    <3> DEFINE next == [g EXCEPT !.at = @ + 1]
    <3>1. next \in [events : Seq(Event), at : Int, retries : Int] /\ next.events = g.events
          /\ next.at \in DOMAIN g.events
      BY <1>2, <2>2
    <3> QED BY <2>2, <3>1 DEF GoOn
  <2>3. CASE GoOn(r, g, [g EXCEPT !.at = 1, !.retries = @ + 1])
    <3> DEFINE next == [g EXCEPT !.at = 1, !.retries = @ + 1]
    <3>1. next \in [events : Seq(Event), at : Int, retries : Int] /\ next.events = g.events
          /\ next.at \in DOMAIN g.events
      <4>1. DOMAIN g.events = 1..Len(g.events) /\ g.at \in Int
        BY <1>2
      <4>2. 1 \in DOMAIN g.events
        BY <1>2, <4>1
      <4>3. g.events \in Seq(Event) /\ g.retries + 1 \in Int
        BY <1>2
      <4> DEFINE atOne == [g EXCEPT !.at = 1]
      <4>4. /\ atOne \in [events : Seq(Event), at : Int, retries : Int]
            /\ atOne.events = g.events /\ atOne.at = 1 /\ atOne.retries = g.retries
        BY <1>2
      <4>5. next = [atOne EXCEPT !.retries = g.retries + 1]
        BY <1>2
      <4> HIDE DEF next, atOne
      <4>6. /\ next \in [events : Seq(Event), at : Int, retries : Int]
            /\ next.events = atOne.events /\ next.at = atOne.at
        BY <4>3, <4>4, <4>5
      <4> QED BY <4>2, <4>4, <4>6
    <3> QED BY <2>3, <3>1 DEF GoOn
  <2> QED BY <1>1, <2>1, <2>2, <2>3 DEF SaveNode, FailToSaveNode, Done
<1> HIDE DEF e
<1>10. /\ DOMAIN saving' = Regions
       /\ \A q \in Regions : \A h \in saving'[q] :
            \/ h \in saving[q]
            \/ /\ h \in [events : Seq(Event), at : Int, retries : Int]
               /\ h.events = g.events /\ h.at \in DOMAIN g.events
  <2>1. PICK next \in [events : Seq(Event), at : Int, retries : Int] :
        /\ next.events = g.events /\ next.at \in DOMAIN g.events
        /\ saving' \in {[saving EXCEPT ![r] = @ \ {g}], [saving EXCEPT ![r] = (@ \ {g}) \cup {next}]}
    BY <1>9
  <2>2. DOMAIN saving' = Regions /\ saving'[r] \subseteq saving[r] \cup {next}
        /\ \A q \in Regions \ {r} : saving'[q] = saving[q]
    BY <2>1 DEF CallsTyped
  <2> QED BY <2>1, <2>2
<1>15. CallsTyped'
  <2>1. DOMAIN call' = Regions /\ \A q \in Regions :
         call'[q] \in [pc : {"idle", "process", "status", "save", "wait"}, todo : Seq(Event),
                       batch : Seq(Event), waiting : Int, status : [Regions -> RVs]]
    <3>1. DOMAIN call = Regions /\ \A q \in Regions :
           call[q] \in [pc : {"idle", "process", "status", "save", "wait"}, todo : Seq(Event),
                        batch : Seq(Event), waiting : Int, status : [Regions -> RVs]]
      BY DEF CallsTyped
    <3>2. ASSUME NEW k \in Int, call' = [call EXCEPT ![r].waiting = k]
          PROVE  DOMAIN call' = Regions /\ \A q \in Regions :
           call'[q] \in [pc : {"idle", "process", "status", "save", "wait"}, todo : Seq(Event),
                         batch : Seq(Event), waiting : Int, status : [Regions -> RVs]]
      <4>1. DOMAIN call' = Regions /\ call'[r] = [call[r] EXCEPT !.waiting = k]
            /\ \A q \in Regions \ {r} : call'[q] = call[q]
        BY <3>1, <3>2
      <4>2. call'[r] \in [pc : {"idle", "process", "status", "save", "wait"}, todo : Seq(Event),
                          batch : Seq(Event), waiting : Int, status : [Regions -> RVs]]
        BY <3>1, <4>1
      <4> QED BY <3>1, <4>1, <4>2
    <3> QED BY <1>8, <3>1, <3>2
  <2>2. \A q \in Regions : call'[q].pc = "process" => call'[q].todo # <<>>
    BY <1>8 DEF CallsTyped
  <2>3. DOMAIN saving' = Regions /\ \A q \in Regions : \A h \in saving'[q] :
         h \in [events : Seq(Event), at : Int, retries : Int] /\ h.at \in DOMAIN h.events
    BY <1>10 DEF CallsTyped
  <2> QED BY <2>1, <2>2, <2>3 DEF CallsTyped
<1>11. OnItsWay'
  <2>1. \A q \in Regions : call'[q].batch = call[q].batch /\ call'[q].status = call[q].status
                           /\ call'[q].pc = call[q].pc
    <3>1. CASE UNCHANGED call
      BY <3>1
    <3>2. ASSUME NEW k \in Int, call' = [call EXCEPT ![r].waiting = k], NEW q \in Regions
          PROVE  call'[q].batch = call[q].batch /\ call'[q].status = call[q].status
                 /\ call'[q].pc = call[q].pc
      BY <3>2 DEF CallsTyped
    <3> QED BY <1>8, <3>1, <3>2
  <2>2. \A q \in Regions : \A h \in saving'[q] : InMemory(h.events, nodeRV)
    <3> SUFFICES ASSUME NEW q \in Regions, NEW h \in saving'[q]
                 PROVE  InMemory(h.events, nodeRV)
      OBVIOUS
    <3>1. CASE h \in saving[q]
      BY <3>1 DEF OnItsWay
    <3>2. CASE h.events = g.events
      BY <1>2, <3>2
    <3> QED BY <1>10, <3>1, <3>2
  <2> QED BY <1>7, <2>1, <2>2 DEF OnItsWay
<1>12. Typed'
  BY <1>4, <1>6, <1>7 DEF Typed
<1>13. NothingFromBefore'
  BY <1>3, <1>4, <1>5, <1>6, <1>7 DEF NothingFromBefore, Typed
<1>14. Stopped'
  BY <1>5, <1>7 DEF Stopped
<1> QED BY <1>11, <1>12, <1>13, <1>14, <1>15

(* Registration.  A client is in redis only after it was assigned stores.  *)
LEMMA RegistrationKeeps ==
  ASSUME PInv, NEW c \in Clients,
         Allocate(c) \/ PersistVirtualNodesAssignments(c) \/ PersistClient(c)
  PROVE  PInv'
<1>1. UNCHANGED <<up, nodeRV, currentRVs, call, saving, version>>
      /\ redis'.nodes = redis.nodes /\ redis'.status = redis.status
  BY DEF Allocate, PersistVirtualNodesAssignments, PersistClient, Typed
<1>2. up
  BY DEF Stopped, Allocate, PersistVirtualNodesAssignments, PersistClient
<1>3. CallsTyped' /\ OnItsWay' /\ Stopped'
  BY <1>1, <1>2 DEF CallsTyped, OnItsWay, Stopped
<1>4. Typed'
  BY DEF Typed, Allocate, PersistVirtualNodesAssignments, PersistClient
<1>5. \A d \in redis.clients : d \in Clients /\ client[d] \in {"registered", "failed"}
  BY <1>2 DEF NothingFromBefore, Typed
<1>6. /\ redis.assignment \in Clients \cup {None} /\ None \notin Clients
      /\ redis.assignment # None => client[redis.assignment] # "unknown"
  BY <1>2, PersistenceAssumption DEF NothingFromBefore, Typed
<1>7. /\ \A d \in redis'.clients : client'[d] \in {"registered", "failed"}
      /\ redis'.assignment # None => client'[redis'.assignment] # "unknown"
  <2>1. CASE Allocate(c)
    <3>1. client[c] = "unknown" /\ client' = [client EXCEPT ![c] = "allocated"] /\ redis' = redis
      BY <2>1 DEF Allocate
    <3> QED BY <1>5, <1>6, <3>1 DEF Typed
  <2>2. CASE PersistVirtualNodesAssignments(c)
    <3>1. /\ client[c] = "allocated" /\ client' = [client EXCEPT ![c] = "assigned"]
          /\ redis' \in {redis, [redis EXCEPT !.assignment = c]}
      BY <2>2 DEF PersistVirtualNodesAssignments
    <3> QED BY <1>5, <1>6, <3>1 DEF Typed
  <2>3. CASE PersistClient(c)
    <3>1. /\ client[c] = "assigned"
          /\ redis' \in {redis, [redis EXCEPT !.clients = @ \cup {c}]}
          /\ \E answer \in {"registered", "failed"} : client' = [client EXCEPT ![c] = answer]
      BY <2>3 DEF PersistClient
    <3> QED BY <1>5, <1>6, <3>1 DEF Typed
  <2> QED BY <2>1, <2>2, <2>3
<1> QED BY <1>1, <1>2, <1>3, <1>4, <1>7 DEF NothingFromBefore

(* What stops is forgotten, and redis keeps what it has.                   *)
LEMMA StopKeeps == ASSUME PInv, Stop PROVE PInv'
<1>1. 0 \in RVs
  BY PersistenceAssumption DEF RVs
<1>3. Typed'
  BY <1>1 DEF Stop, Typed
<1>4. Stopped' /\ NothingFromBefore'
  BY DEF Stop, Stopped, NothingFromBefore
<1>2. CallsTyped' /\ OnItsWay'
  BY PersistenceAssumption DEF Stop, CallsTyped, OnItsWay, InMemory, Idle, RVs
<1> QED BY <1>2, <1>3, <1>4

(* The status of before is gone with the flush, and memory starts at zero. *)
LEMMA RunKeeps == ASSUME PInv, Run PROVE PInv'
<1>1. /\ up' /\ redis' = Emptied /\ currentRVs' = [r \in Regions |-> 0]
      /\ UNCHANGED <<nodeRV, call, saving, client, version>> /\ ~up
  BY DEF Run, FlushAll, RVsAtStart
<1>2. Typed'
  BY <1>1, PersistenceAssumption DEF Typed, Emptied, RVs, Run
<1>3. CallsTyped' /\ Stopped'
  BY <1>1 DEF CallsTyped, Stopped
<1>4. OnItsWay'
  BY <1>1 DEF OnItsWay, Stopped, Idle, InMemory
<1>5. NothingFromBefore'
  BY <1>1, PersistenceAssumption DEF NothingFromBefore, Emptied, Typed, RVs
<1> QED BY <1>2, <1>3, <1>4, <1>5

(* Every step of the service preserves the invariant.                      *)
LEMMA StepKeeps == PInv /\ [Next]_vars => PInv'
<1> SUFFICES ASSUME PInv, [Next]_vars PROVE PInv'
  OBVIOUS
<1>1. CASE UNCHANGED vars
  BY <1>1 DEF vars, memory, Typed, CallsTyped, OnItsWay, Stopped, NothingFromBefore
<1>2. CASE Next
  BY <1>2, ProcessEventsKeeps, processNodeEventKeeps, CallStepKeeps, PersistNodesKeeps,
     RegistrationKeeps, StopKeeps, RunKeeps
  DEF Next, Step
<1> QED BY <1>1, <1>2

(* What redis holds is of this run of the service and not ahead of its     *)
(* memory, whatever is lost, tried again or given up.                      *)
THEOREM NeverAhead == Spec => []NothingFromBefore
<1>1. PInv => NothingFromBefore
  OBVIOUS
<1> QED BY <1>1, InvInit, StepKeeps, PTL DEF Spec

-----------------------------------------------------------------------------
(* The WaitGroup of a call counts the events that are neither saved nor    *)
(* given up: those not processed yet, those in the batch being filled and  *)
(* those of the goroutines.  No event is in two of these places, for the   *)
(* events of a call differ in node or version.                             *)

Calls == [pc : {"idle", "process", "status", "save", "wait"}, todo : Seq(Event),
          batch : Seq(Event), waiting : Int, status : [Regions -> RVs]]
Goroutines == [events : Seq(Event), at : Int, retries : Int]

(* The events that call c and its goroutines s still have to save.         *)
Outstanding(c, s) == Range(c.todo) \cup Range(c.batch) \cup UNION {Range(g.events) : g \in s}

Apart(c, s) ==
  /\ IsInjective(c.todo) /\ IsInjective(c.batch)
  /\ Range(c.todo) \cap Range(c.batch) = {}
  /\ \A g \in s : /\ IsInjective(g.events)
                 /\ Range(g.events) \cap (Range(c.todo) \cup Range(c.batch)) = {}
                 /\ \A h \in s : h = g \/ Range(g.events) \cap Range(h.events) = {}

Counts(c, s) ==
  /\ Apart(c, s)
  /\ IsFiniteSet(Outstanding(c, s)) /\ c.waiting = Cardinality(Outstanding(c, s))
  /\ c.pc # "process" => c.todo = <<>> /\ c.batch = <<>>
  /\ c.pc = "idle" => s = {}
  /\ \A g \in s : g.retries \in 0..MaxRetries

(* Where an outstanding event is.                                          *)
LEMMA InOutstanding ==
  ASSUME NEW c, NEW s
  PROVE  \A e : e \in Outstanding(c, s) <=> \/ e \in Range(c.todo) \/ e \in Range(c.batch)
                                         \/ \E g \in s : e \in Range(g.events)
BY DEF Outstanding

(* Nothing is in the empty sequence.                                       *)
LEMMA EmptyRange == Range(<<>>) = {} /\ IsInjective(<<>>)
BY DEF Range, IsInjective

(* A sequence is its head and its tail.                                    *)
LEMMA RangeOfTail ==
  ASSUME NEW S, NEW s \in Seq(S), s # <<>>, IsInjective(s)
  PROVE  /\ Range(s) = Range(Tail(s)) \cup {Head(s)} /\ Head(s) \notin Range(Tail(s))
         /\ IsInjective(Tail(s))
<1>1. /\ Len(s) \in Nat \ {0} /\ Head(s) = s[1] /\ DOMAIN s = 1..Len(s)
      /\ DOMAIN Tail(s) = 1..(Len(s) - 1)
  OBVIOUS
<1>2. \A i \in 1..(Len(s) - 1) : Tail(s)[i] = s[i + 1] /\ i + 1 \in 1..Len(s)
  OBVIOUS
<1>3. \A i \in 1..Len(s) : i = 1 \/ (i - 1 \in 1..(Len(s) - 1) /\ s[i] = Tail(s)[i - 1])
  BY <1>1, <1>2
<1>4. Range(s) = Range(Tail(s)) \cup {Head(s)}
  <2>1. \A e : e \in Range(s) <=> \E i \in 1..Len(s) : e = s[i]
    BY <1>1, Zenon DEF Range
  <2>2. \A e : e \in Range(Tail(s)) <=> \E i \in 1..(Len(s) - 1) : e = Tail(s)[i]
    BY <1>1, Zenon DEF Range
  <2>3. 1 \in 1..Len(s)
    BY <1>1
  <2>4. \A e : e \in Range(s) => e \in Range(Tail(s)) \/ e = Head(s)
    <3> SUFFICES ASSUME NEW i \in 1..Len(s), i # 1 PROVE s[i] \in Range(Tail(s))
      BY <1>1, <2>1
    <3> QED BY <1>3, <2>2
  <2>5. \A e : e \in Range(Tail(s)) \/ e = Head(s) => e \in Range(s)
    BY <1>1, <1>2, <2>1, <2>2, <2>3
  <2> QED BY <2>4, <2>5
<1>5. ASSUME NEW i \in 1..(Len(s) - 1), Tail(s)[i] = s[1]
      PROVE  FALSE
  <2>1. i + 1 = 1
    BY <1>1, <1>2, <1>5 DEF IsInjective
  <2> QED BY <1>1, <2>1
<1>6. ASSUME NEW i \in 1..(Len(s) - 1), NEW j \in 1..(Len(s) - 1), Tail(s)[i] = Tail(s)[j]
      PROVE  i = j
  <2>1. i + 1 = j + 1
    BY <1>1, <1>2, <1>6 DEF IsInjective
  <2> QED BY <2>1
<1> QED BY <1>1, <1>4, <1>5, <1>6 DEF Range, IsInjective

(* What appending to a sequence adds.                                      *)
LEMMA RangeOfAppend ==
  ASSUME NEW S, NEW s \in Seq(S), NEW x \in S
  PROVE  /\ Range(Append(s, x)) = Range(s) \cup {x}
         /\ IsInjective(s) /\ x \notin Range(s) => IsInjective(Append(s, x))
<1> DEFINE t == Append(s, x)
<1>1. /\ Len(s) \in Nat /\ DOMAIN s = 1..Len(s) /\ DOMAIN t = 1..(Len(s) + 1)
      /\ t[Len(s) + 1] = x
  OBVIOUS
<1>2. \A i \in 1..Len(s) : t[i] = s[i]
  OBVIOUS
<1> HIDE DEF t
<1>3. \A i \in 1..(Len(s) + 1) : i \in 1..Len(s) \/ i = Len(s) + 1
  BY <1>1
<1>4. Len(s) + 1 \in 1..(Len(s) + 1) /\ \A i \in 1..Len(s) : i \in 1..(Len(s) + 1)
  BY <1>1
<1>5. Range(t) = Range(s) \cup {x}
  BY <1>1, <1>2, <1>3, <1>4 DEF Range
<1>6. IsInjective(s) /\ x \notin Range(s) => IsInjective(t)
  BY <1>1, <1>2, <1>3 DEF Range, IsInjective
<1> QED BY <1>5, <1>6 DEF t

(* A sequence without repetitions has as many elements as places.          *)
LEMMA RangeCounted ==
  ASSUME NEW S, NEW s \in Seq(S), IsInjective(s)
  PROVE  IsFiniteSet(Range(s)) /\ Cardinality(Range(s)) = Len(s)
<1>1. Len(s) \in Nat /\ DOMAIN s = 1..Len(s) /\ s \in [1..Len(s) -> Range(s)]
  BY DEF Range
<1>2. IsFiniteSet(1..Len(s)) /\ Cardinality(1..Len(s)) = Len(s)
  <2>1. /\ IsFiniteSet(1..Len(s))
        /\ Cardinality(1..Len(s)) = IF 1 > Len(s) THEN 0 ELSE Len(s) - 1 + 1
    BY <1>1, 1 \in Int, Len(s) \in Int, FS_Interval, Zenon
  <2> QED BY <1>1, <2>1
<1>3. s \in Surjection(1..Len(s), Range(s)) /\ s \in Injection(1..Len(s), Range(s))
  BY <1>1 DEF Surjection, Injection, Range
<1> QED BY <1>2, <1>3, FS_Surjection, Zenon

(* A call that has nothing to save.                                        *)
LEMMA IdleCounts == Counts(Idle, {})
<1>1. \A e : e \notin Outstanding(Idle, {})
  BY InOutstanding, EmptyRange DEF Idle
<1>2. Outstanding(Idle, {}) = {}
  BY <1>1
<1> QED BY <1>2, EmptyRange, FS_EmptySet DEF Counts, Apart, Idle

(* A call that begins waits for all its events.                            *)
LEMMA BegunCounts ==
  ASSUME NEW events \in Seq(Event), IsInjective(events)
  PROVE  Counts([Idle EXCEPT !.pc = "process", !.todo = events, !.waiting = Len(events)], {})
<1> DEFINE begun == [Idle EXCEPT !.pc = "process", !.todo = events, !.waiting = Len(events)]
<1>1. begun.pc = "process" /\ begun.todo = events /\ begun.batch = <<>>
      /\ begun.waiting = Len(events)
  BY DEF Idle
<1> HIDE DEF begun
<1>2. \A e : e \in Outstanding(begun, {}) <=> e \in Range(events)
  BY <1>1, InOutstanding, EmptyRange
<1>3. Outstanding(begun, {}) = Range(events)
  BY <1>2
<1>4. Counts(begun, {})
  BY <1>1, <1>3, EmptyRange, RangeCounted DEF Counts, Apart
<1> QED BY <1>4 DEF begun

(* The next event is outstanding whether it is in todo, in the batch or    *)
(* with the goroutine that the batch was handed to.                        *)
LEMMA TakenCounts ==
  ASSUME NEW c \in Calls, NEW s \in SUBSET Goroutines, Counts(c, s),
         c.pc = "process", c.todo # <<>>,
         NEW d \in Calls, NEW t \in SUBSET Goroutines,
         d.todo = Tail(c.todo), d.waiting = c.waiting,
         \/ /\ d.batch = Append(c.batch, Head(c.todo)) /\ t = s /\ d.pc = "process"
         \/ /\ d.batch = <<>> /\ t = s \cup {BatchOf(Append(c.batch, Head(c.todo)))}
            /\ d.pc # "idle"
            /\ d.pc # "process" => d.todo = <<>>
  PROVE  Counts(d, t)
<1> DEFINE e == Head(c.todo)
           batch == Append(c.batch, e)
           rest == Tail(c.todo)
<1>1. c.todo \in Seq(Event) /\ c.batch \in Seq(Event) /\ e \in Event
  BY DEF Calls
<1>2. /\ Range(c.todo) = Range(rest) \cup {e} /\ e \notin Range(rest) /\ IsInjective(rest)
  BY <1>1, RangeOfTail DEF Counts, Apart
<1>3. /\ Range(batch) = Range(c.batch) \cup {e} /\ IsInjective(batch)
      /\ Range(batch) \cap Range(rest) = {}
  <2>1. e \notin Range(c.batch)
    BY <1>2 DEF Counts, Apart
  <2> QED BY <1>1, <1>2, <2>1, RangeOfAppend DEF Counts, Apart
<1>4. \A g \in s : /\ IsInjective(g.events)
                 /\ Range(g.events) \cap (Range(rest) \cup Range(batch)) = {}
                 /\ \A h \in s : h = g \/ Range(g.events) \cap Range(h.events) = {}
  BY <1>2, <1>3 DEF Counts, Apart
<1> HIDE DEF e, batch, rest
<1>5. CASE d.batch = batch /\ t = s /\ d.pc = "process"
  <2>1. \A x : x \in Outstanding(d, t) <=> x \in Outstanding(c, s)
    BY <1>2, <1>3, <1>5, InOutstanding DEF rest
  <2>2. Outstanding(d, t) = Outstanding(c, s)
    BY <2>1
  <2>3. Apart(d, t)
    BY <1>2, <1>3, <1>4, <1>5 DEF Apart, rest
  <2> QED BY <1>5, <2>2, <2>3 DEF Counts
<1>6. CASE /\ d.batch = <<>> /\ t = s \cup {BatchOf(batch)}
           /\ d.pc # "idle"
           /\ d.pc # "process" => d.todo = <<>>
  <2>1. BatchOf(batch).events = batch /\ BatchOf(batch).retries = 0
    BY DEF BatchOf
  <2>2. \A x : x \in Outstanding(d, t) <=> x \in Outstanding(c, s)
    BY <1>2, <1>3, <1>6, <2>1, InOutstanding, EmptyRange DEF rest
  <2>3. Outstanding(d, t) = Outstanding(c, s)
    BY <2>2
  <2>4. Apart(d, t)
    BY <1>2, <1>3, <1>4, <1>6, <2>1, EmptyRange DEF Apart, rest
  <2>5. \A g \in t : g.retries \in 0..MaxRetries
    BY <1>6, <2>1, PersistenceAssumption DEF Counts
  <2> QED BY <1>6, <2>3, <2>4, <2>5 DEF Counts
<1> QED BY <1>5, <1>6 DEF e, batch

(* Nothing that is counted changes.                                        *)
LEMMA SameCounts ==
  ASSUME NEW c \in Calls, NEW s \in SUBSET Goroutines, Counts(c, s), NEW d \in Calls,
         d.todo = c.todo, d.batch = c.batch, d.waiting = c.waiting,
         c.pc \notin {"process", "idle"}, d.pc \notin {"process", "idle"}
  PROVE  Counts(d, s)
BY DEF Counts, Apart, Outstanding

(* A goroutine that ends releases what it had to save.                     *)
LEMMA DoneCounts ==
  ASSUME NEW c \in Calls, NEW s \in SUBSET Goroutines, Counts(c, s), NEW g \in s,
         NEW d \in Calls, d = [c EXCEPT !.waiting = @ - Len(g.events)]
  PROVE  Counts(d, s \ {g})
<1>1. /\ d.todo = c.todo /\ d.batch = c.batch /\ d.pc = c.pc
      /\ d.waiting = c.waiting - Len(g.events)
  OBVIOUS
<1>2. g.events \in Seq(Event) /\ IsInjective(g.events)
  BY DEF Goroutines, Counts, Apart
<1>3. IsFiniteSet(Range(g.events)) /\ Cardinality(Range(g.events)) = Len(g.events)
  BY <1>2, RangeCounted
<1>4. Outstanding(d, s \ {g}) = Outstanding(c, s) \ Range(g.events)
  <2>1. \A x : x \in Outstanding(d, s \ {g}) <=> /\ x \in Outstanding(c, s)
                                               /\ x \notin Range(g.events)
    <3> SUFFICES ASSUME NEW x
                 PROVE  x \in Outstanding(d, s \ {g}) <=> /\ x \in Outstanding(c, s)
                                                       /\ x \notin Range(g.events)
      OBVIOUS
    <3>1. x \in Outstanding(d, s \ {g}) <=> \/ x \in Range(c.todo) \/ x \in Range(c.batch)
                                           \/ \E h \in s \ {g} : x \in Range(h.events)
      BY <1>1, InOutstanding, Zenon
    <3>2. x \in Outstanding(c, s) <=> \/ x \in Range(c.todo) \/ x \in Range(c.batch)
                                    \/ \E h \in s : x \in Range(h.events)
      BY InOutstanding, Zenon
    <3>3. x \in Range(g.events) => x \notin Range(c.todo) /\ x \notin Range(c.batch)
      BY DEF Counts, Apart
    <3>4. \A h \in s : h # g /\ x \in Range(g.events) => x \notin Range(h.events)
      BY DEF Counts, Apart
    <3> QED BY <3>1, <3>2, <3>3, <3>4
  <2> QED BY <2>1
<1>5. Outstanding(c, s) \cap Range(g.events) = Range(g.events)
  BY InOutstanding
<1> DEFINE all == Outstanding(c, s)
<1>9. IsFiniteSet(all)
  BY DEF Counts
<1>6. /\ IsFiniteSet(Outstanding(c, s) \ Range(g.events))
      /\ Cardinality(Outstanding(c, s) \ Range(g.events))
           = Cardinality(Outstanding(c, s)) - Cardinality(Range(g.events))
  <2> HIDE DEF all
  <2>1. /\ IsFiniteSet(all \ Range(g.events))
        /\ Cardinality(all \ Range(g.events))
             = Cardinality(all) - Cardinality(all \cap Range(g.events))
    BY <1>9, FS_Difference
  <2> QED BY <1>5, <2>1 DEF all
<1>7. Apart(d, s \ {g})
  BY <1>1 DEF Counts, Apart
<1> QED BY <1>1, <1>3, <1>4, <1>6, <1>7 DEF Counts

(* A goroutine that goes on, or starts again, has the same events.         *)
LEMMA GoesOnCounts ==
  ASSUME NEW c \in Calls, NEW s \in SUBSET Goroutines, Counts(c, s), NEW g \in s,
         NEW next \in Goroutines, next.events = g.events, next.retries \in 0..MaxRetries
  PROVE  Counts(c, (s \ {g}) \cup {next})
<1> DEFINE t == (s \ {g}) \cup {next}
<1>1. \A h \in t : (h = next /\ h.events = g.events) \/ (h \in s /\ h # g)
  OBVIOUS
<1>2. \A x : x \in Outstanding(c, t) <=> x \in Outstanding(c, s)
  <2>1. \A x : (\E h \in t : x \in Range(h.events)) <=> (\E h \in s : x \in Range(h.events))
    <3>1. next \in t /\ \A h \in s : h = g \/ h \in t
      OBVIOUS
    <3> QED BY <1>1, <3>1
  <2> QED BY <2>1, InOutstanding
<1>3. Outstanding(c, t) = Outstanding(c, s)
  BY <1>2
<1>4. Apart(c, t)
  <2> SUFFICES ASSUME NEW h \in t
               PROVE  /\ IsInjective(h.events)
                      /\ Range(h.events) \cap (Range(c.todo) \cup Range(c.batch)) = {}
                      /\ \A k \in t : k = h \/ Range(h.events) \cap Range(k.events) = {}
    BY DEF Counts, Apart
  <2>1. \A k \in s : k = g \/ Range(g.events) \cap Range(k.events) = {}
    BY DEF Counts, Apart
  <2>2. \A k, l \in s : k = l \/ Range(k.events) \cap Range(l.events) = {}
    BY DEF Counts, Apart
  <2>3. \A k \in t : k = h \/ Range(h.events) \cap Range(k.events) = {}
    BY <1>1, <2>1, <2>2
  <2> QED BY <1>1, <2>3 DEF Counts, Apart
<1>5. \A h \in t : h.retries \in 0..MaxRetries
  BY <1>1 DEF Counts
<1>6. c.pc # "idle"
  BY DEF Counts
<1> HIDE DEF t
<1>7. Counts(c, t)
  BY <1>3, <1>4, <1>5, <1>6 DEF Counts
<1> QED BY <1>7 DEF t

(* Once everything is released all goroutines have ended.                  *)
LEMMA ReleasedMeansEnded ==
  ASSUME NEW c \in Calls, NEW s \in SUBSET Goroutines, Counts(c, s), c.waiting = 0,
         \A g \in s : g.at \in DOMAIN g.events
  PROVE  s = {}
<1>1. Outstanding(c, s) = {}
  BY FS_EmptySet DEF Counts
<1>2. \A g \in s : g.events[g.at] \in Range(g.events)
  BY DEF Range
<1>3. \A g \in s : \A e \in Range(g.events) : e \in Outstanding(c, s)
  BY InOutstanding
<1> QED BY <1>1, <1>2, <1>3

(* The events that are pulled differ from each other.                      *)
LEMMA PulledDistinct ==
  ASSUME NEW r \in Regions, version \in [Nodes -> RVs], NEW events \in Pulled(r)
  PROVE  IsInjective(events)
<1>1. CASE events \in EveryNode(r)
  <2>1. PICK ns \in Orders(r) :
               events = [i \in DOMAIN ns |-> [node |-> ns[i], rv |-> version[ns[i]]]]
    BY <1>1 DEF EveryNode
  <2> DEFINE all == NodesOf(r)
             places == 1..Cardinality(all)
  <2>2. IsFiniteSet(all) /\ Cardinality(all) \in Nat
    <3>1. all \subseteq Nodes
      BY DEF NodesOf
    <3> QED BY <3>1, FS_Subset, FS_CardinalityType, PersistenceAssumption
  <2>3. ns \in [places -> all] /\ \A n \in all : \E i \in places : ns[i] = n
    BY <2>1 DEF Orders
  <2>4. IsFiniteSet(places) /\ Cardinality(places) = Cardinality(all)
    <3>1. /\ IsFiniteSet(places)
          /\ Cardinality(places) = IF 1 > Cardinality(all) THEN 0 ELSE Cardinality(all) - 1 + 1
      <4>1. Cardinality(all) \in Int
        BY <2>2
      <4> HIDE DEF all
      <4> QED BY 1 \in Int, <4>1, FS_Interval, Zenon
    <3> QED BY <2>2, <3>1
  <2> HIDE DEF all, places
  <2>5. ns \in Surjection(places, all)
    BY <2>3 DEF Surjection
  <2>6. IsInjective(ns)
    BY <2>4, <2>5, FS_SurjSameCardinalityImpliesInj DEF Injection
  <2> QED BY <2>1, <2>6 DEF IsInjective
<1>2. CASE events \in Changed(r)
  <2>1. PICK k \in 1..MaxEvents : \E ns \in [1..k -> NodesOf(r)] :
               events = [i \in 1..k |-> [node |-> ns[i], rv |-> LargestVersion(r) + i]]
    BY <1>2 DEF Changed
  <2>2. PICK ns \in [1..k -> NodesOf(r)] :
               events = [i \in 1..k |-> [node |-> ns[i], rv |-> LargestVersion(r) + i]]
    BY <2>1
  <2>3. \A i \in 1..k : events[i].rv = LargestVersion(r) + i /\ events[i].node \in NodesOf(r)
    BY <2>2
  <2>4. k \in Nat /\ DOMAIN events = 1..k
    BY <2>2, PersistenceAssumption
  <2>5. LargestVersion(r) \in Int
    <3>1. 1 \in 1..k
      BY <2>1, PersistenceAssumption
    <3>2. ns[1] \in NodesOf(r)
      BY <2>2, <3>1
    <3> QED BY <3>2, LargestIsVersion DEF RVs
  <2> QED BY <2>3, <2>4, <2>5 DEF IsInjective
<1> QED BY <1>1, <1>2 DEF Pulled

(* The counting, with what it needs of PInv.                               *)
CInv ==
  /\ PInv /\ call \in [Regions -> Calls]
  /\ \A r \in Regions : Counts(call[r], saving[r])
  /\ doubtful \subseteq Nodes /\ stops \in 0..MaxStops

(* Calls and goroutines have their types.                                  *)
LEMMA CallTyped ==
  ASSUME PInv, NEW r \in Regions
  PROVE  /\ call[r] \in Calls /\ saving[r] \in SUBSET Goroutines
         /\ \A g \in saving[r] : g.at \in DOMAIN g.events
BY DEF CallsTyped, Calls, Goroutines

(* No call is made at first.                                               *)
LEMMA InitCInv == Init => CInv
<1> SUFFICES ASSUME Init PROVE CInv
  OBVIOUS
<1>1. \A r \in Regions : call[r] = Idle /\ saving[r] = {}
  BY DEF Init
<1>2. call \in [Regions -> Calls]
  BY <1>1, InvInit, CallTyped DEF Init
<1> QED BY <1>1, <1>2, InvInit, IdleCounts, PersistenceAssumption DEF CInv, Init

(* A step of a call, and of its goroutines, leaves other calls alone.      *)
LEMMA CallCounts ==
  ASSUME CInv, PInv', NEW r \in Regions, Step(r) \/ PersistNodes(r)
  PROVE  CInv'
<1> USE DEF CInv
<1>1. stops' \in 0..MaxStops
  BY DEF Step, ProcessEvents, processNodeEvent, getNodeStoreStatus, PersistNodeStoreStatus,
         WaitForAllNodesSaved, PersistNodes, SaveNode, FailToSaveNode
<1>2. doubtful' \subseteq Nodes
  <2>1. CASE processNodeEvent(r)
    <3>1. Head(call[r].todo) \in Event
      <4>1. call[r].todo \in Seq(Event)
        BY CallTyped DEF Calls
      <4>2. call[r].pc = "process" /\ call[r].todo # <<>>
        BY <2>1 DEF processNodeEvent, CallsTyped
      <4> QED BY <4>1, <4>2
    <3>2. Head(call[r].todo).node \in Nodes
      BY <3>1 DEF Event
    <3> QED BY <2>1, <3>2 DEF processNodeEvent
  <2>2. CASE PersistNodes(r)
    <3>1. PICK g \in saving[r] : SaveNode(r, g) \/ FailToSaveNode(r, g)
      BY <2>2 DEF PersistNodes
    <3>2. g.events \in Seq(Event)
      BY CallTyped DEF Goroutines
    <3>3. \A i \in DOMAIN g.events : g.events[i].node \in Nodes
      <4>1. \A i \in DOMAIN g.events : g.events[i] \in Event
        BY <3>2
      <4> QED BY <4>1 DEF Event
    <3>4. {g.events[i].node : i \in DOMAIN g.events} \subseteq Nodes
      BY <3>3
    <3> QED BY <3>1, <3>4 DEF SaveNode, FailToSaveNode
  <2> QED BY <2>1, <2>2 DEF Step, ProcessEvents, getNodeStoreStatus, PersistNodeStoreStatus,
                          WaitForAllNodesSaved
<1>3. ASSUME NEW q \in Regions \ {r}
      PROVE  call'[q] = call[q] /\ saving'[q] = saving[q]
  <2>1. DOMAIN call = Regions /\ DOMAIN saving = Regions
    BY DEF CallsTyped
  <2>2. CASE Step(r)
    BY <2>1, <2>2 DEF Step, ProcessEvents, processNodeEvent, getNodeStoreStatus,
                  PersistNodeStoreStatus, WaitForAllNodesSaved
  <2>3. CASE PersistNodes(r)
    BY <2>1, <2>3 DEF PersistNodes, SaveNode, FailToSaveNode, Done, GoOn
  <2> QED BY <2>2, <2>3
<1>4. /\ call[r] \in Calls /\ saving[r] \in SUBSET Goroutines /\ Counts(call[r], saving[r])
      /\ \A g \in saving[r] : g.at \in DOMAIN g.events
  BY CallTyped
<1>5. call'[r] \in Calls /\ saving'[r] \in SUBSET Goroutines
  BY DEF CallsTyped, Calls, Goroutines
<1>6. DOMAIN call = Regions /\ DOMAIN saving = Regions
  BY DEF CallsTyped
<1>7. Counts(call'[r], saving'[r])
  <2>1. CASE ProcessEvents(r)
    <3>1. PICK events \in Pulled(r) :
            call'[r] = [Idle EXCEPT !.pc = "process", !.todo = events, !.waiting = Len(events)]
      BY <1>6, <2>1 DEF ProcessEvents
    <3>2. saving'[r] = {}
      BY <1>4, <2>1 DEF ProcessEvents, Counts
    <3>3. events \in Seq(Event) /\ IsInjective(events)
      BY PulledVersions, PulledDistinct DEF Typed
    <3> QED BY <3>1, <3>2, <3>3, BegunCounts
  <2>2. CASE processNodeEvent(r)
    <3> DEFINE batch == Append(call[r].batch, Head(call[r].todo))
               last == Len(call[r].todo) = 1
               handOver == last \/ Len(batch) = BatchPersistSize
    <3>1. /\ call[r].pc = "process" /\ call[r].todo # <<>>
          /\ call'[r].todo = Tail(call[r].todo) /\ call'[r].waiting = call[r].waiting
          /\ call'[r].batch = IF handOver THEN <<>> ELSE batch
          /\ call'[r].pc = IF last THEN "status" ELSE "process"
          /\ saving'[r] = IF handOver THEN saving[r] \cup {BatchOf(batch)} ELSE saving[r]
      <4>1. call[r].pc = "process" /\ call[r].todo # <<>>
        BY <2>2 DEF processNodeEvent, CallsTyped
      <4>2. call' = [call EXCEPT ![r].todo = Tail(@), ![r].batch = IF handOver THEN <<>> ELSE batch,
                                 ![r].pc = IF last THEN "status" ELSE "process"]
        BY <2>2 DEF processNodeEvent
      <4>3. saving' = IF handOver THEN [saving EXCEPT ![r] = @ \cup {BatchOf(batch)}] ELSE saving
        BY <2>2 DEF processNodeEvent
      <4> HIDE DEF handOver, last, batch
      <4>4. /\ call'[r].todo = Tail(call[r].todo) /\ call'[r].waiting = call[r].waiting
            /\ call'[r].batch = IF handOver THEN <<>> ELSE batch
            /\ call'[r].pc = IF last THEN "status" ELSE "process"
        BY <1>4, <1>6, <4>2 DEF Calls
      <4> QED BY <1>6, <4>1, <4>3, <4>4
    <3>2. last => Tail(call[r].todo) = <<>>
      <4> SUFFICES ASSUME last PROVE Tail(call[r].todo) = <<>>
        OBVIOUS
      <4>1. call[r].todo \in Seq(Event) /\ Len(call[r].todo) = 1
        BY <1>4 DEF Calls
      <4>2. Tail(call[r].todo) \in Seq(Event) /\ Len(Tail(call[r].todo)) = 0
        BY <4>1
      <4>3. \A s \in Seq(Event) : Len(s) = 0 => s = <<>>
        OBVIOUS
      <4> QED BY <4>2, <4>3
    <3>3. CASE handOver
      <4>1. /\ call'[r].batch = <<>> /\ saving'[r] = saving[r] \cup {BatchOf(batch)}
            /\ call'[r].pc # "idle"
            /\ call'[r].pc # "process" => call'[r].todo = <<>>
        BY <3>1, <3>2, <3>3
      <4> HIDE DEF handOver, last
      <4> QED BY <1>4, <1>5, <3>1, <4>1, TakenCounts
    <3>4. CASE ~handOver
      <4>1. call'[r].batch = batch /\ saving'[r] = saving[r] /\ call'[r].pc = "process"
        BY <3>1, <3>4
      <4> HIDE DEF handOver, last
      <4> QED BY <1>4, <1>5, <3>1, <4>1, TakenCounts
    <3> QED BY <3>3, <3>4
  <2>3. CASE getNodeStoreStatus(r) \/ PersistNodeStoreStatus(r)
    <3>1. /\ call[r].pc \in {"status", "save"} /\ call'[r].pc \in {"save", "wait"}
          /\ call'[r].todo = call[r].todo /\ call'[r].batch = call[r].batch
          /\ call'[r].waiting = call[r].waiting /\ saving'[r] = saving[r]
      BY <1>4, <1>6, <2>3 DEF getNodeStoreStatus, PersistNodeStoreStatus, Calls
    <3> QED BY <1>4, <1>5, <3>1, SameCounts
  <2>4. CASE WaitForAllNodesSaved(r)
    <3>1. call'[r] = Idle /\ saving'[r] = saving[r] /\ call[r].waiting = 0
      BY <1>6, <2>4 DEF WaitForAllNodesSaved, AllReleased
    <3>2. saving[r] = {}
      BY <1>4, <3>1, ReleasedMeansEnded
    <3> QED BY <3>1, <3>2, IdleCounts
  <2>5. CASE PersistNodes(r)
    <3>1. PICK g \in saving[r] : SaveNode(r, g) \/ FailToSaveNode(r, g)
      BY <2>5 DEF PersistNodes
    <3>2. g \in Goroutines /\ g.retries \in 0..MaxRetries /\ g.at \in DOMAIN g.events
      BY <1>4 DEF Counts
    <3>3. CASE Done(r, g, TRUE) \/ Done(r, g, FALSE)
      <4>1. /\ saving'[r] = saving[r] \ {g}
            /\ call'[r] = [call[r] EXCEPT !.waiting = @ - Len(g.events)]
        BY <1>6, <3>3 DEF Done, Released
      <4> QED BY <1>4, <1>5, <4>1, DoneCounts
    <3>4. ASSUME NEW next, GoOn(r, g, next),
                 next.events = g.events, next.retries \in 0..MaxRetries
          PROVE  Counts(call'[r], saving'[r])
      <4>1. call'[r] = call[r] /\ saving'[r] = (saving[r] \ {g}) \cup {next}
        BY <1>6, <3>4 DEF GoOn
      <4>2. next \in Goroutines
        BY <1>5, <4>1
      <4> QED BY <1>4, <3>4, <4>1, <4>2, GoesOnCounts
    <3>5. CASE GoOn(r, g, [g EXCEPT !.at = @ + 1])
      <4> DEFINE next == [g EXCEPT !.at = @ + 1]
      <4>1. next.events = g.events /\ next.retries = g.retries
        BY <3>2 DEF Goroutines
      <4> HIDE DEF next
      <4> QED BY <3>2, <3>4, <3>5, <4>1 DEF next
    <3>6. CASE g.retries < MaxRetries /\ GoOn(r, g, [g EXCEPT !.at = 1, !.retries = @ + 1])
      <4> DEFINE next == [g EXCEPT !.at = 1, !.retries = @ + 1]
      <4>1. next.events = g.events /\ next.retries = g.retries + 1
        BY <3>2 DEF Goroutines
      <4>2. g.retries + 1 \in 0..MaxRetries
        BY <3>2, <3>6, PersistenceAssumption
      <4> HIDE DEF next
      <4>3. GoOn(r, g, next)
        BY <3>6 DEF next
      <4> QED BY <3>4, <4>1, <4>2, <4>3
    <3>7. g.retries < MaxRetries \/ g.retries >= MaxRetries
      BY <3>2, PersistenceAssumption
    <3> QED BY <3>1, <3>3, <3>5, <3>6, <3>7 DEF SaveNode, FailToSaveNode
  <2> QED BY <2>1, <2>2, <2>3, <2>4, <2>5 DEF Step
<1>8. \A q \in Regions : Counts(call'[q], saving'[q])
  BY <1>3, <1>7
<1>9. call' \in [Regions -> Calls]
  <2>1. call' = [call EXCEPT ![r] = call'[r]]
    <3>1. CASE UNCHANGED call
      BY <3>1
    <3>2. ASSUME NEW next, call' = [call EXCEPT ![r] = next]
          PROVE  call' = [call EXCEPT ![r] = call'[r]]
      BY <3>2
    <3>3. UNCHANGED call \/ \E next : call' = [call EXCEPT ![r] = next]
      <4>1. CASE ProcessEvents(r)
        BY <4>1 DEF ProcessEvents
      <4>2. CASE processNodeEvent(r)
        BY <4>2 DEF processNodeEvent
      <4>3. CASE getNodeStoreStatus(r)
        BY <4>3 DEF getNodeStoreStatus
      <4>4. CASE PersistNodeStoreStatus(r)
        BY <4>4 DEF PersistNodeStoreStatus
      <4>5. CASE WaitForAllNodesSaved(r)
        BY <4>5 DEF WaitForAllNodesSaved
      <4>6. CASE PersistNodes(r)
        <5>1. UNCHANGED call \/ \E k : call' = [call EXCEPT ![r].waiting = k]
          BY <4>6 DEF PersistNodes, SaveNode, FailToSaveNode, Done, GoOn
        <5> QED BY <5>1
      <4> QED BY <4>1, <4>2, <4>3, <4>4, <4>5, <4>6 DEF Step
    <3> QED BY <3>1, <3>2, <3>3
  <2> QED BY <1>5, <2>1
<1>10. PInv'
  OBVIOUS
<1> HIDE DEF PInv
<1> QED BY ONLY <1>1, <1>2, <1>8, <1>9, <1>10 DEF CInv

(* Everything else leaves the calls alone or forgets them all.             *)
LEMMA OtherCounts ==
  ASSUME CInv, PInv',
         \/ \E c \in Clients : Allocate(c) \/ PersistVirtualNodesAssignments(c) \/ PersistClient(c)
         \/ Stop \/ Run \/ UNCHANGED vars
  PROVE  CInv'
<1> USE DEF CInv
<1>1. CASE Stop
  <2>1. \A r \in Regions : call'[r] = Idle /\ saving'[r] = {}
    BY <1>1 DEF Stop
  <2>2. doubtful' = {} /\ stops' \in 0..MaxStops
    BY <1>1, PersistenceAssumption DEF Stop
  <2>3. call' = [r \in Regions |-> Idle] /\ \A r \in Regions : call'[r] \in Calls
    BY <1>1 DEF Stop, CallsTyped, Calls
  <2> QED BY <2>1, <2>2, <2>3, IdleCounts
<1>2. CASE UNCHANGED <<call, saving, doubtful, stops>>
  BY <1>2
<1>3. \/ UNCHANGED <<call, saving, doubtful, stops>>
      \/ Stop
  BY DEF Allocate, PersistVirtualNodesAssignments, PersistClient, Run, vars, memory
<1> QED BY <1>1, <1>2, <1>3

(* The counting is kept by every step.                                     *)
LEMMA NextCInv == CInv /\ [Next]_vars => CInv'
<1> SUFFICES ASSUME CInv, [Next]_vars PROVE CInv'
  OBVIOUS
<1>1. PInv'
  BY StepKeeps DEF CInv
<1> QED BY <1>1, CallCounts, OtherCounts DEF Next

(* Every variable has its type.  In particular the WaitGroup of a call     *)
(* never gets negative, which would panic: what is released adds up to     *)
(* what was added, whether batches are saved, tried again or given up.     *)
THEOREM WaitingIsCounted == Spec => []TypeOK
<1>1. CInv => TypeOK
  <2> SUFFICES ASSUME CInv PROVE TypeOK
    OBVIOUS
  <2>1. \A r \in Regions : call[r].waiting \in Nat
    BY FS_CardinalityType DEF CInv, Counts
  <2>2. call \in [Regions -> [pc : {"idle", "process", "status", "save", "wait"},
                             todo : Seq(Event), batch : Seq(Event), waiting : Nat,
                             status : [Regions -> RVs]]]
    BY <2>1 DEF CInv, Calls
  <2>3. \A r \in Regions : \A g \in saving[r] :
         g.events \in Seq(Event) /\ g.at \in DOMAIN g.events /\ g.retries \in 0..MaxRetries
    BY CallTyped DEF CInv, Counts, Goroutines
  <2> QED BY <2>2, <2>3 DEF TypeOK, CInv, Typed
<1> QED BY <1>1, InitCInv, NextCInv, PTL DEF Spec

-----------------------------------------------------------------------------
(* The latest version of a node.  What a call still has to process is in   *)
(* order and not behind memory, so that the last event of a node in a      *)
(* batch is the node's version in memory; and a node that nobody doubts is *)
(* in one batch only, which is not done before that event was saved.       *)

Own(r, s) == \A i \in DOMAIN s : RegionOf[s[i].node] = r

Increasing(s) ==
  \A i, j \in DOMAIN s : i < j /\ s[i].node = s[j].node => s[i].rv < s[j].rv

Between(s, low, high) ==
  \A i \in DOMAIN s : low[s[i].node] <= s[i].rv /\ s[i].rv <= high[s[i].node]

(* Call c of region r and its goroutines gs, when rvs are in memory.       *)
InLine(r, c, gs, rvs, latest) ==
  /\ Own(r, c.todo) /\ Own(r, c.batch) /\ \A g \in gs : Own(r, g.events)
  /\ Increasing(c.todo) /\ Between(c.todo, rvs, latest)

(* Memory is not ahead of the region manager, and every call is in line.   *)
InOrder ==
  /\ \A n \in Nodes : nodeRV[n] <= version[n]
  /\ \A r \in Regions : InLine(r, call[r], saving[r], nodeRV, version)

(* The order of events, with the counting.                                 *)
OInv == CInv /\ InOrder

HIDE DEF PInv

(* What is known of one region.                                            *)
LEMMA RegionTyped ==
  ASSUME CInv, NEW r \in Regions
  PROVE  /\ version \in [Nodes -> RVs] /\ nodeRV \in [Nodes -> RVs]
         /\ DOMAIN call = Regions /\ DOMAIN saving = Regions
         /\ call[r] \in Calls /\ saving[r] \in SUBSET Goroutines
         /\ \A g \in saving[r] : g.at \in DOMAIN g.events
         /\ Counts(call[r], saving[r])
         /\ call[r].pc = "process" => call[r].todo # <<>>
<1>1. PInv /\ Counts(call[r], saving[r])
  BY DEF CInv
<1>2. Typed /\ CallsTyped
  BY <1>1 DEF PInv
<1> QED BY <1>1, <1>2, CallTyped DEF Typed, CallsTyped

(* What InOrder says of one region.                                        *)
LEMMA RegionInLine ==
  ASSUME OInv, NEW r \in Regions
  PROVE  /\ CInv /\ InLine(r, call[r], saving[r], nodeRV, version)
         /\ \A n \in Nodes : nodeRV[n] <= version[n]
BY DEF OInv, InOrder

(* What is pulled is of the region, in order, and as new as anything is.   *)
LEMMA PulledInOrder ==
  ASSUME NEW r \in Regions, version \in [Nodes -> RVs], NEW events \in Pulled(r),
         events \in Seq(Event)
  PROVE  /\ Own(r, events) /\ Increasing(events)
         /\ \A i \in DOMAIN events : version[events[i].node] <= events[i].rv
<1>1. NodesOf(r) \subseteq Nodes /\ \A n \in NodesOf(r) : RegionOf[n] = r
  BY DEF NodesOf
<1>2. CASE events \in EveryNode(r)
  <2>1. PICK ns \in Orders(r) :
               events = [i \in DOMAIN ns |-> [node |-> ns[i], rv |-> version[ns[i]]]]
    BY <1>2 DEF EveryNode
  <2>2. \A i \in DOMAIN ns : ns[i] \in NodesOf(r)
    BY DEF Orders
  <2>3. \A i \in DOMAIN events : /\ events[i].node \in NodesOf(r)
                               /\ events[i].rv = version[events[i].node]
                               /\ events[i] = [node |-> events[i].node, rv |-> events[i].rv]
    BY <2>1, <2>2
  <2>4. \A i, j \in DOMAIN events : events[i].node = events[j].node => i = j
    <3>1. \A i, j \in DOMAIN events : events[i].node = events[j].node => events[i] = events[j]
      <4> SUFFICES ASSUME NEW i \in DOMAIN events, NEW j \in DOMAIN events,
                          events[i].node = events[j].node
                   PROVE  events[i] = events[j]
        OBVIOUS
      <4>1. events[i].rv = version[events[i].node] /\ events[j].rv = version[events[j].node]
        BY <2>3
      <4>2. events[i].rv = events[j].rv
        BY <4>1
      <4>3. /\ events[i] = [node |-> events[i].node, rv |-> events[i].rv]
            /\ events[j] = [node |-> events[j].node, rv |-> events[j].rv]
        BY <2>3
      <4> QED BY <4>2, <4>3
    <3> QED BY <3>1, PulledDistinct DEF IsInjective
  <2>5. \A n \in Nodes : version[n] \in Int
    BY DEF RVs
  <2>6. Increasing(events)
    <3>1. \A i \in DOMAIN events : i \in Int
      OBVIOUS
    <3>2. \A i \in Int : ~(i < i)
      OBVIOUS
    <3> QED BY <2>4, <3>1, <3>2 DEF Increasing
  <2> QED BY <1>1, <2>3, <2>5, <2>6 DEF Own
<1>3. CASE events \in Changed(r)
  <2>1. PICK k \in 1..MaxEvents : \E ns \in [1..k -> NodesOf(r)] :
               events = [i \in 1..k |-> [node |-> ns[i], rv |-> LargestVersion(r) + i]]
    BY <1>3 DEF Changed
  <2>2. PICK ns \in [1..k -> NodesOf(r)] :
               events = [i \in 1..k |-> [node |-> ns[i], rv |-> LargestVersion(r) + i]]
    BY <2>1
  <2>3. /\ DOMAIN events = 1..k
        /\ \A i \in 1..k : events[i].rv = LargestVersion(r) + i /\ events[i].node \in NodesOf(r)
    BY <2>2
  <2>4. k \in Nat /\ 1 \in 1..k
    BY <2>1, PersistenceAssumption
  <2>5. /\ LargestVersion(r) \in Int
        /\ \A n \in NodesOf(r) : version[n] <= LargestVersion(r) /\ version[n] \in Int
    BY <1>1, <2>3, <2>4, LargestIsVersion DEF RVs
  <2>6. Increasing(events)
    BY <2>3, <2>4, <2>5 DEF Increasing
  <2>7. \A i \in DOMAIN events : version[events[i].node] <= events[i].rv
    BY <2>3, <2>4, <2>5
  <2> QED BY <1>1, <2>3, <2>6, <2>7 DEF Own
<1> QED BY <1>2, <1>3 DEF Pulled

(* The versions of the region manager cover what it sends.                 *)
LEMMA PulledIsCovered ==
  ASSUME NEW events \in Seq(Event), version \in [Nodes -> RVs],
         NEW later, later = [n \in Nodes |-> LargestOf(VersionsIn(events, n) \cup {version[n]})]
  PROVE  /\ \A n \in Nodes : version[n] <= later[n]
         /\ \A i \in DOMAIN events : events[i].rv <= later[events[i].node]
<1>1. \A i \in DOMAIN events : events[i] \in Event
  OBVIOUS
<1>2. \A i \in DOMAIN events : events[i].node \in Nodes /\ events[i].rv \in 0..MaxRV
  BY <1>1 DEF Event, RVs
<1>3. ASSUME NEW n \in Nodes
      PROVE  \A rv \in VersionsIn(events, n) \cup {version[n]} : rv <= later[n]
  <2> DEFINE S == VersionsIn(events, n) \cup {version[n]}
  <2>1. version[n] \in 0..MaxRV
    BY DEF RVs
  <2>2. S \in SUBSET (0..MaxRV) /\ S # {}
    BY <1>2, <2>1 DEF VersionsIn
  <2>3. later[n] = LargestOf(S)
    OBVIOUS
  <2> HIDE DEF S
  <2>4. \A rv \in S : rv <= LargestOf(S)
    BY <2>2, LargestExists, PersistenceAssumption
  <2> QED BY <2>3, <2>4 DEF S
<1>4. \A i \in DOMAIN events : events[i].rv \in VersionsIn(events, events[i].node)
  BY DEF VersionsIn
<1> QED BY <1>2, <1>3, <1>4

(* There is nothing to be in order at first.                               *)
LEMMA InitOInv == Init => OInv
<1> SUFFICES ASSUME Init PROVE InOrder
  BY InitCInv DEF OInv
<1>1. \A r \in Regions : call[r].todo = <<>> /\ call[r].batch = <<>> /\ saving[r] = {}
  BY DEF Init, Idle
<1>2. \A n \in Nodes : nodeRV[n] <= version[n]
  BY DEF Init
<1> QED BY <1>1, <1>2 DEF InOrder, InLine, Own, Increasing, Between

(* A sequence of events holds events.                                      *)
LEMMA EventsTyped ==
  ASSUME NEW events \in Seq(Event)
  PROVE  \A i \in DOMAIN events : /\ events[i] \in Event /\ events[i].node \in Nodes
                                  /\ events[i].rv \in RVs /\ events[i].rv \in Int
<1>1. \A i \in DOMAIN events : events[i] \in Event
  OBVIOUS
<1> QED BY <1>1 DEF Event, RVs

(* A call begins.                                                          *)
LEMMA BegunInOrder ==
  ASSUME OInv, CInv', NEW r \in Regions, ProcessEvents(r)
  PROVE  InOrder'
<1>1. PICK events \in Pulled(r) :
        /\ call' = [call EXCEPT ![r] = [Idle EXCEPT !.pc = "process", !.todo = events,
                                                    !.waiting = Len(events)]]
        /\ version' = [n \in Nodes |-> LargestOf(VersionsIn(events, n) \cup {version[n]})]
  BY DEF ProcessEvents
<1>2. /\ UNCHANGED <<nodeRV, saving>> /\ DOMAIN call = Regions /\ CInv
      /\ version \in [Nodes -> RVs] /\ nodeRV \in [Nodes -> RVs]
  BY RegionTyped, RegionInLine DEF ProcessEvents
<1>3. events \in Seq(Event)
  BY <1>2, PulledVersions
<1>4. /\ Own(r, events) /\ Increasing(events)
      /\ \A i \in DOMAIN events : version[events[i].node] <= events[i].rv
  BY <1>2, <1>3, PulledInOrder
<1>5. PICK later : later = version'
  OBVIOUS
<1>6. /\ \A n \in Nodes : version[n] <= later[n]
      /\ \A i \in DOMAIN events : events[i].rv <= later[events[i].node]
  BY <1>1, <1>2, <1>3, <1>5, PulledIsCovered
<1>7. \A n \in Nodes : nodeRV[n] \in Int /\ version[n] \in Int /\ later[n] \in Int
  <2>1. version' \in [Nodes -> RVs]
    BY DEF CInv, PInv, Typed
  <2>2. \A n \in Nodes : nodeRV[n] \in RVs /\ version[n] \in RVs /\ later[n] \in RVs
    BY <1>2, <1>5, <2>1
  <2> QED BY <2>2 DEF RVs
<1>8. /\ call'[r].todo = events /\ call'[r].batch = <<>>
      /\ \A q \in Regions \ {r} : call'[q] = call[q]
  BY <1>1, <1>2 DEF Idle
<1>9. \A n \in Nodes : nodeRV[n] <= version[n]
  BY RegionInLine
<1>10. ASSUME NEW q \in Regions
       PROVE  InLine(q, call'[q], saving'[q], nodeRV', version')
  <2>1. InLine(q, call[q], saving[q], nodeRV, version) /\ call[q] \in Calls
    BY <1>2, RegionInLine, RegionTyped
  <2>2. CASE q = r
    <3>1. Own(r, <<>>)
      BY DEF Own
    <3>2. \A g \in saving[r] : Own(r, g.events)
      BY <2>1, <2>2 DEF InLine
    <3>3. Between(events, nodeRV, later)
      <4> SUFFICES ASSUME NEW i \in DOMAIN events
                   PROVE  nodeRV[events[i].node] <= events[i].rv /\ events[i].rv <= later[events[i].node]
        BY DEF Between
      <4>1. events[i].node \in Nodes /\ events[i].rv \in Int
        BY <1>3, EventsTyped
      <4> QED BY <1>4, <1>6, <1>7, <1>9, <4>1
    <3> QED BY <1>2, <1>4, <1>5, <1>8, <2>2, <3>1, <3>2, <3>3 DEF InLine
  <2>3. CASE q # r
    <3> DEFINE todo == call[q].todo
    <3>1. todo \in Seq(Event) /\ Between(todo, nodeRV, version)
      BY <2>1 DEF Calls, InLine
    <3> HIDE DEF todo
    <3>2. Between(todo, nodeRV, later)
      <4> SUFFICES ASSUME NEW i \in DOMAIN todo
                   PROVE  nodeRV[todo[i].node] <= todo[i].rv /\ todo[i].rv <= later[todo[i].node]
        BY DEF Between
      <4>1. todo[i].node \in Nodes /\ todo[i].rv \in Int
        BY <3>1, EventsTyped
      <4>2. nodeRV[todo[i].node] <= todo[i].rv /\ todo[i].rv <= version[todo[i].node]
        BY <3>1 DEF Between
      <4> QED BY <1>6, <1>7, <4>1, <4>2
    <3>3. call'[q] = call[q]
      BY <1>8, <2>3
    <3> QED BY <1>2, <1>5, <2>1, <3>2, <3>3 DEF InLine, todo
  <2> QED BY <2>2, <2>3
<1>11. \A n \in Nodes : nodeRV'[n] <= version'[n]
  BY <1>2, <1>5, <1>6, <1>7, <1>9
<1> QED BY <1>10, <1>11 DEF InOrder

(* The next event of a call is the node's latest version in memory.        *)
LEMMA TakenIsLatest ==
  ASSUME OInv, NEW r \in Regions, processNodeEvent(r),
         NEW e, e = Head(call[r].todo)
  PROVE  /\ e \in Event /\ e.node \in Nodes /\ e.rv \in RVs /\ RegionOf[e.node] = r
         /\ nodeRV' = [nodeRV EXCEPT ![e.node] = e.rv]
         /\ nodeRV[e.node] <= e.rv /\ e.rv <= version[e.node]
<1>1. /\ CInv /\ call[r].pc = "process" /\ Own(r, call[r].todo)
      /\ Between(call[r].todo, nodeRV, version)
  BY RegionInLine DEF processNodeEvent, InLine
<1>2. call[r].todo \in Seq(Event) /\ call[r].todo # <<>> /\ nodeRV \in [Nodes -> RVs]
  BY <1>1, RegionTyped DEF Calls
<1>3. e = call[r].todo[1] /\ 1 \in DOMAIN call[r].todo
  BY <1>2
<1>4. e \in Event /\ e.node \in Nodes /\ e.rv \in RVs
  BY <1>2, <1>3, EventsTyped
<1>5. RegionOf[e.node] = r /\ nodeRV[e.node] <= e.rv /\ e.rv <= version[e.node]
  BY <1>1, <1>3 DEF Own, Between
<1> DEFINE S == {nodeRV[e.node], e.rv}
<1>6. nodeRV[e.node] \in RVs
  BY <1>2, <1>4
<1>7. LargestOf(S) \in S /\ e.rv <= LargestOf(S)
  BY <1>4, <1>6, LargestExists, PersistenceAssumption DEF RVs
<1>8. LargestOf(S) = e.rv
  BY <1>4, <1>5, <1>6, <1>7 DEF RVs
<1>9. nodeRV' = [nodeRV EXCEPT ![e.node] = LargestOf(S)]
  BY DEF processNodeEvent
<1> QED BY <1>4, <1>5, <1>8, <1>9

(* Where that event goes.                                                  *)
LEMMA Taking ==
  ASSUME CInv, NEW r \in Regions, processNodeEvent(r),
         NEW batch, batch = Append(call[r].batch, Head(call[r].todo))
  PROVE  /\ call'[r].todo = Tail(call[r].todo)
         /\ \/ call'[r].batch = <<>> /\ saving'[r] = saving[r] \cup {BatchOf(batch)}
            \/ call'[r].batch = batch /\ saving'[r] = saving[r]
         /\ \A q \in Regions \ {r} : call'[q] = call[q] /\ saving'[q] = saving[q]
         /\ UNCHANGED <<up, redis, version>>
<1> DEFINE last == Len(call[r].todo) = 1
           handOver == last \/ Len(batch) = BatchPersistSize
<1>1. /\ call' = [call EXCEPT ![r].todo = Tail(@), ![r].batch = IF handOver THEN <<>> ELSE batch,
                              ![r].pc = IF last THEN "status" ELSE "process"]
      /\ saving' = IF handOver THEN [saving EXCEPT ![r] = @ \cup {BatchOf(batch)}] ELSE saving
      /\ UNCHANGED <<up, redis, version>>
  BY DEF processNodeEvent
<1> HIDE DEF handOver, last
<1>2. DOMAIN call = Regions /\ DOMAIN saving = Regions /\ call[r] \in Calls
  BY RegionTyped
<1>3. /\ call'[r].todo = Tail(call[r].todo)
      /\ call'[r].batch = IF handOver THEN <<>> ELSE batch
  BY <1>1, <1>2 DEF Calls
<1> QED BY <1>1, <1>2, <1>3

(* A call without its first event, whose version is in memory now.         *)
LEMMA TailInOrder ==
  ASSUME NEW todo \in Seq(Event), todo # <<>>, NEW e, e = Head(todo),
         NEW r, Own(r, todo), Increasing(todo),
         NEW rvs, NEW later, NEW latest, Between(todo, rvs, latest),
         \A n \in Nodes : later[n] = IF n = e.node THEN e.rv ELSE rvs[n]
  PROVE  Own(r, Tail(todo)) /\ Increasing(Tail(todo)) /\ Between(Tail(todo), later, latest)
<1> DEFINE rest == Tail(todo)
<1>1. /\ DOMAIN rest \subseteq Nat /\ 1 \in DOMAIN todo /\ e = todo[1]
      /\ \A i \in DOMAIN rest : rest[i] = todo[i + 1] /\ i + 1 \in DOMAIN todo /\ 1 < i + 1
  OBVIOUS
<1> HIDE DEF rest
<1>2. \A i \in DOMAIN todo : todo[i].node \in Nodes /\ todo[i].rv \in Int
  BY EventsTyped
<1>3. Own(r, rest)
  BY <1>1 DEF Own
<1>4. Increasing(rest)
  <2> SUFFICES ASSUME NEW i \in DOMAIN rest, NEW j \in DOMAIN rest,
                      i < j, rest[i].node = rest[j].node
               PROVE  rest[i].rv < rest[j].rv
    BY DEF Increasing
  <2>1. i + 1 < j + 1
    BY <1>1
  <2> QED BY <1>1, <2>1 DEF Increasing
<1>5. Between(rest, later, latest)
  <2> SUFFICES ASSUME NEW i \in DOMAIN rest
               PROVE  later[rest[i].node] <= rest[i].rv /\ rest[i].rv <= latest[rest[i].node]
    BY DEF Between
  <2>1. rest[i] = todo[i + 1] /\ i + 1 \in DOMAIN todo /\ 1 < i + 1
    BY <1>1
  <2>2. /\ rvs[rest[i].node] <= rest[i].rv /\ rest[i].rv <= latest[rest[i].node]
        /\ rest[i].node \in Nodes /\ rest[i].rv \in Int /\ e.rv \in Int
    BY <1>1, <1>2, <2>1 DEF Between
  <2>3. CASE rest[i].node = e.node
    <3>1. e.rv < rest[i].rv
      BY <1>1, <2>1, <2>3 DEF Increasing
    <3> QED BY <2>2, <2>3, <3>1
  <2>4. CASE rest[i].node # e.node
    BY <2>2, <2>4
  <2> QED BY <2>3, <2>4
<1> QED BY <1>3, <1>4, <1>5 DEF rest

(* An event moves from todo to the batch.                                  *)
LEMMA TakenInOrder ==
  ASSUME OInv, NEW r \in Regions, processNodeEvent(r)
  PROVE  InOrder'
<1>1. PICK e : e = Head(call[r].todo)
  OBVIOUS
<1>2. PICK batch : batch = Append(call[r].batch, e)
  OBVIOUS
<1>3. /\ CInv /\ call[r].todo \in Seq(Event) /\ call[r].todo # <<>> /\ call[r].batch \in Seq(Event)
      /\ nodeRV \in [Nodes -> RVs] /\ InLine(r, call[r], saving[r], nodeRV, version)
  BY RegionTyped, RegionInLine DEF processNodeEvent, Calls
<1>4. /\ e \in Event /\ e.node \in Nodes /\ RegionOf[e.node] = r
      /\ nodeRV' = [nodeRV EXCEPT ![e.node] = e.rv] /\ e.rv <= version[e.node]
  BY <1>1, TakenIsLatest
<1>5. /\ call'[r].todo = Tail(call[r].todo)
      /\ \/ call'[r].batch = <<>> /\ saving'[r] = saving[r] \cup {BatchOf(batch)}
         \/ call'[r].batch = batch /\ saving'[r] = saving[r]
      /\ \A q \in Regions \ {r} : call'[q] = call[q] /\ saving'[q] = saving[q]
      /\ UNCHANGED version
  BY <1>1, <1>2, <1>3, Taking
<1>6. PICK later : later = nodeRV'
  OBVIOUS
<1>7. \A n \in Nodes : later[n] = IF n = e.node THEN e.rv ELSE nodeRV[n]
  BY <1>3, <1>4, <1>6
<1>8. Own(r, batch)
  <2>1. Own(r, call[r].batch)
    BY <1>3 DEF InLine
  <2>2. \A i \in DOMAIN batch : batch[i] = e \/ (i \in DOMAIN call[r].batch /\ batch[i] = call[r].batch[i])
    BY <1>2, <1>3, <1>4
  <2> QED BY <1>4, <2>1, <2>2 DEF Own
<1>9. InLine(r, call'[r], saving'[r], later, version)
  <2>1. /\ Own(r, Tail(call[r].todo)) /\ Increasing(Tail(call[r].todo))
        /\ Between(Tail(call[r].todo), later, version)
    <3>1. /\ Own(r, call[r].todo) /\ Increasing(call[r].todo)
          /\ Between(call[r].todo, nodeRV, version)
      BY <1>3 DEF InLine
    <3> DEFINE todo == call[r].todo
    <3>2. todo \in Seq(Event) /\ todo # <<>> /\ e = Head(todo)
      BY <1>1, <1>3
    <3> HIDE DEF todo
    <3>3. /\ Own(r, Tail(todo)) /\ Increasing(Tail(todo)) /\ Between(Tail(todo), later, version)
      <4>1. Own(r, todo) /\ Increasing(todo) /\ Between(todo, nodeRV, version)
        BY <3>1 DEF todo
      <4> QED BY ONLY <1>7, <3>2, <4>1, TailInOrder
    <3> QED BY <3>3 DEF todo
  <2>2. Own(r, <<>>) /\ BatchOf(batch).events = batch
    BY DEF Own, BatchOf
  <2>3. \A g \in saving'[r] : Own(r, g.events)
    BY <1>3, <1>5, <1>8, <2>2 DEF InLine
  <2> QED BY <1>5, <1>8, <2>1, <2>2, <2>3 DEF InLine
<1>10. ASSUME NEW q \in Regions \ {r}
       PROVE  InLine(q, call'[q], saving'[q], later, version)
  <2> DEFINE todo == call[q].todo
  <2>1. InLine(q, call[q], saving[q], nodeRV, version) /\ call[q] \in Calls
    BY <1>3, RegionInLine, RegionTyped
  <2>2. todo \in Seq(Event) /\ Own(q, todo) /\ Between(todo, nodeRV, version)
    BY <2>1 DEF Calls, InLine
  <2> HIDE DEF todo
  <2>3. \A i \in DOMAIN todo : todo[i].node \in Nodes /\ RegionOf[todo[i].node] = q
    BY <2>2, EventsTyped DEF Own
  <2>4. Between(todo, later, version)
    BY <1>4, <1>7, <2>2, <2>3 DEF Between
  <2>5. call'[q] = call[q] /\ saving'[q] = saving[q]
    BY <1>5
  <2> QED BY <2>1, <2>4, <2>5 DEF InLine, todo
<1>11. \A n \in Nodes : nodeRV'[n] <= version'[n]
  <2>1. \A n \in Nodes : nodeRV[n] <= version[n]
    BY RegionInLine
  <2> QED BY <1>4, <1>5, <1>6, <1>7, <2>1
<1> QED BY <1>5, <1>6, <1>9, <1>10, <1>11 DEF InOrder

(* What a goroutine's step does to the goroutines of its call: it ends, or *)
(* it goes on with the same events.                                        *)
LEMMA Persisting ==
  ASSUME CInv, NEW r \in Regions, NEW g \in saving[r], SaveNode(r, g) \/ FailToSaveNode(r, g)
  PROVE  /\ call'[r].todo = call[r].todo /\ call'[r].batch = call[r].batch
         /\ call'[r].pc = call[r].pc
         /\ \/ saving'[r] = saving[r] \ {g}
            \/ \E next : /\ saving'[r] = (saving[r] \ {g}) \cup {next}
                         /\ next.events = g.events
         /\ \A q \in Regions \ {r} : call'[q] = call[q] /\ saving'[q] = saving[q]
         /\ UNCHANGED <<up, nodeRV, version>>
<1>1. /\ DOMAIN call = Regions /\ DOMAIN saving = Regions
      /\ call[r] \in Calls /\ g \in Goroutines
  BY RegionTyped
<1>2. UNCHANGED <<up, nodeRV, version>>
  BY DEF SaveNode, FailToSaveNode
<1>3. ASSUME NEW saved \in BOOLEAN, Done(r, g, saved)
      PROVE  /\ call'[r].todo = call[r].todo /\ call'[r].batch = call[r].batch
             /\ call'[r].pc = call[r].pc /\ saving'[r] = saving[r] \ {g}
             /\ \A q \in Regions \ {r} : call'[q] = call[q] /\ saving'[q] = saving[q]
  BY <1>1, <1>3 DEF Done, Calls
<1>4. ASSUME NEW next, GoOn(r, g, next), next.events = g.events
      PROVE  /\ call' = call /\ saving'[r] = (saving[r] \ {g}) \cup {next}
             /\ \A q \in Regions \ {r} : saving'[q] = saving[q]
  BY <1>1, <1>4 DEF GoOn
<1>5. /\ [g EXCEPT !.at = @ + 1].events = g.events
      /\ [g EXCEPT !.at = 1, !.retries = @ + 1].events = g.events
  BY <1>1 DEF Goroutines
<1>6. CASE \E next : GoOn(r, g, next) /\ next.events = g.events
  BY <1>2, <1>4, <1>6
<1>7. \/ Done(r, g, TRUE) \/ Done(r, g, FALSE)
      \/ \E next : GoOn(r, g, next) /\ next.events = g.events
  BY <1>5 DEF SaveNode, FailToSaveNode
<1> QED BY <1>2, <1>3, <1>6, <1>7

(* Fewer events, or none, stay in order.                                   *)
LEMMA StaysInLine ==
  ASSUME NEW r, NEW c, NEW d, NEW gs, NEW hs, NEW rvs, NEW latest,
         InLine(r, c, gs, rvs, latest),
         d.todo \in {c.todo, <<>>}, d.batch \in {c.batch, <<>>},
         \A h \in hs : \E g \in gs : h.events = g.events
  PROVE  InLine(r, d, hs, rvs, latest)
<1>1. Own(r, <<>>) /\ Increasing(<<>>) /\ Between(<<>>, rvs, latest)
  BY DEF Own, Increasing, Between
<1>2. /\ Own(r, c.todo) /\ Own(r, c.batch) /\ Increasing(c.todo) /\ Between(c.todo, rvs, latest)
      /\ \A g \in gs : Own(r, g.events)
  BY DEF InLine
<1>3. \A h \in hs : Own(r, h.events)
  BY <1>2 DEF Own
<1> QED BY <1>1, <1>2, <1>3 DEF InLine

(* The other steps of a call and of its goroutines.                        *)
LEMMA CallInOrder ==
  ASSUME OInv, NEW r \in Regions,
         \/ getNodeStoreStatus(r) \/ PersistNodeStoreStatus(r) \/ WaitForAllNodesSaved(r)
         \/ PersistNodes(r)
  PROVE  InOrder'
<1>1. /\ UNCHANGED <<nodeRV, version>>
      /\ call'[r].todo \in {call[r].todo, <<>>} /\ call'[r].batch \in {call[r].batch, <<>>}
      /\ \A h \in saving'[r] : \E g \in saving[r] : h.events = g.events
      /\ \A q \in Regions \ {r} : call'[q] = call[q] /\ saving'[q] = saving[q]
  <2>1. CASE PersistNodes(r)
    <3>1. PICK g \in saving[r] : SaveNode(r, g) \/ FailToSaveNode(r, g)
      BY <2>1 DEF PersistNodes
    <3>2. /\ call'[r].todo = call[r].todo /\ call'[r].batch = call[r].batch
          /\ \A q \in Regions \ {r} : call'[q] = call[q] /\ saving'[q] = saving[q]
          /\ UNCHANGED <<nodeRV, version>>
          /\ \/ saving'[r] = saving[r] \ {g}
             \/ \E next : /\ saving'[r] = (saving[r] \ {g}) \cup {next}
                          /\ next.events = g.events
      BY <3>1, Persisting, RegionInLine
    <3> QED BY <3>2
  <2>2. CASE getNodeStoreStatus(r) \/ PersistNodeStoreStatus(r) \/ WaitForAllNodesSaved(r)
    <3>1. DOMAIN call = Regions /\ call[r] \in Calls
      BY RegionInLine, RegionTyped
    <3>2. UNCHANGED <<nodeRV, version, saving>>
      BY <2>2 DEF getNodeStoreStatus, PersistNodeStoreStatus, WaitForAllNodesSaved
    <3>3. /\ call'[r].todo \in {call[r].todo, <<>>} /\ call'[r].batch \in {call[r].batch, <<>>}
          /\ \A q \in Regions \ {r} : call'[q] = call[q]
      BY <2>2, <3>1 DEF getNodeStoreStatus, PersistNodeStoreStatus, WaitForAllNodesSaved,
                       Calls, Idle
    <3> QED BY <3>2, <3>3
  <2> QED BY <2>1, <2>2
<1>2. ASSUME NEW q \in Regions
      PROVE  InLine(q, call'[q], saving'[q], nodeRV, version)
  <2>1. InLine(q, call[q], saving[q], nodeRV, version)
    BY RegionInLine
  <2>2. CASE q = r
    BY <1>1, <2>1, <2>2, StaysInLine
  <2>3. CASE q # r
    <3>1. call'[q] = call[q] /\ saving'[q] = saving[q]
      BY <1>1, <2>3
    <3> QED BY <2>1, <3>1
  <2> QED BY <2>2, <2>3
<1>3. \A n \in Nodes : nodeRV[n] <= version[n]
  BY RegionInLine
<1> QED BY <1>1, <1>2, <1>3 DEF InOrder

(* The order of events is kept by every step.                              *)
LEMMA NextOInv == OInv /\ [Next]_vars => OInv'
<1> SUFFICES ASSUME OInv, [Next]_vars PROVE OInv'
  OBVIOUS
<1>1. CInv'
  BY NextCInv DEF OInv
<1>2. InOrder'
  <2>1. CASE \E r \in Regions : ProcessEvents(r)
    BY <1>1, <2>1, BegunInOrder
  <2>2. CASE \E r \in Regions : processNodeEvent(r)
    BY <2>2, TakenInOrder
  <2>3. CASE \E r \in Regions : \/ getNodeStoreStatus(r) \/ PersistNodeStoreStatus(r)
                                \/ WaitForAllNodesSaved(r) \/ PersistNodes(r)
    BY <2>3, CallInOrder
  <2>4. CASE Stop
    <3>1. \A n \in Nodes : version[n] \in RVs
      BY DEF OInv, CInv, PInv, Typed
    <3>2. \A n \in Nodes : nodeRV'[n] <= version'[n]
      BY <2>4, <3>1 DEF Stop, RVs
    <3>3. \A r \in Regions : call'[r].todo = <<>> /\ call'[r].batch = <<>> /\ saving'[r] = {}
      BY <2>4 DEF Stop, Idle
    <3> QED BY <3>2, <3>3 DEF InOrder, InLine, Own, Increasing, Between
  <2>5. CASE UNCHANGED <<nodeRV, version, call, saving>>
    BY <2>5 DEF OInv, InOrder
  <2>6. \/ \E r \in Regions : \/ ProcessEvents(r) \/ processNodeEvent(r) \/ getNodeStoreStatus(r)
                              \/ PersistNodeStoreStatus(r) \/ WaitForAllNodesSaved(r)
                              \/ PersistNodes(r)
        \/ Stop \/ UNCHANGED <<nodeRV, version, call, saving>>
    BY DEF Next, Step, Allocate, PersistVirtualNodesAssignments, PersistClient, Run, vars, memory
  <2> QED BY <2>1, <2>2, <2>3, <2>4, <2>5, <2>6
<1> QED BY <1>1, <1>2 DEF OInv

-----------------------------------------------------------------------------
(* What becomes of a node n that nobody doubts: it is in the batch being   *)
(* filled or with one goroutine, which has its version in memory as the    *)
(* node's last event and has either not passed it or stored it; or it is   *)
(* in neither, and stored.                                                 *)

Names(events, n) == \E i \in DOMAIN events : events[i].node = n

LastAt(i, events, n, rv) ==
  /\ i \in DOMAIN events /\ events[i].node = n /\ events[i].rv = rv
  /\ \A j \in DOMAIN events : events[j].node = n => j <= i

Comes(g, n, rv, stored) == \E i \in DOMAIN g.events : /\ LastAt(i, g.events, n, rv)
                                                      /\ g.at <= i \/ stored = rv

Coming(n, batch, gs, rv, stored) ==
  /\ Names(batch, n) => /\ \E i \in DOMAIN batch : LastAt(i, batch, n, rv)
                        /\ \A g \in gs : ~Names(g.events, n)
  /\ \A g \in gs : Names(g.events, n) => /\ Comes(g, n, rv, stored)
                                         /\ \A h \in gs : Names(h.events, n) => h = g
  /\ stored = rv \/ Names(batch, n) \/ \E g \in gs : Names(g.events, n)

(* Of the state's variables.                                               *)
NodeComes(n) ==
  Coming(n, call[RegionOf[n]].batch, saving[RegionOf[n]], nodeRV[n], redis.nodes[n])

(* Every node nobody doubts comes to redis; without the service there is   *)
(* no memory.                                                              *)
VInv ==
  /\ OInv
  /\ up => \A n \in Nodes \ doubtful : NodeComes(n)
  /\ ~up => \A n \in Nodes : nodeRV[n] = 0

(* An event of the node itself is put into the batch.                      *)
LEMMA TakenComes ==
  ASSUME NEW batch \in Seq(Event), NEW gs, NEW e \in Event, NEW stored,
         \A g \in gs : ~Names(g.events, e.node),
         NEW filled, filled = Append(batch, e)
  PROVE  /\ Coming(e.node, filled, gs, e.rv, stored)
         /\ Coming(e.node, <<>>, gs \cup {BatchOf(filled)}, e.rv, stored)
<1>1. /\ Len(filled) \in DOMAIN filled /\ filled[Len(filled)] = e
      /\ \A j \in DOMAIN filled : j <= Len(filled)
  OBVIOUS
<1>2. LastAt(Len(filled), filled, e.node, e.rv) /\ Names(filled, e.node)
  BY <1>1 DEF LastAt, Names
<1>3. ~Names(<<>>, e.node)
  BY DEF Names
<1>4. BatchOf(filled).events = filled /\ BatchOf(filled).at = 1 /\ 1 <= Len(filled)
  <2>1. Len(batch) \in Nat /\ Len(filled) = Len(batch) + 1
    OBVIOUS
  <2> QED BY <2>1 DEF BatchOf
<1>5. Comes(BatchOf(filled), e.node, e.rv, stored)
  BY <1>1, <1>2, <1>4 DEF Comes
<1> QED BY <1>1, <1>2, <1>3, <1>4, <1>5 DEF Coming

(* An event of another node is put into the batch.                         *)
LEMMA OtherTakenComes ==
  ASSUME NEW batch \in Seq(Event), NEW gs, NEW e \in Event, NEW rv, NEW stored,
         NEW n, n # e.node, Coming(n, batch, gs, rv, stored),
         NEW filled, filled = Append(batch, e)
  PROVE  /\ Coming(n, filled, gs, rv, stored)
         /\ Coming(n, <<>>, gs \cup {BatchOf(filled)}, rv, stored)
<1>1. /\ DOMAIN batch \subseteq DOMAIN filled /\ \A i \in DOMAIN batch : filled[i] = batch[i]
      /\ \A i \in DOMAIN filled : i \in DOMAIN batch \/ filled[i] = e
      /\ \A i \in DOMAIN filled : 1 <= i
  OBVIOUS
<1>2. Names(filled, n) <=> Names(batch, n)
  BY <1>1 DEF Names
<1>3. \A i \in DOMAIN batch : LastAt(i, batch, n, rv) => LastAt(i, filled, n, rv)
  BY <1>1 DEF LastAt
<1>4. ~Names(<<>>, n)
  BY DEF Names
<1>5. BatchOf(filled).events = filled /\ BatchOf(filled).at = 1
  BY DEF BatchOf
<1>6. Names(batch, n) => Comes(BatchOf(filled), n, rv, stored)
  <2> SUFFICES ASSUME Names(batch, n) PROVE Comes(BatchOf(filled), n, rv, stored)
    OBVIOUS
  <2>1. PICK i \in DOMAIN batch : LastAt(i, batch, n, rv)
    BY DEF Coming
  <2>2. i \in DOMAIN filled /\ LastAt(i, filled, n, rv) /\ 1 <= i
    BY <1>1, <1>3, <2>1
  <2> QED BY <1>5, <2>2 DEF Comes
<1>7. Coming(n, filled, gs, rv, stored)
  BY <1>1, <1>2, <1>3 DEF Coming
<1>8. Coming(n, <<>>, gs \cup {BatchOf(filled)}, rv, stored)
  BY <1>2, <1>4, <1>5, <1>6 DEF Coming
<1> QED BY <1>7, <1>8

(* A goroutine that does not have the node leaves it alone, ending or not. *)
LEMMA OthersComes ==
  ASSUME NEW batch, NEW gs, NEW g \in gs, NEW rv, NEW stored, NEW n,
         Coming(n, batch, gs, rv, stored), ~Names(g.events, n),
         NEW next, next.events = g.events
  PROVE  /\ Coming(n, batch, gs \ {g}, rv, stored)
         /\ Coming(n, batch, (gs \ {g}) \cup {next}, rv, stored)
<1>1. ~Names(next.events, n)
  OBVIOUS
<1>2. Coming(n, batch, gs \ {g}, rv, stored)
  BY DEF Coming
<1>3. Coming(n, batch, (gs \ {g}) \cup {next}, rv, stored)
  BY <1>1 DEF Coming
<1> QED BY <1>2, <1>3

(* A goroutine that has it goes on.                                        *)
LEMMA HoldsComes ==
  ASSUME NEW batch, NEW gs, NEW g \in gs, NEW rv, NEW stored, NEW later, NEW n,
         Coming(n, batch, gs, rv, stored), Names(g.events, n),
         NEW next, next.events = g.events, Comes(next, n, rv, later)
  PROVE  Coming(n, batch, (gs \ {g}) \cup {next}, rv, later)
<1>1. ~Names(batch, n) /\ \A h \in gs : Names(h.events, n) => h = g
  BY DEF Coming
<1>2. Names(next.events, n)
  OBVIOUS
<1> QED BY <1>1, <1>2 DEF Coming

(* It ends, the last event of the node being stored.                       *)
LEMMA EndsComes ==
  ASSUME NEW batch, NEW gs, NEW g \in gs, NEW rv, NEW stored, NEW n,
         Coming(n, batch, gs, rv, stored), Names(g.events, n)
  PROVE  Coming(n, batch, gs \ {g}, rv, rv)
<1>1. ~Names(batch, n) /\ \A h \in gs : Names(h.events, n) => h = g
  BY DEF Coming
<1> QED BY <1>1 DEF Coming

(* A node is saved.                                                        *)
LEMMA SavedComes ==
  ASSUME NEW batch, NEW gs, NEW g \in gs, g.events \in Seq(Event), g.at \in DOMAIN g.events,
         NEW e, e = g.events[g.at],
         NEW rv, NEW stored, NEW n, Coming(n, batch, gs, rv, stored),
         NEW later, later = IF n = e.node THEN e.rv ELSE stored,
         NEW next, next.events = g.events, next.at = g.at + 1
  PROVE  /\ Coming(n, batch, (gs \ {g}) \cup {next}, rv, later)
         /\ g.at = Len(g.events) => Coming(n, batch, gs \ {g}, rv, later)
<1>1. CASE ~Names(g.events, n)
  <2>1. later = stored
    BY <1>1 DEF Names
  <2> QED BY <1>1, <2>1, OthersComes
<1>2. CASE Names(g.events, n)
  <2>1. PICK i \in DOMAIN g.events : LastAt(i, g.events, n, rv) /\ (g.at <= i \/ stored = rv)
    BY <1>2 DEF Coming, Comes
  <2>2. /\ DOMAIN g.events = 1..Len(g.events) /\ Len(g.events) \in Nat
        /\ i \in Int /\ g.at \in Int /\ i <= Len(g.events)
    <3>1. DOMAIN g.events = 1..Len(g.events) /\ Len(g.events) \in Nat
      OBVIOUS
    <3> QED BY <2>1, <3>1
  <2>3. g.at = i => later = rv
    BY <2>1 DEF LastAt
  <2>4. i < g.at => later = rv
    <3> SUFFICES ASSUME i < g.at PROVE later = rv
      OBVIOUS
    <3>1. n # e.node
      BY <2>1, <2>2 DEF LastAt
    <3> QED BY <2>1, <2>2, <3>1
  <2>5. Comes(next, n, rv, later)
    <3>1. next.at <= i \/ later = rv
      BY <2>2, <2>3, <2>4
    <3> QED BY <2>1, <3>1 DEF Comes
  <2>6. g.at = Len(g.events) => later = rv
    BY <2>2, <2>3, <2>4
  <2> QED BY <1>2, <2>5, <2>6, HoldsComes, EndsComes
<1> QED BY <1>1, <1>2

(* Saving it fails, and the batch is tried again.                          *)
LEMMA RetriedComes ==
  ASSUME NEW batch, NEW gs, NEW g \in gs, g.events \in Seq(Event), g.at \in DOMAIN g.events,
         NEW e, e = g.events[g.at],
         NEW rv, NEW stored, NEW n, Coming(n, batch, gs, rv, stored),
         NEW later, later \in {stored, IF n = e.node THEN e.rv ELSE stored},
         NEW next, next.events = g.events, next.at = 1
  PROVE  Coming(n, batch, (gs \ {g}) \cup {next}, rv, later)
<1>1. CASE ~Names(g.events, n)
  <2>1. later = stored
    BY <1>1 DEF Names
  <2> QED BY <1>1, <2>1, OthersComes
<1>2. CASE Names(g.events, n)
  <2>1. PICK i \in DOMAIN g.events : LastAt(i, g.events, n, rv)
    BY <1>2 DEF Coming, Comes
  <2>2. 1 <= i
    BY <2>1
  <2>3. Comes(next, n, rv, later)
    BY <2>1, <2>2 DEF Comes
  <2> QED BY <1>2, <2>3, HoldsComes
<1> QED BY <1>1, <1>2

(* Memory and redis are empty at first.                                    *)
LEMMA InitVInv == Init => VInv
<1> SUFFICES ASSUME Init PROVE \A n \in Nodes : NodeComes(n)
  BY InitOInv DEF VInv, Init
<1> TAKE n \in Nodes
<1>1. RegionOf[n] \in Regions
  BY PersistenceAssumption
<1>2. call[RegionOf[n]].batch = <<>> /\ saving[RegionOf[n]] = {}
  BY <1>1 DEF Init, Idle
<1>3. nodeRV[n] = 0 /\ redis.nodes[n] = 0
  BY DEF Init, Emptied
<1> QED BY <1>2, <1>3 DEF NodeComes, Coming, Names

(* A node's region, what redis has of it, and who may be at work.          *)
LEMMA NodeTyped ==
  ASSUME CInv, NEW n \in Nodes
  PROVE  /\ RegionOf[n] \in Regions /\ nodeRV[n] \in RVs
         /\ redis \in [nodes : [Nodes -> RVs], status : [Regions -> RVs],
                       assignment : Clients \cup {None}, clients : SUBSET Clients]
         /\ ~up => call[RegionOf[n]] = Idle /\ saving[RegionOf[n]] = {}
<1>1. PInv
  BY DEF CInv
<1>2. RegionOf[n] \in Regions
  BY PersistenceAssumption
<1> QED BY <1>1, <1>2 DEF PInv, Typed, Stopped

(* One node is written.                                                    *)
LEMMA Written ==
  ASSUME CInv, NEW n \in Nodes, NEW e \in Event,
         redis' = [redis EXCEPT !.nodes[e.node] = e.rv]
  PROVE  redis'.nodes[n] = IF n = e.node THEN e.rv ELSE redis.nodes[n]
<1>1. e.node \in Nodes
  BY DEF Event
<1>2. redis \in [nodes : [Nodes -> RVs], status : [Regions -> RVs],
                 assignment : Clients \cup {None}, clients : SUBSET Clients]
  BY NodeTyped
<1>3. redis'.nodes = [redis.nodes EXCEPT ![e.node] = e.rv] /\ redis.nodes \in [Nodes -> RVs]
  BY <1>2
<1> QED BY <1>1, <1>3

(* A goroutine's step.                                                     *)
LEMMA PersistedStays ==
  ASSUME VInv, NEW r \in Regions, PersistNodes(r), NEW n \in Nodes \ doubtful'
  PROVE  NodeComes(n)'
<1>1. PICK g \in saving[r] : SaveNode(r, g) \/ FailToSaveNode(r, g)
  BY DEF PersistNodes
<1>2. OInv /\ CInv
  BY RegionInLine DEF VInv, OInv
<1>3. /\ g \in Goroutines /\ g.at \in DOMAIN g.events /\ g.events \in Seq(Event)
      /\ DOMAIN saving = Regions
  BY <1>2, RegionTyped DEF Goroutines
<1>4. PICK e : e = g.events[g.at]
  OBVIOUS
<1>5. e \in Event /\ e.node \in Nodes /\ RegionOf[e.node] = r
  <2>1. Own(r, g.events)
    BY <1>2, RegionInLine DEF InLine
  <2> QED BY <1>3, <1>4, <2>1, EventsTyped DEF Own
<1>6. /\ call'[r].batch = call[r].batch /\ UNCHANGED nodeRV
      /\ \A q \in Regions \ {r} : call'[q] = call[q] /\ saving'[q] = saving[q]
  BY <1>1, <1>2, Persisting
<1>7. n \in Nodes /\ n \notin doubtful /\ RegionOf[n] \in Regions
  <2>1. doubtful \subseteq doubtful'
    BY <1>1 DEF SaveNode, FailToSaveNode
  <2> QED BY <1>2, <2>1, NodeTyped
<1>8. NodeComes(n)
  <2>1. up
    <3>1. ~up => saving[r] = {}
      BY <1>2 DEF CInv, PInv, Stopped
    <3> QED BY <3>1
  <2> QED BY <1>7, <2>1 DEF VInv
<1>9. PICK later : later = redis'.nodes[n]
  OBVIOUS
<1>10. \/ redis' = [redis EXCEPT !.nodes[e.node] = e.rv]
       \/ redis' = redis
  BY <1>1, <1>4 DEF SaveNode, FailToSaveNode
<1>11. \/ later = IF n = e.node THEN e.rv ELSE redis.nodes[n]
       \/ later = redis.nodes[n]
  BY <1>2, <1>5, <1>7, <1>9, <1>10, Written
<1>12. CASE RegionOf[n] # r
  <2>1. later = redis.nodes[n]
    BY <1>5, <1>11, <1>12
  <2> QED BY <1>6, <1>7, <1>8, <1>9, <1>12, <2>1 DEF NodeComes
<1>13. CASE RegionOf[n] = r
  <2>1. Coming(n, call[r].batch, saving[r], nodeRV[n], redis.nodes[n])
    BY <1>8, <1>13 DEF NodeComes
  <2> SUFFICES Coming(n, call[r].batch, saving'[r], nodeRV[n], later)
    BY <1>6, <1>9, <1>13 DEF NodeComes
  <2>2. CASE SaveNode(r, g)
    <3> DEFINE next == [g EXCEPT !.at = @ + 1]
    <3>1. next.events = g.events /\ next.at = g.at + 1
      BY <1>3 DEF Goroutines
    <3>2. \/ saving'[r] = (saving[r] \ {g}) \cup {next}
          \/ g.at = Len(g.events) /\ saving'[r] = saving[r] \ {g}
      BY <1>3, <2>2 DEF SaveNode, Done, GoOn
    <3>3. later = IF n = e.node THEN e.rv ELSE redis.nodes[n]
      <4>1. redis' = [redis EXCEPT !.nodes[e.node] = e.rv]
        BY <1>4, <2>2 DEF SaveNode
      <4> QED BY <1>2, <1>5, <1>7, <1>9, <4>1, Written
    <3> HIDE DEF next
    <3>4. /\ Coming(n, call[r].batch, (saving[r] \ {g}) \cup {next}, nodeRV[n], later)
          /\ g.at = Len(g.events) =>
               Coming(n, call[r].batch, saving[r] \ {g}, nodeRV[n], later)
      BY <1>3, <1>4, <2>1, <3>1, <3>3, SavedComes
    <3> QED BY <3>2, <3>4
  <2>3. CASE FailToSaveNode(r, g)
    <3> DEFINE next == [g EXCEPT !.at = 1, !.retries = @ + 1]
    <3>1. next.events = g.events /\ next.at = 1
      BY <1>3 DEF Goroutines
    <3>2. \/ saving'[r] = (saving[r] \ {g}) \cup {next}
          \/ /\ doubtful' = doubtful \cup {g.events[i].node : i \in DOMAIN g.events}
             /\ saving'[r] = saving[r] \ {g}
      BY <1>3, <2>3 DEF FailToSaveNode, Done, GoOn
    <3> HIDE DEF next
    <3>3. CASE saving'[r] = (saving[r] \ {g}) \cup {next}
      <4>1. later \in {redis.nodes[n], IF n = e.node THEN e.rv ELSE redis.nodes[n]}
        BY <1>11
      <4> HIDE DEF next
      <4> QED BY <1>3, <1>4, <2>1, <3>1, <3>3, <4>1, RetriedComes
    <3>4. CASE /\ doubtful' = doubtful \cup {g.events[i].node : i \in DOMAIN g.events}
               /\ saving'[r] = saving[r] \ {g}
      <4>1. ~Names(g.events, n)
        BY <3>4 DEF Names
      <4>2. n # e.node
        BY <1>3, <1>4, <4>1 DEF Names
      <4>3. later = redis.nodes[n]
        BY <1>11, <4>2
      <4> QED BY <2>1, <3>4, <4>1, <4>3, OthersComes
    <3> QED BY <3>2, <3>3, <3>4
  <2> QED BY <1>1, <2>2, <2>3
<1> QED BY <1>12, <1>13

(* An event is processed.                                                  *)
LEMMA TakenStays ==
  ASSUME VInv, NEW r \in Regions, processNodeEvent(r), NEW n \in Nodes \ doubtful'
  PROVE  NodeComes(n)'
<1>1. PICK e : e = Head(call[r].todo)
  OBVIOUS
<1>2. PICK batch : batch = Append(call[r].batch, e)
  OBVIOUS
<1>3. OInv /\ CInv
  BY DEF VInv, OInv
<1>4. /\ e \in Event /\ e.node \in Nodes /\ RegionOf[e.node] = r
      /\ nodeRV' = [nodeRV EXCEPT ![e.node] = e.rv]
  BY <1>1, <1>3, TakenIsLatest
<1>5. /\ \/ call'[r].batch = <<>> /\ saving'[r] = saving[r] \cup {BatchOf(batch)}
         \/ call'[r].batch = batch /\ saving'[r] = saving[r]
      /\ \A q \in Regions \ {r} : call'[q] = call[q] /\ saving'[q] = saving[q]
      /\ UNCHANGED redis
  BY <1>1, <1>2, <1>3, Taking
<1>6. call[r].batch \in Seq(Event) /\ RegionOf[n] \in Regions /\ nodeRV \in [Nodes -> RVs]
  BY <1>3, RegionTyped, NodeTyped DEF Calls
<1>7. nodeRV'[n] = IF n = e.node THEN e.rv ELSE nodeRV[n]
  BY <1>4, <1>6
<1>8. doubtful' = IF InBatches(r, e.node) THEN doubtful \cup {e.node} ELSE doubtful \ {e.node}
  BY <1>1 DEF processNodeEvent
<1>9. CASE n = e.node
  <2>1. \A g \in saving[r] : ~Names(g.events, e.node)
    BY <1>8, <1>9 DEF InBatches, Names
  <2>2. /\ Coming(n, batch, saving[r], e.rv, redis.nodes[n])
        /\ Coming(n, <<>>, saving[r] \cup {BatchOf(batch)}, e.rv, redis.nodes[n])
    BY <1>2, <1>4, <1>6, <1>9, <2>1, TakenComes
  <2> QED BY <1>4, <1>5, <1>7, <1>9, <2>2 DEF NodeComes
<1>10. CASE n # e.node
  <2>1. NodeComes(n)
    <3>1. n \notin doubtful
      BY <1>8, <1>10
    <3>2. up
      <4>1. ~up => call[r] = Idle
        BY <1>3 DEF CInv, PInv, Stopped
      <4> QED BY <4>1 DEF processNodeEvent, Idle
    <3> QED BY <3>1, <3>2 DEF VInv
  <2>2. CASE RegionOf[n] = r
    <3>1. Coming(n, call[r].batch, saving[r], nodeRV[n], redis.nodes[n])
      BY <2>1, <2>2 DEF NodeComes
    <3>2. /\ Coming(n, batch, saving[r], nodeRV[n], redis.nodes[n])
          /\ Coming(n, <<>>, saving[r] \cup {BatchOf(batch)}, nodeRV[n], redis.nodes[n])
      BY <1>2, <1>4, <1>6, <1>10, <3>1, OtherTakenComes
    <3> QED BY <1>5, <1>7, <1>10, <2>2, <3>2 DEF NodeComes
  <2>3. CASE RegionOf[n] # r
    BY <1>5, <1>6, <1>7, <1>10, <2>1, <2>3 DEF NodeComes
  <2> QED BY <2>2, <2>3
<1> QED BY <1>9, <1>10

(* No other step of the running service touches batches or redis' nodes.   *)
LEMMA QuietStays ==
  ASSUME VInv, up,
         \/ \E r \in Regions : \/ ProcessEvents(r) \/ getNodeStoreStatus(r)
                               \/ PersistNodeStoreStatus(r) \/ WaitForAllNodesSaved(r)
         \/ \E c \in Clients : Allocate(c) \/ PersistVirtualNodesAssignments(c) \/ PersistClient(c)
         \/ UNCHANGED vars,
         NEW n \in Nodes \ doubtful'
  PROVE  NodeComes(n)'
<1>1. UNCHANGED <<nodeRV, saving, doubtful>>
  BY DEF ProcessEvents, getNodeStoreStatus, PersistNodeStoreStatus, WaitForAllNodesSaved,
         Allocate, PersistVirtualNodesAssignments, PersistClient, vars, memory
<1>2. CInv /\ RegionOf[n] \in Regions /\ DOMAIN call = Regions
  BY NodeTyped, RegionTyped DEF VInv, OInv
<1>3. redis'.nodes = redis.nodes
  <2>1. redis \in [nodes : [Nodes -> RVs], status : [Regions -> RVs],
                   assignment : Clients \cup {None}, clients : SUBSET Clients]
    BY <1>2, NodeTyped
  <2>2. \/ UNCHANGED redis
        \/ \E x : \/ redis' = [redis EXCEPT !.status = x]
                  \/ redis' = [redis EXCEPT !.assignment = x]
                  \/ redis' = [redis EXCEPT !.clients = @ \cup {x}]
    BY DEF ProcessEvents, getNodeStoreStatus, PersistNodeStoreStatus, WaitForAllNodesSaved,
           Allocate, PersistVirtualNodesAssignments, PersistClient, vars
  <2> QED BY <2>1, <2>2
<1>4. call'[RegionOf[n]].batch = call[RegionOf[n]].batch
  <2>1. CASE \E r \in Regions : \/ ProcessEvents(r) \/ getNodeStoreStatus(r)
                                \/ PersistNodeStoreStatus(r) \/ WaitForAllNodesSaved(r)
    <3>1. PICK r \in Regions : \/ ProcessEvents(r) \/ getNodeStoreStatus(r)
                               \/ PersistNodeStoreStatus(r) \/ WaitForAllNodesSaved(r)
      BY <2>1
    <3>2. call[r] \in Calls /\ Counts(call[r], saving[r])
      BY <1>2, RegionTyped
    <3>3. CASE ProcessEvents(r) \/ WaitForAllNodesSaved(r)
      <4>1. call[r].pc # "process"
        BY <3>3 DEF ProcessEvents, WaitForAllNodesSaved
      <4>2. call[r].batch = <<>>
        BY <3>2, <4>1 DEF Counts
      <4>3. call'[r].batch = <<>> /\ \A q \in Regions \ {r} : call'[q] = call[q]
        <5>1. CASE ProcessEvents(r)
          <6>1. PICK events : call' = [call EXCEPT ![r] = [Idle EXCEPT !.pc = "process", !.todo = events,
                                                                      !.waiting = Len(events)]]
            BY <5>1 DEF ProcessEvents
          <6> QED BY <1>2, <6>1 DEF Idle
        <5>2. CASE WaitForAllNodesSaved(r)
          <6>1. call' = [call EXCEPT ![r] = Idle]
            BY <5>2 DEF WaitForAllNodesSaved
          <6> QED BY <1>2, <6>1 DEF Idle
        <5> QED BY <3>3, <5>1, <5>2
      <4> QED BY <1>2, <4>2, <4>3
    <3>4. CASE getNodeStoreStatus(r) \/ PersistNodeStoreStatus(r)
      <4>1. \/ call' = [call EXCEPT ![r].status = currentRVs, ![r].pc = "save"]
            \/ call' = [call EXCEPT ![r].pc = "wait"]
        BY <3>4 DEF getNodeStoreStatus, PersistNodeStoreStatus
      <4>2. call'[r].batch = call[r].batch /\ \A q \in Regions \ {r} : call'[q] = call[q]
        BY <1>2, <3>2, <4>1 DEF Calls
      <4> QED BY <1>2, <4>2
    <3> QED BY <3>1, <3>3, <3>4
  <2>2. CASE UNCHANGED call
    BY <2>2
  <2> QED BY <2>1, <2>2 DEF Allocate, PersistVirtualNodesAssignments, PersistClient, vars, memory
<1>5. NodeComes(n)
  BY <1>1 DEF VInv
<1> QED BY <1>1, <1>3, <1>4, <1>5 DEF NodeComes

(* What becomes of a node nobody doubts is kept by every step.             *)
LEMMA NextVInv == VInv /\ [Next]_vars => VInv'
<1> SUFFICES ASSUME VInv, [Next]_vars PROVE VInv'
  OBVIOUS
<1>1. OInv' /\ CInv
  BY NextOInv DEF VInv, OInv
<1>2. CASE Stop
  BY <1>1, <1>2 DEF Stop, VInv
<1>3. CASE Run
  <2>1. /\ \A n \in Nodes : nodeRV'[n] = 0 /\ redis'.nodes[n] = 0
        /\ up' /\ UNCHANGED <<call, saving>>
    BY <1>3 DEF Run, VInv, FlushAll, Emptied
  <2>2. \A n \in Nodes : call'[RegionOf[n]].batch = <<>> /\ saving'[RegionOf[n]] = {}
    BY <1>1, <1>3, <2>1, NodeTyped DEF Run, Idle
  <2>3. \A n \in Nodes : NodeComes(n)'
    BY <2>1, <2>2 DEF NodeComes, Coming, Names
  <2> QED BY <1>1, <2>1, <2>3 DEF VInv
<1>4. CASE ~Stop /\ ~Run
  <2>1. \/ \E r \in Regions : processNodeEvent(r) \/ PersistNodes(r)
        \/ \E r \in Regions : \/ ProcessEvents(r) \/ getNodeStoreStatus(r)
                              \/ PersistNodeStoreStatus(r) \/ WaitForAllNodesSaved(r)
        \/ \E c \in Clients : Allocate(c) \/ PersistVirtualNodesAssignments(c)
                              \/ PersistClient(c)
        \/ UNCHANGED vars
    <3>1. \/ \E r \in Regions : Step(r) \/ PersistNodes(r)
          \/ \E c \in Clients : Allocate(c) \/ PersistVirtualNodesAssignments(c)
                                \/ PersistClient(c)
          \/ UNCHANGED vars
      BY <1>4 DEF Next
    <3>2. CASE \E r \in Regions : Step(r)
      BY <3>2, Zenon DEF Step
    <3> QED BY <3>1, <3>2, Zenon
  <2>4. UNCHANGED up
    <3>1. ASSUME NEW r \in Regions, processNodeEvent(r) \/ PersistNodes(r) PROVE UNCHANGED up
      BY <3>1 DEF processNodeEvent, PersistNodes, SaveNode, FailToSaveNode
    <3>2. ASSUME NEW r \in Regions, \/ ProcessEvents(r) \/ getNodeStoreStatus(r)
                                    \/ PersistNodeStoreStatus(r) \/ WaitForAllNodesSaved(r)
          PROVE  UNCHANGED up
      BY <3>2 DEF ProcessEvents, getNodeStoreStatus, PersistNodeStoreStatus, WaitForAllNodesSaved
    <3>3. ASSUME NEW c \in Clients, \/ Allocate(c) \/ PersistVirtualNodesAssignments(c)
                                    \/ PersistClient(c)
          PROVE  UNCHANGED up
      BY <3>3 DEF Allocate, PersistVirtualNodesAssignments, PersistClient
    <3> QED BY <2>1, <3>1, <3>2, <3>3 DEF vars
  <2>2. CASE up
    <3>1. \A n \in Nodes \ doubtful' : NodeComes(n)'
      BY <2>1, <2>2, TakenStays, PersistedStays, QuietStays
    <3> QED BY <1>1, <2>2, <2>4, <3>1 DEF VInv
  <2>3. CASE ~up
    <3>1. UNCHANGED nodeRV
      <4>1. \A r \in Regions : call[r].pc = "idle"
        BY <1>1, <2>3 DEF CInv, PInv, Stopped, Idle
      <4>2. \A r \in Regions : ~processNodeEvent(r)
        BY <4>1 DEF processNodeEvent
      <4> QED BY <2>1, <4>2 DEF ProcessEvents, getNodeStoreStatus, PersistNodeStoreStatus,
                WaitForAllNodesSaved, PersistNodes, SaveNode, FailToSaveNode, Allocate,
                PersistVirtualNodesAssignments, PersistClient, vars, memory
    <3> QED BY <1>1, <2>3, <2>4, <3>1 DEF VInv
  <2> QED BY <2>2, <2>3
<1> QED BY <1>2, <1>3, <1>4

(* When ProcessEvents has returned the node store's nodes are in redis, in *)
(* the versions memory has, but for nodes given up on and nodes in two     *)
(* batches of a call: the goroutines of the call have all ended by then,   *)
(* and each had stored what it had of a node last.                         *)
THEOREM SavedOnReturn == Spec => []SavedWhenReturned
<1>1. VInv => SavedWhenReturned
  <2> SUFFICES ASSUME VInv, NEW n \in Nodes \ doubtful, up, call[RegionOf[n]].pc = "idle"
               PROVE  redis.nodes[n] = nodeRV[n]
    BY DEF SavedWhenReturned
  <2>1. CInv /\ RegionOf[n] \in Regions
    BY NodeTyped DEF VInv, OInv
  <2>2. Counts(call[RegionOf[n]], saving[RegionOf[n]])
    BY <2>1, RegionTyped
  <2>3. call[RegionOf[n]].batch = <<>> /\ saving[RegionOf[n]] = {}
    BY <2>2 DEF Counts
  <2>4. NodeComes(n)
    BY DEF VInv
  <2> QED BY <2>3, <2>4 DEF NodeComes, Coming, Names
<1> QED BY <1>1, InitVInv, NextVInv, PTL DEF Spec
=============================================================================
