----------------------------- MODULE ServiceAPI -----------------------------
(***************************************************************************)
(* The service as one client sees it: the handlers of registration, list   *)
(* and watch (service-api/endpoints/installer.go) and the stream of a      *)
(* watch.  What the distributor does is reduced to what Distributor and    *)
(* WatchSession show of it: a list is a snapshot with its version, a watch *)
(* brings the events since a version and then hands over new ones in any   *)
(* order.  The nodes are of one location; an event is its version.  (One   *)
(* that is enqueued twice, see WatchSession, would only be stored again.)  *)
(***************************************************************************)
EXTENDS ClientRequest, FiniteSets

CONSTANTS
  Nodes,
  FirstNodes,                \* the nodes the service starts with, by version
  DefaultResponseTrunkSize,
  MaxRestarts                \* bound on how often the service is started again

ASSUME ServiceAssumption ==
  /\ IsFiniteSet(Nodes)
  /\ FirstNodes \in Seq(Nodes) /\ Len(FirstNodes) <= MaxRV
  /\ DefaultResponseTrunkSize \in Nat \ {0}
  /\ MaxRestarts \in Nat

VARIABLES
  clients,     \* ids given out
  known,       \* ids of registered clients
  log,         \* version -> the node that changed
  deliveries,  \* versions whose delivery goroutine has yet to write to the stream
  stream,      \* versions on their way to the client
  streamEnd,   \* "none" before a watch, "opening", "open", or how the stream ends
  missed,      \* versions that no list and no watch will bring (auxiliary)
  overtaken,   \* nodes of which an event was delivered after a newer one (auxiliary)
  restarts     \* how often the service was started again (auxiliary)

serviceVars == <<clients, known, log, deliveries, stream, streamEnd, missed, overtaken,
                 restarts>>

RVs == 1..MaxRV
Ends == {"eof", "timeout", "reset", "undecodable"}
VersionsOf(n, rv) == {i \in 1..rv : log[i] = n}
Version(n, rv) ==
  IF VersionsOf(n, rv) = {} THEN 0
  ELSE CHOOSE i \in VersionsOf(n, rv) : \A j \in VersionsOf(n, rv) : j <= i

(* The type of the event with version i.                                   *)
TypeOf(i) == IF Cardinality(VersionsOf(log[i], i)) = 1 THEN "Added" ELSE "Modified"

Listed(n, rv) == [node |-> n, rv |-> rv]
Document == [id : Ids \cup {None}, nodes : SUBSET [node : Nodes, rv : RVs],
             rvs : 0..MaxRV \cup {None}]

ServiceInit ==
  /\ clients = 0
  /\ known = {}
  /\ log = FirstNodes
  /\ deliveries = {}
  /\ stream = <<>>
  /\ streamEnd = "none"
  /\ missed = {}
  /\ overtaken = {}
  /\ restarts = 0

-----------------------------------------------------------------------------
Reply(answer) == call' = [call EXCEPT !.pc = "answered", !.answer = answer]
Unanswered == call' = [call EXCEPT !.pc = "unanswered"]

Requested(op) == call.pc = "sent" /\ call.request.op = op

(* A body that is not read whole cannot be unmarshalled.  The distributor  *)
(* denies a request or grants it in full.                                  *)
handleClientRegistration ==
  /\ Requested("register")
  /\ \/ /\ \E code \in {400, 500} : Reply(Answer(code, FALSE, <<>>))
        /\ UNCHANGED <<clients, known>>
     \/ /\ call.whole /\ clients < MaxClients
        /\ clients' = clients + 1
        /\ known' = known \cup {clients + 1}
        /\ Reply(Answer(200, FALSE, <<[id |-> clients + 1, nodes |-> {}, rvs |-> None]>>))
  /\ UNCHANGED <<log, deliveries, stream, streamEnd, missed, overtaken, restarts>>

(* handleResponseTrunked: every chunk is a response of its own, with the   *)
(* versions of the whole list.                                             *)
ChunkSize(limit) == IF DefaultResponseTrunkSize < limit THEN limit ELSE DefaultResponseTrunkSize

Orders(S) == {order \in [1..Cardinality(S) -> S] : \A n \in S : \E i \in DOMAIN order : order[i] = n}

Chunk(order, size, k, rv) ==
  [id |-> None, rvs |-> rv,
   nodes |-> {Listed(order[i], Version(order[i], rv)) :
                i \in {j \in DOMAIN order : (k - 1) * size < j /\ j <= k * size}}]

Chunks(order, size, rv) ==
  IF Len(order) <= size THEN <<Chunk(order, size, 1, rv)>>
  ELSE [k \in 1..((Len(order) + size - 1) \div size) |-> Chunk(order, size, k, rv)]

VersionsIn(body) == UNION {{obj.rv : obj \in body[k].nodes} : k \in DOMAIN body}

(* The status was written before the list is made: an unknown client gets  *)
(* 200 and nothing with it.  Without an id there is no such resource.  A   *)
(* chunk that cannot be marshalled ends the body there, as if the chunks   *)
(* before it were all.                                                     *)
ResourceHandlerGet ==
  /\ Requested("list")
  /\ \/ /\ call.request.name = None
        /\ Reply(Answer(404, FALSE, <<>>))
        /\ UNCHANGED missed
     \/ /\ call.request.name # None /\ call.request.name \notin known
        /\ Reply(Answer(200, FALSE, <<>>))
        /\ UNCHANGED missed
     \/ /\ call.request.name \in known
        /\ \E order \in Orders({n \in Nodes : Version(n, Len(log)) > 0}) :
             LET chunks == Chunks(order, ChunkSize(call.request.limit), Len(log)) IN
             \E marshalled \in 0..Len(chunks) :
               LET body == SubSeq(chunks, 1, marshalled) IN
               /\ Reply(Answer(200, FALSE, body))
               /\ missed' = VersionsIn(chunks) \ VersionsIn(body)
  /\ UNCHANGED <<clients, known, log, deliveries, stream, streamEnd, overtaken, restarts>>

(* serverWatch: NodeEventQueue.Watch collects the events since the versions *)
(* of the request and only then opens the stream, without a lock.  It      *)
(* refuses a request without versions, an unknown client, one with another *)
(* watch and versions that the queue no longer reaches back to: the handler*)
(* then waits for ever to signal its stop, and what it has written stays in*)
(* its buffer.                                                             *)
SinceNext(rv) == {i \in 1..Len(log) : i > rv + 1}
SinceTheBeginning(rv) == 1..Len(log)
Since(rv) == {i \in 1..Len(log) : i > rv}

Replay(rv) == [i \in 1..Cardinality(Since(rv)) |-> Len(log) - Cardinality(Since(rv)) + i]

Accepted(request) == request.rvs # None /\ request.name \in known

serverWatch ==
  /\ Requested("watch")
  /\ Unanswered
  /\ \/ UNCHANGED <<stream, streamEnd>>
     \/ /\ Accepted(call.request)
        /\ stream' = Replay(call.request.rvs)
        /\ streamEnd' = "opening"
  /\ UNCHANGED <<clients, known, log, deliveries, missed, overtaken, restarts>>

OpenStream ==
  /\ streamEnd = "opening"
  /\ streamEnd' = "open"
  /\ IF call.pc = "unanswered" THEN Reply(Answer(200, FALSE, <<>>)) ELSE UNCHANGED call
  /\ UNCHANGED <<clients, known, log, deliveries, stream, missed, overtaken, restarts>>

(* A node changes or joins; with a watch open, a goroutine is to deliver   *)
(* the event.  While one is being opened, the event comes too late for the *)
(* replay and too early for the stream.                                    *)
NodeChanges ==
  /\ Len(log) < MaxRV
  /\ \E n \in Nodes : log' = Append(log, n)
  /\ deliveries' = deliveries \cup {rv \in {Len(log) + 1} : streamEnd = "open"}
  /\ missed' = missed \cup {rv \in {Len(log) + 1} : streamEnd = "opening"}
  /\ UNCHANGED <<call, clients, known, stream, streamEnd, overtaken, restarts>>

Deliver ==
  /\ streamEnd = "open"
  /\ \E rv \in deliveries :
       /\ stream' = Append(stream, rv)
       /\ deliveries' = deliveries \ {rv}
       /\ overtaken' = overtaken \cup {n \in {log[rv]} :
                         \E newer \in Since(rv) \ deliveries : log[newer] = n}
  /\ UNCHANGED <<call, clients, known, log, streamEnd, missed, restarts>>

(* The stream ends when the client's timeout strikes, when a connection    *)
(* breaks or when the service writes something else than an event.         *)
StreamEndsWith(end) ==
  /\ streamEnd = "open"
  /\ streamEnd' = end
  /\ deliveries' = {}
  /\ UNCHANGED <<call, clients, known, log, stream, missed, overtaken, restarts>>

(* A service that is started again knows no clients, and no version: its   *)
(* nodes come back, with the versions they have at their region managers.  *)
Restart ==
  /\ restarts < MaxRestarts
  /\ restarts' = restarts + 1
  /\ known' = {}
  /\ deliveries' = {}
  /\ IF call.pc \in {"sent", "unanswered"} THEN Fails("reset") ELSE UNCHANGED call
  /\ streamEnd' = IF streamEnd \in {"opening", "open"} THEN "reset" ELSE streamEnd
  /\ UNCHANGED <<clients, log, stream, missed, overtaken>>

Handle == handleClientRegistration \/ ResourceHandlerGet \/ serverWatch \/ OpenStream

ServiceTypeOK ==
  /\ clients \in 0..MaxClients
  /\ known \subseteq Ids
  /\ log \in Seq(Nodes) /\ Len(log) <= MaxRV
  /\ deliveries \subseteq RVs
  /\ stream \in Seq(RVs)
  /\ streamEnd \in {"none", "opening", "open"} \cup Ends
  /\ missed \subseteq RVs
  /\ overtaken \subseteq Nodes
  /\ restarts \in 0..MaxRestarts
=============================================================================
