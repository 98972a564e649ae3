---------------------------- MODULE ClientSession ----------------------------
(***************************************************************************)
(* A client of the service: it registers, lists its nodes, puts them into  *)
(* its store and keeps the store up to date from a watch, as the client of *)
(* the end-to-end test does (test/e2e/singleClientTest.go), by means of    *)
(* the SDK's calls (clientSdk/rmsclient) and its watcher of a stream       *)
(* (clientSdk/watch/streamwatcher.go).                                     *)
(***************************************************************************)
EXTENDS ServiceAPI, ClientCache

ASSUME SessionAssumption ==
  /\ Nodes \subseteq Keys
  /\ [node : Nodes, rv : RVs] \subseteq Objects
  /\ \A obj \in [node : Nodes, rv : RVs] : KeyFunc[obj] = obj.node

VARIABLES
  pc,      \* where the client is
  id,      \* its id, None before it is registered
  listed,  \* nodes of the list not in the store yet
  rvs,     \* the versions of the list
  sw       \* the watcher: where its goroutine is, the event it sends, stopped

sessionVars == <<pc, id, listed, rvs, sw>>
vars == <<call, serviceVars, storeVars, sessionVars>>

ErrorEvent == 0
NoWatcher == [pc |-> "none", event |-> ErrorEvent, stopped |-> FALSE]
Over == {"done", "exited", "crashed"}

SessionInit ==
  /\ pc = "start"
  /\ id = None
  /\ listed = {}
  /\ rvs = None
  /\ sw = NoWatcher

Init == RequestInit /\ ServiceInit /\ NewStore /\ SessionInit

-----------------------------------------------------------------------------
(* The calls.  A body is unmarshalled as one document, or not at all.      *)

FirstDocument(body) == Len(body) >= 1
Unmarshalled(body) == Len(body) = 1

Register ==
  /\ pc = "start"
  /\ Begin(Body(NewRequest("register"), None))
  /\ pc' = "registering"
  /\ UNCHANGED <<serviceVars, storeVars, id, listed, rvs, sw>>

(* Nothing makes a program register first.                                 *)
SkipRegistration ==
  /\ pc = "start"
  /\ pc' = "registered"
  /\ UNCHANGED <<call, serviceVars, storeVars, id, listed, rvs, sw>>

registerClient ==
  /\ pc = "registering" /\ call.pc = "over"
  /\ call' = NoCall
  /\ \/ /\ ~call.err /\ Unmarshalled(call.answer.body)
        /\ id' = call.answer.body[1].id
        /\ pc' = "registered"
     \/ /\ call.err \/ ~Unmarshalled(call.answer.body)
        /\ pc' = "exited"
        /\ UNCHANGED id
  /\ UNCHANGED <<serviceVars, storeVars, listed, rvs, sw>>

ListNodes ==
  /\ pc = "registered"
  /\ \E limit \in Limits : Begin(Param(Name(NewRequest("list"), id), limit))
  /\ pc' = "listing"
  /\ UNCHANGED <<serviceVars, storeVars, id, listed, rvs, sw>>

(* List passes over a body that it cannot unmarshal: no nodes, no versions *)
(* and no error.                                                           *)
listNodes ==
  /\ pc = "listing" /\ call.pc = "over"
  /\ call' = NoCall
  /\ pc' = IF call.err THEN "exited" ELSE "adding"
  /\ IF ~call.err /\ Unmarshalled(call.answer.body)
     THEN /\ listed' = call.answer.body[1].nodes
          /\ rvs' = call.answer.body[1].rvs
     ELSE UNCHANGED <<listed, rvs>>
  /\ UNCHANGED <<serviceVars, storeVars, id, sw>>

AddListed ==
  /\ pc = "adding"
  /\ \E obj \in listed : Add(obj) /\ listed' = listed \ {obj}
  /\ UNCHANGED <<call, serviceVars, pc, id, rvs, sw>>

WatchNodes ==
  /\ pc = "adding" /\ listed = {}
  /\ Begin(Body(Name(NewRequest("watch"), id), rvs))
  /\ pc' = "watching"
  /\ UNCHANGED <<serviceVars, storeVars, id, listed, rvs, sw>>

(* The error of a watch is logged, the watcher that is not there used all  *)
(* the same.                                                               *)
watchNodes ==
  /\ pc = "watching" /\ call.pc = "over"
  /\ call' = NoCall
  /\ pc' = IF call.err THEN "crashed" ELSE "consuming"
  /\ sw' = IF call.err THEN sw ELSE
           [sw EXCEPT !.pc = IF call.answer = EmptyWatch THEN "closed" ELSE "decode"]
  /\ UNCHANGED <<serviceVars, storeVars, id, listed, rvs>>

-----------------------------------------------------------------------------
(* StreamWatcher.receive: it decodes an event, or finds that there will be *)
(* none.  Ends of a stream that are expected close the channel, others are *)
(* sent as an error before, unless the watcher was stopped.                *)

Decode ==
  /\ sw.pc = "decode" /\ stream # <<>>
  /\ sw' = [sw EXCEPT !.pc = "send", !.event = Head(stream)]
  /\ stream' = Tail(stream)
  /\ UNCHANGED <<call, clients, known, log, deliveries, streamEnd, missed, overtaken, restarts,
                 storeVars, pc, id, listed, rvs>>

AfterEnd(end) == IF end = "undecodable" /\ ~sw.stopped THEN "send" ELSE "closed"

DecodeFails ==
  /\ sw.pc = "decode" /\ streamEnd \in Ends
  /\ stream = <<>> \/ streamEnd \in {"timeout", "reset"}
  /\ sw' = [sw EXCEPT !.pc = AfterEnd(streamEnd), !.event = ErrorEvent]
  /\ UNCHANGED <<call, serviceVars, storeVars, pc, id, listed, rvs>>

-----------------------------------------------------------------------------
(* The loop over the watcher's channel.                                    *)

Store(rv) ==
  LET obj == Listed(log[rv], rv) IN
  IF TypeOf(rv) = "Added" THEN Add(obj) ELSE Update(obj)

Consume ==
  /\ pc = "consuming" /\ sw.pc = "send"
  /\ IF sw.event = ErrorEvent THEN UNCHANGED storeVars ELSE Store(sw.event)
  /\ sw' = [sw EXCEPT !.pc = IF sw.event = ErrorEvent THEN "closed" ELSE "decode"]
  /\ UNCHANGED <<call, serviceVars, pc, id, listed, rvs>>

EndOfResults ==
  /\ pc = "consuming" /\ sw.pc = "closed"
  /\ pc' = "done"
  /\ UNCHANGED <<call, serviceVars, storeVars, id, listed, rvs, sw>>

(* A program may stop the watcher, and go on reading or not.  Closing the  *)
(* decoder does nothing.                                                   *)
Stop ==
  /\ pc = "consuming" /\ ~sw.stopped
  /\ sw' = [sw EXCEPT !.stopped = TRUE]
  /\ pc' \in {"consuming", "done"}
  /\ UNCHANGED <<call, serviceVars, storeVars, id, listed, rvs>>

-----------------------------------------------------------------------------
Request == (RequestStep \/ RequestFault) /\ UNCHANGED <<serviceVars, storeVars, sessionVars>>

Service ==
  /\ \/ Handle \/ NodeChanges \/ Deliver \/ Restart
     \/ \E end \in Ends : StreamEndsWith(end)
  /\ UNCHANGED <<storeVars, sessionVars>>

Client ==
  \/ Register \/ registerClient
  \/ ListNodes \/ listNodes \/ AddListed
  \/ WatchNodes \/ watchNodes
  \/ Decode \/ DecodeFails \/ Consume \/ EndOfResults

Next == Request \/ Service \/ Client \/ SkipRegistration \/ Stop

Spec == Init /\ [][Next]_vars

(* The client's goroutines go on when they can, and its timeout, which is  *)
(* that of every call and of the stream, strikes in the end.  Nothing is   *)
(* asked of the service.                                                   *)
Fairness ==
  /\ WF_vars(Client)
  /\ WF_vars(Request)
  /\ WF_vars(StreamEndsWith("timeout") /\ UNCHANGED <<storeVars, sessionVars>>)

FairSpec == Spec /\ Fairness

-----------------------------------------------------------------------------
(* Every variable has its type.                                            *)
TypeOK ==
  /\ RequestTypeOK(Document) /\ ServiceTypeOK /\ StoreTypeOK
  /\ pc \in {"start", "registering", "registered", "listing", "adding", "watching",
             "consuming"} \cup Over
  /\ id \in Ids \cup {None}
  /\ listed \subseteq [node : Nodes, rv : RVs]
  /\ rvs \in 0..MaxRV \cup {None}
  /\ sw \in [pc : {"none", "decode", "send", "closed"}, event : RVs \cup {ErrorEvent},
             stopped : BOOLEAN]

(* "We are not automatically retrying write operations, as they are not    *)
(* idempotent": one Register registers one client at most, however often   *)
(* its connection breaks, and the client has the id that the service knows.*)
RegisteredOnce ==
  /\ clients <= 1
  /\ id # None => id = clients

(* A request that is made again is made with its whole body.               *)
BodyArrivesWhole == call.pc = "sent" => call.whole

(* A list is the service's list at its versions, or it is empty and has no *)
(* versions: never a part of it, whatever broke and however it was chunked,*)
(* but for the nodes that the service itself could not marshal.            *)
ListAllOrNothing ==
  pc = "adding" =>
    listed \cup List =
      IF rvs = None THEN {}
      ELSE {Listed(n, Version(n, rvs)) :
              n \in {m \in Nodes : Version(m, rvs) \notin missed \cup {0}}}

(* The version the client has of a node, 0 without it.                     *)
Current(n) == IF items[n] = NoObject THEN 0 ELSE items[n].rv

(* When a watching client has nothing left to read, its store is the       *)
(* service's: what the list had, what came between list and watch and what *)
(* came afterwards, but for nodes whose events were delivered out of order *)
(* and those last seen in what could not be marshalled, or while the watch *)
(* was being opened.                                                       *)
MirrorWhenDrained ==
  /\ pc = "consuming" /\ sw.pc = "decode"
  /\ streamEnd = "open" /\ stream = <<>> /\ deliveries = {}
  => \A n \in Nodes \ overtaken :
       Version(n, Len(log)) \in {Current(n)} \cup missed

(* Although the store takes whatever it is given and compares no versions, *)
(* what a session puts there never takes a node back to an older version:  *)
(* neither where the list ends and the watch begins, nor while a stream    *)
(* that broke is read to its end.  Nodes whose events were delivered out of*)
(* order are excepted.                                                     *)
StoreMovesForward ==
  [][\A n \in Nodes \ overtaken :
       pc # "done" /\ items'[n] # items[n] => Current(n) < Current(n)']_vars

(* Every session comes to its end, and leaves no goroutine behind that was *)
(* not stopped: a call that is never answered, or a stream that breaks,    *)
(* holds the client up until its timeout at the longest.                   *)
SessionEnds == <>(pc \in Over /\ (sw.pc \in {"none", "closed"} \/ sw.stopped))
=============================================================================
