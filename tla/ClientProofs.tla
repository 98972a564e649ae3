----------------------------- MODULE ClientProofs -----------------------------
(***************************************************************************)
(* The client, proved with TLAPS.  The indices of its store agree with the *)
(* items for every key function, every set of index functions and every    *)
(* sequence of calls; its session is registered once at most and makes no  *)
(* request again without its body, however often a connection breaks; what *)
(* it lists is the whole list, and what it stores is what the service has  *)
(* once its watch is drained.                                              *)
(***************************************************************************)
EXTENDS ClientSession, FiniteSetTheorems, WellFoundedInduction, TLAPS

(* Agreement alone is not inductive: an index function that is added later *)
(* must find its indices empty, as the items are then.                     *)
UnusedAreEmpty ==
  \A name \in IndexNames \ indexers : \A value \in IndexValues : indices[name][value] = {}

StoreInv == StoreTypeOK /\ IndexMatchesItems /\ UnusedAreEmpty

(* The last object of a list under a key is an object of the list.         *)
LEMMA LastIsListed ==
  ASSUME NEW list \in Seq(Objects), NEW key \in Keys
  PROVE  LastWith(list, key) \in Objects \cup {NoObject}
<1> DEFINE at == {i \in DOMAIN list : /\ KeyFunc[list[i]] = key
                                      /\ \A j \in DOMAIN list : j > i => KeyFunc[list[j]] # key}
<1>1. CASE at = {}
  BY <1>1 DEF LastWith
<1>2. CASE at # {}
  <2>1. (CHOOSE i \in at : TRUE) \in DOMAIN list
    BY <1>2
  <2> QED BY <1>2, <2>1 DEF LastWith
<1> QED BY <1>1, <1>2

(* What updateIndices returns, under one value of one index.               *)
LEMMA UpdatedIndices ==
  ASSUME StoreTypeOK, NEW key \in Keys,
         NEW old \in Objects \cup {NoObject}, NEW new \in Objects \cup {NoObject}
  PROVE  /\ updateIndices(old, new, key) \in [IndexNames -> [IndexValues -> SUBSET Keys]]
         /\ \A name \in IndexNames \ indexers : \A value \in IndexValues :
              updateIndices(old, new, key)[name][value] = indices[name][value]
         /\ \A name \in indexers : \A value \in IndexValues : \A k \in Keys :
              k \in updateIndices(old, new, key)[name][value] <=>
                IF k = key THEN \/ Found(name, new, value)
                                \/ k \in indices[name][value] /\ ~Found(name, old, value)
                           ELSE k \in indices[name][value]
BY DEF updateIndices, StoreTypeOK

(* Writing one key and updating the indices with what was there before     *)
(* keeps the agreement.                                                    *)
LEMMA WriteKeepsInv ==
  ASSUME StoreInv, NEW key \in Keys, NEW new \in Objects \cup {NoObject},
         items' = [items EXCEPT ![key] = new],
         indices' = updateIndices(items[key], new, key),
         UNCHANGED indexers
  PROVE  StoreInv'
<1> USE DEF StoreInv
<1>1. items[key] \in Objects \cup {NoObject}
  BY DEF StoreTypeOK
<1> DEFINE updated == updateIndices(items[key], new, key)
<1>2. /\ updated \in [IndexNames -> [IndexValues -> SUBSET Keys]]
      /\ \A name \in IndexNames \ indexers : \A value \in IndexValues :
           updated[name][value] = indices[name][value]
      /\ \A name \in indexers : \A value \in IndexValues : \A k \in Keys :
           k \in updated[name][value] <=>
             IF k = key THEN \/ Found(name, new, value)
                             \/ k \in indices[name][value] /\ ~Found(name, items[key], value)
                        ELSE k \in indices[name][value]
  BY <1>1, UpdatedIndices
<1>3. indices' = updated
  OBVIOUS
<1> HIDE DEF updated
<1>4. StoreTypeOK'
  BY <1>2, <1>3 DEF StoreTypeOK
<1>5. UnusedAreEmpty'
  BY <1>2, <1>3 DEF UnusedAreEmpty
<1>6. IndexMatchesItems'
  <2> SUFFICES ASSUME NEW name \in indexers, NEW value \in IndexValues
               PROVE  updated[name][value] = {k \in Keys : Found(name, items'[k], value)}
    BY <1>3 DEF IndexMatchesItems, IndexKeys
  <2>1. ASSUME NEW k \in Keys
        PROVE  k \in updated[name][value] <=> Found(name, items'[k], value)
    <3>1. k \in indices[name][value] <=> Found(name, items[k], value)
      BY DEF IndexMatchesItems, IndexKeys
    <3>2. items'[k] = IF k = key THEN new ELSE items[k]
      BY DEF StoreTypeOK
    <3> QED BY <1>2, <3>1, <3>2
  <2>2. updated[name][value] \subseteq Keys
    BY <1>2 DEF StoreTypeOK
  <2> QED BY <2>1, <2>2
<1> QED BY <1>4, <1>5, <1>6

(* Replacing all items rebuilds the indices of all index functions.        *)
LEMMA ReplaceKeepsInv ==
  ASSUME StoreInv, NEW list \in Seq(Objects), Replace(list)
  PROVE  StoreInv'
<1> USE DEF StoreInv
<1> DEFINE new == [key \in Keys |-> LastWith(list, key)]
<1>1. CASE \E i \in DOMAIN list : KeyFunc[list[i]] = NoKey
  BY <1>1 DEF Replace, StoreTypeOK, IndexMatchesItems, IndexKeys, UnusedAreEmpty
<1>2. CASE ~\E i \in DOMAIN list : KeyFunc[list[i]] = NoKey
  <2>1. /\ items' = new
        /\ indices' = [name \in IndexNames |-> [value \in IndexValues |->
                         {key \in Keys : name \in indexers /\ Found(name, new[key], value)}]]
        /\ indexers' = indexers
    BY <1>2 DEF Replace
  <2>2. new \in [Keys -> Objects \cup {NoObject}]
    BY LastIsListed
  <2> HIDE DEF new
  <2>3. StoreTypeOK'
    BY <2>1, <2>2 DEF StoreTypeOK
  <2>4. IndexMatchesItems' /\ UnusedAreEmpty'
    BY <2>1 DEF IndexMatchesItems, IndexKeys, UnusedAreEmpty, StoreTypeOK
  <2> QED BY <2>3, <2>4
<1> QED BY <1>1, <1>2

(* Index functions are added to an empty store only.                       *)
LEMMA AddIndexersKeepsInv ==
  ASSUME StoreInv, NEW names \in SUBSET IndexNames, AddIndexers(names)
  PROVE  StoreInv'
<1> USE DEF StoreInv
<1>1. CASE AcceptedIndexers(names)
  <2>1. \A key \in Keys : items[key] = NoObject
    BY <1>1 DEF AcceptedIndexers, StoredKeys
  <2>2. \A name \in IndexNames : \A value \in IndexValues : indices[name][value] = {}
    BY <2>1 DEF IndexMatchesItems, IndexKeys, UnusedAreEmpty, Found
  <2>3. indexers' = indexers \cup names /\ UNCHANGED <<items, indices>>
    BY <1>1 DEF AddIndexers
  <2> QED
    BY <2>1, <2>2, <2>3
    DEF StoreTypeOK, IndexMatchesItems, IndexKeys, UnusedAreEmpty, Found
<1>2. CASE ~AcceptedIndexers(names)
  BY <1>2 DEF AddIndexers, StoreTypeOK, IndexMatchesItems, IndexKeys, UnusedAreEmpty
<1> QED BY <1>1, <1>2

(* Every step of the store preserves the invariant.                        *)
LEMMA StoreStep == StoreInv /\ [StoreNext]_storeVars => StoreInv'
<1> SUFFICES ASSUME StoreInv, [StoreNext]_storeVars
             PROVE  StoreInv'
  OBVIOUS
<1>1. CASE UNCHANGED storeVars
  BY <1>1 DEF storeVars, StoreInv, StoreTypeOK, IndexMatchesItems, IndexKeys, UnusedAreEmpty
<1>2. ASSUME NEW obj \in Objects, Put(obj)
      PROVE  StoreInv'
  <2>1. CASE KeyFunc[obj] = NoKey
    BY <1>2, <2>1 DEF Put, StoreInv, StoreTypeOK, IndexMatchesItems, IndexKeys, UnusedAreEmpty
  <2>2. CASE KeyFunc[obj] # NoKey
    <3>1. KeyFunc[obj] \in Keys
      BY <2>2, CacheAssumption
    <3> QED BY <1>2, <2>2, <3>1, WriteKeepsInv DEF Put
  <2> QED BY <2>1, <2>2
<1>3. ASSUME NEW obj \in Objects, Delete(obj)
      PROVE  StoreInv'
  <2>1. CASE KeyFunc[obj] = NoKey \/ KeyFunc[obj] \notin StoredKeys(items)
    BY <1>3, <2>1 DEF Delete, StoreInv, StoreTypeOK, IndexMatchesItems, IndexKeys, UnusedAreEmpty
  <2>2. CASE ~(KeyFunc[obj] = NoKey \/ KeyFunc[obj] \notin StoredKeys(items))
    <3>1. KeyFunc[obj] \in Keys
      BY <2>2, CacheAssumption
    <3> QED BY <1>3, <2>2, <3>1, WriteKeepsInv DEF Delete, deleteFromIndices
  <2> QED BY <2>1, <2>2
<1>4. ASSUME NEW list \in Lists, Replace(list)
      PROVE  StoreInv'
  BY <1>4, ReplaceKeepsInv, ListsAssumption
<1>5. ASSUME NEW names \in SUBSET IndexNames, AddIndexers(names)
      PROVE  StoreInv'
  BY <1>5, AddIndexersKeepsInv
<1> QED BY <1>1, <1>2, <1>3, <1>4, <1>5 DEF StoreNext, Add, Update

(* The invariant holds of a new store.                                     *)
LEMMA StoreStart == StoreInit => StoreInv
BY DEF StoreInit, NewIndexer, Empty, NoIndices, StoreInv, StoreTypeOK, IndexMatchesItems,
       IndexKeys, UnusedAreEmpty, Found

(* A lookup by index gives exactly the stored objects with that value,     *)
(* whatever was done to the store before.                                  *)
THEOREM IndicesAgree == StoreSpec => []IndexMatchesItems
<1>1. StoreInv => IndexMatchesItems
  BY DEF StoreInv
<1> QED BY <1>1, StoreStart, StoreStep, PTL DEF StoreSpec

(* The store keeps its types.                                              *)
THEOREM StoreTyping == StoreSpec => []StoreTypeOK
<1>1. StoreInv => StoreTypeOK
  BY DEF StoreInv
<1> QED BY <1>1, StoreStart, StoreStep, PTL DEF StoreSpec

(* Index returns the stored objects that share a value with the one given, *)
(* and nothing that is not in the store.                                   *)
THEOREM IndexIsSound == StoreSpec => []IndexedIsStored
<1>1. StoreInv => IndexedIsStored
  <2> SUFFICES ASSUME StoreInv, NEW name \in indexers, NEW obj \in Objects
               PROVE  Index(name, obj) =
                        {o \in List : IndexFunc[name][o] \cap IndexFunc[name][obj] # {}}
    BY DEF IndexedIsStored
  <2>1. IndexFunc[name] \in [Objects -> SUBSET IndexValues]
    BY CacheAssumption DEF StoreInv, StoreTypeOK
  <2>2. \A value \in IndexValues : ByIndex(name, value) =
          {items[key] : key \in {k \in Keys : Found(name, items[k], value)}}
    BY DEF StoreInv, IndexMatchesItems, ByIndex
  <2>3. \A value \in IndexFunc[name][obj] : value \in IndexValues
    BY <2>1
  <2> QED
    BY <2>1, <2>2, <2>3 DEF Index, List, StoredKeys, Found
<1> QED BY <1>1, StoreStart, StoreStep, PTL DEF StoreSpec

-----------------------------------------------------------------------------
(* The session.                                                            *)

(* A call is a record.  What it says is in its other conjuncts.            *)
Shaped == DOMAIN call = {"pc", "request", "retries", "atStart", "whole", "answer", "err"}

(* The reader of a body is at its start before every attempt.              *)
BodyReady ==
  /\ call.pc = "do" => call.atStart
  /\ call.pc = "sent" => call.whole

(* Before a registration is answered there is no client; the answer then   *)
(* has the client's id, if it has anything.                                *)
Granted(body) == body = <<>> \/ (clients = 1 /\ body[1].id = 1)
Registering ==
  pc = "registering" =>
    /\ call.request.op = "register" /\ call.request.verb = "POST"
    /\ call.pc \in {"do", "sent", "answered", "over"}
    /\ call.pc \in {"do", "sent"} => clients = 0
    /\ call.pc = "answered" => Granted(call.answer.body)
    /\ call.pc = "answered" /\ call.answer.retryAfter => clients = 0
    /\ call.pc = "over" /\ ~call.err => Granted(call.answer.body)

(* Nothing else a client asks for registers it.                            *)
AskedOnce ==
  /\ pc = "start" => clients = 0 /\ call.pc = "none"
  /\ pc # "registering" => call.request.op # "register"

SInv ==
  /\ Shaped /\ BodyReady /\ Registering /\ AskedOnce
  /\ clients \in {0, 1}
  /\ id = None \/ (id = 1 /\ clients = 1)

USE DEF SInv

(* No call has been made, and nobody is registered.                        *)
LEMMA SessionStart == Init => SInv
BY DEF Init, RequestInit, ServiceInit, SessionInit, NoCall, NewRequest, Shaped, BodyReady,
       Registering, AskedOnce

(* The same call, and a service that knows as many clients as before.      *)
LEMMA SameCall ==
  ASSUME SInv, UNCHANGED <<call, clients, pc, id>>
  PROVE  SInv'
BY DEF Shaped, BodyReady, Registering, AskedOnce, Granted

(* What becomes of an attempt keeps the request and has the body ready.    *)
LEMMA AfterAttemptKeeps ==
  ASSUME SInv, NEW answer, call' = AfterAttempt(answer)
  PROVE  /\ Shaped' /\ BodyReady' /\ call'.request = call.request
         /\ \/ call'.pc = "do" /\ answer.retryAfter
            \/ call'.pc = "over" /\ call'.answer = answer
BY DEF Shaped, BodyReady, AfterAttempt, Another, Finished, SoughtBack, checkWait

(* A write that fails is over.                                             *)
LEMMA FailsKeeps ==
  ASSUME SInv, NEW failure, Fails(failure)
  PROVE  /\ Shaped' /\ BodyReady' /\ call'.request = call.request
         /\ call.request.op # "watch" /\ call.request.verb # "GET" => call'.pc = "over" /\ call'.err
<1>1. CASE call.request.op = "watch"
  BY <1>1 DEF Fails, WatchFails, Finished, Failed, Shaped, BodyReady
<1>2. CASE call.request.op # "watch" /\ Retried(failure)
  <2>1. call' = AfterAttempt(ArtificialAnswer) /\ call.request.verb = "GET"
    BY <1>2 DEF Fails, doRequestFails, Retried
  <2> QED BY <2>1, AfterAttemptKeeps
<1>3. CASE call.request.op # "watch" /\ ~Retried(failure)
  BY <1>3 DEF Fails, doRequestFails, Failed, Shaped, BodyReady
<1> QED BY <1>1, <1>2, <1>3

(* Attempts, their answers and failures.                                   *)
LEMMA RequestKeeps ==
  ASSUME SInv, Request
  PROVE  SInv'
<1> USE DEF Registering, AskedOnce, Granted
<1>1. UNCHANGED <<clients, pc, id>>
  BY DEF Request, serviceVars, sessionVars
<1>2. CASE Send
  BY <1>1, <1>2 DEF Send, Shaped, BodyReady
<1>3. CASE Receive
  <2>1. CASE call' = AfterAttempt(call.answer)
    BY <1>1, <1>3, <2>1, AfterAttemptKeeps DEF Receive, AfterAttempt, Another, Finished, Shaped
  <2>2. CASE call' = Finished(call.answer)
    BY <1>1, <1>3, <2>2 DEF Receive, Finished, Shaped, BodyReady
  <2>3. CASE call' = Failed
    BY <1>1, <1>3, <2>3 DEF Receive, Failed, Shaped, BodyReady
  <2> QED BY <1>3, <2>1, <2>2, <2>3 DEF Receive
<1>4. ASSUME NEW failure, Fails(failure), InProgress
      PROVE  SInv'
  BY <1>1, <1>4, FailsKeeps DEF InProgress
<1>5. CASE TurnedAway
  <2>1. PICK code \in {429, 503} :
          call' = [call EXCEPT !.pc = "answered", !.answer = Answer(code, TRUE, <<>>)]
    BY <1>5 DEF TurnedAway
  <2> QED BY <1>1, <1>5, <2>1 DEF TurnedAway, Answer, Shaped, BodyReady
<1> QED BY <1>2, <1>3, <1>4, <1>5
        DEF Request, RequestStep, RequestFault, Timeout, ConnectionFails

(* An answer to anything but a registration.                               *)
LEMMA Answered ==
  ASSUME SInv, NEW answer, Reply(answer), call.pc # "none", call.request.op # "register",
         UNCHANGED <<clients, pc, id>>
  PROVE  SInv'
<1>1. call'.request = call.request /\ call'.pc = "answered" /\ Shaped'
  BY DEF Reply, Shaped
<1> QED BY <1>1 DEF BodyReady, Registering, AskedOnce

(* The handlers: only that of a registration has clients to give.          *)
LEMMA HandleKeeps ==
  ASSUME SInv, Handle, UNCHANGED sessionVars
  PROVE  SInv'
<1> USE DEF Registering, AskedOnce, Granted
<1>1. UNCHANGED <<pc, id>>
  BY DEF sessionVars
<1>2. CASE handleClientRegistration
  <2>1. pc = "registering" /\ clients = 0
    BY <1>2 DEF handleClientRegistration, Requested
  <2> DEFINE Refused == (\E code \in {400, 500} : Reply(Answer(code, FALSE, <<>>)))
                        /\ UNCHANGED clients
             Grants == clients' = clients + 1 /\
                 Reply(Answer(200, FALSE, <<[id |-> clients + 1, nodes |-> {}, rvs |-> None]>>))
  <2>2. Refused => SInv'
    <3> SUFFICES ASSUME Refused PROVE SInv'
      OBVIOUS
    <3>1. PICK code \in {400, 500} : Reply(Answer(code, FALSE, <<>>))
      OBVIOUS
    <3>2. UNCHANGED clients
      OBVIOUS
    <3> HIDE DEF Refused
    <3> QED BY <1>1, <2>1, <3>1, <3>2 DEF Reply, Answer, Shaped, BodyReady
  <2>3. Grants => SInv'
    <3> SUFFICES ASSUME Grants PROVE SInv'
      OBVIOUS
    <3> DEFINE answer == Answer(200, FALSE, <<[id |-> clients + 1, nodes |-> {}, rvs |-> None]>>)
    <3>1. clients' = 1 /\ answer.body[1].id = 1 /\ ~answer.retryAfter
      BY <2>1 DEF Answer
    <3>2. Reply(answer)
      OBVIOUS
    <3> HIDE DEF answer
    <3>3. /\ call'.pc = "answered" /\ call'.answer = answer /\ call'.request = call.request
          /\ Shaped'
      BY <3>2 DEF Reply, Shaped
    <3> HIDE DEF Grants
    <3> QED BY <1>1, <2>1, <3>1, <3>3 DEF BodyReady
  <2>4. ASSUME clients' = clients + 1,
               Reply(Answer(200, FALSE, <<[id |-> clients + 1, nodes |-> {}, rvs |-> None]>>))
        PROVE  Grants
    BY <2>4
  <2> HIDE DEF Grants
  <2>5. Refused \/ Grants
    BY <1>2, <2>4 DEF handleClientRegistration
  <2> HIDE DEF Refused
  <2> QED BY <2>2, <2>3, <2>5
<1>3. CASE ResourceHandlerGet
  <2>1. call.request.op = "list" /\ call.pc = "sent" /\ UNCHANGED clients
    BY <1>3 DEF ResourceHandlerGet, Requested
  <2>2. \E answer : Reply(answer)
    BY <1>3 DEF ResourceHandlerGet
  <2> QED BY <1>1, <2>1, <2>2, Answered
<1>4. CASE serverWatch
  <2>1. call.request.op = "watch" /\ call.pc = "sent" /\ UNCHANGED clients
    BY <1>4 DEF serverWatch, Requested
  <2>2. call'.request = call.request /\ call'.pc = "unanswered" /\ Shaped'
    BY <1>4 DEF serverWatch, Unanswered, Shaped
  <2> QED BY <1>1, <2>1, <2>2 DEF BodyReady
<1>5. CASE OpenStream
  <2>1. UNCHANGED clients
    BY <1>5 DEF OpenStream
  <2>2. CASE UNCHANGED call
    BY <1>1, <2>1, <2>2, SameCall
  <2>3. CASE call.pc = "unanswered" /\ Reply(Answer(200, FALSE, <<>>))
    <3>1. call.request.op # "register"
      BY <2>3
    <3> QED BY <1>1, <2>1, <2>3, <3>1, Answered
  <2> QED BY <1>5, <2>2, <2>3 DEF OpenStream
<1> QED BY <1>2, <1>3, <1>4, <1>5 DEF Handle

(* The service, which may be started again in the middle of a request.     *)
LEMMA ServiceKeeps ==
  ASSUME SInv, Service
  PROVE  SInv'
<1>1. UNCHANGED sessionVars /\ UNCHANGED <<pc, id>>
  BY DEF Service, sessionVars
<1>2. CASE Handle
  BY <1>1, <1>2, HandleKeeps
<1>3. CASE NodeChanges \/ Deliver
  BY <1>1, <1>3, SameCall DEF NodeChanges, Deliver
<1>4. CASE Restart
  <2>1. UNCHANGED clients
    BY <1>4 DEF Restart
  <2>2. CASE Fails("reset") /\ call.pc \in {"sent", "unanswered"}
    BY <1>1, <2>1, <2>2, FailsKeeps DEF Registering, AskedOnce, Granted
  <2>3. CASE UNCHANGED call
    BY <1>1, <2>1, <2>3, SameCall
  <2> QED BY <1>4, <2>2, <2>3 DEF Restart
<1>5. ASSUME NEW end \in Ends, StreamEndsWith(end)
      PROVE  SInv'
  BY <1>1, <1>5, SameCall DEF StreamEndsWith
<1> QED BY <1>2, <1>3, <1>4, <1>5 DEF Service

(* A call begins with its body, as the setters made it.                    *)
LEMMA BeginKeeps ==
  ASSUME SInv, NEW request, Begin(request)
  PROVE  /\ Shaped' /\ BodyReady' /\ call'.request = request
         /\ request.op # "watch" => call'.pc = "do"
         /\ call'.pc \in {"do", "over"}
BY DEF Begin, NoCall, Shaped, BodyReady

(* The setters do not change what is asked for.                            *)
LEMMA Setters ==
  ASSUME NEW op \in Operations, NEW name, NEW limit, NEW versions
  PROVE  /\ Param(Name(NewRequest(op), name), limit).op = op
         /\ Body(Name(NewRequest(op), name), versions).op = op
BY DEF Param, Name, Body, NewRequest

(* Another request than a registration begins.                             *)
LEMMA Begun ==
  ASSUME SInv, NEW request, Begin(request), request.op # "register",
         pc' \notin {"start", "registering"}, UNCHANGED <<clients, id>>
  PROVE  SInv'
<1>1. Shaped' /\ BodyReady' /\ call'.request = request
  BY BeginKeeps
<1> QED BY <1>1 DEF Registering, AskedOnce

(* The client, call after call.                                            *)
LEMMA ClientKeeps ==
  ASSUME SInv, Client
  PROVE  SInv'
<1> USE DEF Registering, AskedOnce, Granted
<1>1. CASE Register
  <2>1. Begin(Body(NewRequest("register"), None)) /\ pc' = "registering" /\ pc = "start"
        /\ UNCHANGED <<clients, id>>
    BY <1>1 DEF Register, serviceVars
  <2> DEFINE request == Body(NewRequest("register"), None)
  <2>2. request.op = "register" /\ request.verb = "POST"
    BY DEF Body, NewRequest
  <2> HIDE DEF request
  <2>3. call'.request = request /\ call'.pc = "do" /\ Shaped' /\ BodyReady'
    <3>1. Begin(request)
      BY <2>1 DEF request
    <3> QED BY <2>2, <3>1, BeginKeeps
  <2> QED BY <2>1, <2>2, <2>3
<1>2. CASE registerClient
  <2>1. call' = NoCall /\ pc' \in {"registered", "exited"} /\ UNCHANGED clients
        /\ pc = "registering" /\ call.pc = "over"
    BY <1>2 DEF registerClient, serviceVars
  <2>2. id' = id \/ (~call.err /\ Len(call.answer.body) = 1 /\ id' = call.answer.body[1].id)
    BY <1>2 DEF registerClient, Unmarshalled
  <2>3. id' = id \/ (id' = 1 /\ clients = 1)
    BY <2>1, <2>2
  <2> QED BY <2>1, <2>3 DEF NoCall, NewRequest, Shaped, BodyReady
<1>3. CASE ListNodes
  <2>1. PICK limit \in Limits : Begin(Param(Name(NewRequest("list"), id), limit))
    BY <1>3 DEF ListNodes
  <2>2. pc' = "listing" /\ UNCHANGED <<clients, id>>
    BY <1>3 DEF ListNodes, serviceVars
  <2>3. Param(Name(NewRequest("list"), id), limit).op = "list"
    BY Setters DEF Operations
  <2> QED BY <2>1, <2>2, <2>3, Begun
<1>4. CASE listNodes \/ watchNodes
  <2>1. call' = NoCall /\ pc' \in {"exited", "adding", "crashed", "consuming"}
        /\ UNCHANGED <<clients, id>>
    BY <1>4 DEF listNodes, watchNodes, serviceVars
  <2> QED BY <2>1 DEF NoCall, NewRequest, Shaped, BodyReady
<1>5. CASE WatchNodes
  <2>1. Begin(Body(Name(NewRequest("watch"), id), rvs)) /\ pc' = "watching"
        /\ UNCHANGED <<clients, id>>
    BY <1>5 DEF WatchNodes, serviceVars
  <2>2. Body(Name(NewRequest("watch"), id), rvs).op = "watch"
    BY Setters DEF Operations
  <2> QED BY <2>1, <2>2, Begun
<1>6. CASE AddListed \/ Decode \/ DecodeFails \/ Consume
  BY <1>6, SameCall DEF AddListed, Decode, DecodeFails, Consume, serviceVars
<1>7. CASE EndOfResults
  BY <1>7 DEF EndOfResults, serviceVars, Shaped, BodyReady
<1> QED BY <1>1, <1>2, <1>3, <1>4, <1>5, <1>6, <1>7 DEF Client

(* Every step of a session preserves the invariant.                        *)
LEMMA SessionStep == SInv /\ [Next]_vars => SInv'
<1> SUFFICES ASSUME SInv, [Next]_vars PROVE SInv'
  OBVIOUS
<1>1. CASE Request
  BY <1>1, RequestKeeps
<1>2. CASE Service
  BY <1>2, ServiceKeeps
<1>3. CASE Client
  BY <1>3, ClientKeeps
<1>4. CASE SkipRegistration \/ Stop
  <2>1. /\ UNCHANGED <<call, clients, id>> /\ pc \in {"start", "consuming"}
        /\ pc' \in {"registered", "consuming", "done"}
    BY <1>4 DEF SkipRegistration, Stop, serviceVars
  <2> QED BY <1>4, <2>1 DEF SkipRegistration, Stop, Shaped, BodyReady, Registering, AskedOnce
<1>5. CASE UNCHANGED vars
  BY <1>5, SameCall DEF vars, serviceVars, sessionVars
<1> QED BY <1>1, <1>2, <1>3, <1>4, <1>5 DEF Next

(* One call of Register registers one client at most, and the client's id  *)
(* is the one the service knows: writes are not made again by themselves.  *)
THEOREM OneRegistration == Spec => []RegisteredOnce
<1>1. SInv => RegisteredOnce
  BY DEF RegisteredOnce
<1> QED BY SessionStart, SessionStep, <1>1, PTL DEF Spec

(* Every attempt of a request carries the whole body.                      *)
THEOREM WholeBodies == Spec => []BodyArrivesWhole
<1>1. SInv => BodyArrivesWhole
  BY DEF BodyArrivesWhole, BodyReady
<1> QED BY SessionStart, SessionStep, <1>1, PTL DEF Spec

-----------------------------------------------------------------------------
(* The list and the mirror.                                                *)

(* What is asked of the service at every point of a session, and that      *)
(* nothing is asked in between.                                            *)
Calling ==
  /\ pc \notin {"registering", "listing", "watching"} => call = NoCall
  /\ pc = "registering" => call.request.op = "register"
  /\ pc = "listing" => call.request.op = "list"
  /\ pc = "watching" => /\ call.request.op = "watch"
                        /\ call.pc # "over" => call.request.rvs = rvs

(* There is neither a watcher nor a stream before there is a watch.        *)
Unopened ==
  /\ pc \in {"start", "registering", "registered", "listing", "adding", "exited"} =>
       sw = NoWatcher /\ streamEnd = "none"
  /\ pc = "watching" => sw = NoWatcher /\ (call.pc \in {"do", "sent"} => streamEnd = "none")
  /\ streamEnd = "none" => stream = <<>>
  /\ streamEnd # "open" => deliveries = {}

(* What is on its way to the client has happened, and is not delivered a   *)
(* second time.                                                            *)
InLog == (1..Len(log)) \ deliveries
Delivered ==
  /\ deliveries \subseteq 1..Len(log)
  /\ missed \subseteq 1..Len(log)
  /\ \A i \in DOMAIN stream : stream[i] \in InLog
  /\ sw.event # ErrorEvent => sw.event \in InLog

(* The type of a call is used everywhere.                                  *)
CallTyped == RequestTypeOK(Document)

(* No document, and one, are sequences of documents.                       *)
LEMMA Empties == <<>> \in Seq(Document) /\ \A doc \in Document : <<doc>> \in Seq(Document)
OBVIOUS

(* What becomes of an attempt.                                             *)
LEMMA AfterAttemptTyped ==
  ASSUME CallTyped, NEW answer \in Answers(Document), call' = AfterAttempt(answer)
  PROVE  CallTyped'
<1>1. CASE call' = Another /\ call.retries + 1 < MaxRetries
  <2>1. call.retries + 1 \in 0..(MaxRetries - 1)
    BY <1>1, RequestAssumption DEF CallTyped, RequestTypeOK
  <2> QED BY <1>1, <2>1 DEF CallTyped, RequestTypeOK, Another, SoughtBack
<1>2. CASE call' = Finished(answer)
  BY <1>2 DEF CallTyped, RequestTypeOK, Finished
<1> QED BY <1>1, <1>2 DEF AfterAttempt

(* An attempt that fails leaves a typed call behind.                       *)
LEMMA FailsTyped ==
  ASSUME CallTyped, NEW failure, Fails(failure)
  PROVE  CallTyped'
<1>1. ArtificialAnswer \in Answers(Document) /\ EmptyWatch \in Answers(Document)
  BY Empties DEF ArtificialAnswer, EmptyWatch, Answer, Answers
<1>2. CASE call' = AfterAttempt(ArtificialAnswer)
  BY <1>1, <1>2, AfterAttemptTyped
<1>3. CASE call' = Finished(EmptyWatch)
  BY <1>1, <1>3 DEF CallTyped, RequestTypeOK, Finished
<1>4. CASE call' = Failed
  BY <1>4 DEF CallTyped, RequestTypeOK, Failed
<1> QED BY <1>2, <1>3, <1>4 DEF Fails, WatchFails, doRequestFails

(* A request, as the setters put it together.                              *)
LEMMA RequestTyped ==
  ASSUME NEW op \in Operations, NEW name \in Ids \cup {None}, NEW limit \in Limits
  PROVE  /\ NewRequest(op) \in Requests
         /\ Param(Name(NewRequest(op), name), limit) \in Requests
<1>1. NewRequest(op) \in Requests
  BY DEF NewRequest, Requests
<1>2. Name(NewRequest(op), name) \in Requests
  BY <1>1 DEF Name, Requests
<1> QED BY <1>1, <1>2 DEF Param, Requests

(* A watch is a request.                                                   *)
LEMMA WatchTyped ==
  ASSUME NEW name \in Ids \cup {None}, NEW versions \in 0..MaxRV \cup {None}
  PROVE  Body(Name(NewRequest("watch"), name), versions) \in Requests
<1>1. Name(NewRequest("watch"), name) \in Requests
  BY DEF NewRequest, Requests, Operations, Name
<1> QED BY <1>1 DEF Body, Requests

(* A client that waits for nothing.                                        *)
LEMMA NoCallTyped == ASSUME call' = NoCall PROVE CallTyped'
<1>1. NewRequest("list") \in Requests
  BY DEF NewRequest, Requests, Operations
<1>2. NoAnswer \in Answers(Document)
  BY Empties DEF NoAnswer, Answer, Answers
<1> QED BY <1>1, <1>2, RequestAssumption DEF CallTyped, RequestTypeOK, NoCall

(* A request is begun.                                                     *)
LEMMA BeginTyped ==
  ASSUME NEW request \in Requests, Begin(request)
  PROVE  CallTyped'
<1>2. NoAnswer \in Answers(Document)
  BY Empties DEF NoAnswer, Answer, Answers
<1>3. 0 \in 0..(MaxRetries - 1)
  BY RequestAssumption
<1>4. (request.op = "watch" /\ request.err) \in BOOLEAN
  OBVIOUS
<1> DEFINE refused == request.op = "watch" /\ request.err
<1>5. call' = [pc |-> IF refused THEN "over" ELSE "do", request |-> request, retries |-> 0,
               atStart |-> TRUE, whole |-> TRUE, answer |-> NoAnswer, err |-> refused]
  BY DEF Begin, NoCall
<1> HIDE DEF refused
<1> QED BY <1>2, <1>3, <1>4, <1>5 DEF CallTyped, RequestTypeOK, refused

(* The service answers.                                                    *)
LEMMA ReplyTyped ==
  ASSUME CallTyped, NEW answer \in Answers(Document), Reply(answer)
  PROVE  CallTyped'
BY DEF CallTyped, RequestTypeOK, Reply

-----------------------------------------------------------------------------
(* The versions of the log.                                                *)

(* A non-empty set of bounded numbers has a largest element.               *)
LEMMA HasLargest ==
  ASSUME NEW b \in Nat, NEW S \in SUBSET (0..b), S # {}
  PROVE  \E m \in S : \A y \in S : y <= m
<1> DEFINE R == {p \in Nat \X Nat : p[1] < p[2]}
           T == {b - x : x \in S}
<1>1. IsWellFoundedOn(R, Nat)
  BY NatLessThanWellFounded DEF OpToRel
<1>2. PICK s \in S : TRUE
  OBVIOUS
<1>3. T \subseteq Nat /\ b - s \in T
  OBVIOUS
<1> HIDE DEF T, R
<1>4. \E x \in T : \A y \in T : <<y, x>> \notin R
  BY <1>1, <1>3, WFMin
<1>5. PICK x \in T : \A y \in T : ~(y < x)
  BY <1>3, <1>4 DEF R
<1>6. PICK z \in S : x = b - z
  BY DEF T
<1>7. \A y \in S : b - y \in T
  BY DEF T
<1> QED BY <1>5, <1>6, <1>7

(* A node's version is the largest of its versions.                        *)
LEMMA VersionIsLargest ==
  ASSUME NEW n, NEW rv \in Nat
  PROVE  /\ Version(n, rv) \in 0..rv
         /\ Version(n, rv) > 0 => Version(n, rv) \in VersionsOf(n, rv)
         /\ \A i \in VersionsOf(n, rv) : i <= Version(n, rv)
<1> DEFINE S == VersionsOf(n, rv)
<1>1. S \subseteq 0..rv /\ S \subseteq 1..rv
  BY DEF VersionsOf
<1> HIDE DEF S
<1>2. CASE S = {}
  BY <1>2 DEF Version, S
<1>3. CASE S # {}
  <2>1. \E m \in S : \A y \in S : y <= m
    BY <1>1, <1>3, HasLargest
  <2>2. Version(n, rv) = CHOOSE m \in S : \A y \in S : y <= m
    BY <1>3 DEF Version, S
  <2>3. Version(n, rv) \in S /\ \A y \in S : y <= Version(n, rv)
    BY <2>1, <2>2
  <2> QED BY <1>1, <2>3 DEF S
<1> QED BY <1>2, <1>3

(* What was has its versions for ever: the log is only appended to.        *)
LogGrows == log' = log \/ \E n \in Nodes : log' = Append(log, n)

(* A log that grows leaves the versions nodes have had as they were.       *)
LEMMA OldVersions ==
  ASSUME log \in Seq(Nodes), LogGrows, NEW n, NEW rv \in 0..Len(log)
  PROVE  /\ Version(n, rv)' = Version(n, rv)
         /\ rv \in 0..Len(log')
         /\ Len(log) <= Len(log')
         /\ \A i \in 1..Len(log) : log'[i] = log[i]
<1>1. /\ \A i \in 1..Len(log) : log'[i] = log[i]
      /\ Len(log) <= Len(log') /\ Len(log') \in Nat
  BY DEF LogGrows
<1>2. VersionsOf(n, rv)' = VersionsOf(n, rv)
  BY <1>1 DEF VersionsOf
<1> QED BY <1>1, <1>2 DEF Version

(* The nodes of the log, each with its latest version, but for those that  *)
(* the service could not marshal.                                          *)
Snapshot(rv) ==
  {Listed(n, Version(n, rv)) : n \in {m \in Nodes : Version(m, rv) \notin missed \cup {0}}}

(* Which versions were missed does not change but for new ones.            *)
MissedStays == \A v \in 1..Len(log) : v \in missed' <=> v \in missed

(* And so what a list at these versions shows.                             *)
LEMMA OldSnapshots ==
  ASSUME log \in Seq(Nodes), LogGrows, MissedStays, NEW rv \in 0..Len(log)
  PROVE  Snapshot(rv)' = Snapshot(rv)
<1>1. \A n : Version(n, rv)' = Version(n, rv) /\ Version(n, rv) \in 0..Len(log)
  BY OldVersions, VersionIsLargest
<1>2. \A n : Version(n, rv) \in missed' \cup {0} <=> Version(n, rv) \in missed \cup {0}
  BY <1>1 DEF MissedStays
<1> QED BY <1>1, <1>2 DEF Snapshot, Listed

-----------------------------------------------------------------------------
(* The list's chunks.                                                      *)

(* The nodes that have a version by rv.                                    *)
Known(rv) == {n \in Nodes : Version(n, rv) > 0}

(* A chunk of the list is a document.                                      *)
LEMMA ChunkTyped ==
  ASSUME log \in Seq(Nodes), Len(log) <= MaxRV, NEW order \in Orders(Known(Len(log))),
         NEW size \in Nat \ {0}, NEW k
  PROVE  Chunk(order, size, k, Len(log)) \in Document
<1> DEFINE S == Known(Len(log))
<1>1. Len(log) \in Nat /\ Len(log) \in 0..MaxRV
  BY RequestAssumption
<1>2. order \in [1..Cardinality(S) -> S]
  BY DEF Orders
<1>3. \A n \in S : n \in Nodes /\ Version(n, Len(log)) \in RVs
  BY <1>1, VersionIsLargest, RequestAssumption DEF Known, RVs
<1> HIDE DEF S
<1>4. \A i \in DOMAIN order :
        Listed(order[i], Version(order[i], Len(log))) \in [node : Nodes, rv : RVs]
  BY <1>2, <1>3 DEF Listed
<1> QED BY <1>1, <1>4 DEF Chunk, Document

(* Every node of a list is in one of its chunks.                           *)
LEMMA ChunkOf ==
  ASSUME NEW len \in Nat, NEW size \in Nat \ {0}, NEW i \in 1..len
  PROVE  /\ (len + size - 1) \div size \in Nat
         /\ \E k \in 1..((len + size - 1) \div size) : (k - 1) * size < i /\ i <= k * size
<1> DEFINE c == (len + size - 1) \div size
           r == (len + size - 1) % size
           q == (i - 1) \div size
           m == (i - 1) % size
<1>1. len + size - 1 = size * c + r /\ r \in 0..(size - 1) /\ c \in Int
  OBVIOUS
<1>2. i - 1 = size * q + m /\ m \in 0..(size - 1) /\ q \in Int
  OBVIOUS
<1> HIDE DEF c, r, q, m
<1>3. q >= 0
  <2>1. CASE q <= -1
    <3>1. size * q <= size * (-1)
      BY <1>2, <2>1
    <3> QED BY <1>2, <3>1
  <2> QED BY <1>2, <2>1
<1>4. size * q < size * c
  BY <1>1, <1>2
<1>5. c >= q + 1
  <2>1. CASE c <= q
    <3>1. size * c <= size * q
      BY <1>1, <1>2, <2>1
    <3>2. size * c \in Int /\ size * q \in Int
      BY <1>1, <1>2
    <3> QED BY <1>4, <3>1, <3>2
  <2> QED BY <1>1, <1>2, <2>1
<1>a. q + 1 \in Int
  BY <1>2
<1>6. PICK k \in Int : k = q + 1
  BY <1>a
<1>b. k * size = size * q + size /\ (k - 1) * size = size * q
  BY <1>2, <1>6
<1>7. k \in 1..c /\ (k - 1) * size < i /\ i <= k * size
  BY <1>1, <1>2, <1>3, <1>5, <1>6, <1>b
<1>8. \E j \in 1..c : (j - 1) * size < i /\ i <= j * size
  BY <1>7
<1>9. c \in Nat
  BY <1>1, <1>2, <1>3, <1>5
<1> QED BY <1>8, <1>9 DEF c

(* The chunks are documents of the list; together they are all of it.      *)
LEMMA ChunksTyped ==
  ASSUME log \in Seq(Nodes), Len(log) <= MaxRV, NEW order \in Orders(Known(Len(log))),
         NEW size \in Nat \ {0}
  PROVE  LET chunks == Chunks(order, size, Len(log)) IN
         /\ chunks \in Seq(Document)
         /\ \A k \in DOMAIN chunks :
              /\ chunks[k].rvs = Len(log)
              /\ \A obj \in chunks[k].nodes :
                   \E n \in Known(Len(log)) : obj = Listed(n, Version(n, Len(log)))
         /\ \A n \in Known(Len(log)) : \E k \in DOMAIN chunks :
              Listed(n, Version(n, Len(log))) \in chunks[k].nodes
<1> DEFINE S == Known(Len(log))
           chunks == Chunks(order, size, Len(log))
           count == IF Len(order) <= size THEN 1 ELSE (Len(order) + size - 1) \div size
           chunk(k) == Chunk(order, size, k, Len(log))
<1>1. S \subseteq Nodes
  BY DEF Known
<1>2. Cardinality(S) \in Nat
  BY <1>1, FS_Subset, FS_CardinalityType, ServiceAssumption
<1>3. order \in [1..Cardinality(S) -> S] /\ \A n \in S : \E i \in DOMAIN order : order[i] = n
  BY DEF Orders
<1>4. Len(order) \in Nat /\ DOMAIN order = 1..Len(order)
  BY <1>2, <1>3
<1> HIDE DEF S
<1>5. \A k \in Nat : chunk(k) \in Document
  BY ChunkTyped
<1>6. \A k : /\ chunk(k).rvs = Len(log)
             /\ \A i \in DOMAIN order : (k - 1) * size < i /\ i <= k * size =>
                  Listed(order[i], Version(order[i], Len(log))) \in chunk(k).nodes
             /\ \A obj \in chunk(k).nodes : \E i \in DOMAIN order :
                  obj = Listed(order[i], Version(order[i], Len(log)))
  BY DEF Chunk
<1> HIDE DEF chunk
<1>7. /\ count \in Nat
      /\ \A i \in DOMAIN order : \E k \in 1..count : (k - 1) * size < i /\ i <= k * size
  <2>1. CASE Len(order) <= size
    <3>1. \A i \in DOMAIN order : (1 - 1) * size < i /\ i <= 1 * size
      BY <1>4, <2>1
    <3> QED BY <2>1, <3>1
  <2>2. CASE ~(Len(order) <= size)
    <3> DEFINE len == Len(order)
               c == (len + size - 1) \div size
    <3>1. len \in Nat /\ 1 \in 1..len
      BY <1>4, <2>2
    <3> HIDE DEF len
    <3>2. c \in Nat
      BY <3>1, ChunkOf
    <3>3. \A i \in 1..len : \E k \in 1..c : (k - 1) * size < i /\ i <= k * size
      BY <3>1, ChunkOf
    <3> HIDE DEF c
    <3> QED BY <1>4, <2>2, <3>2, <3>3 DEF len, c
  <2> QED BY <2>1, <2>2
<1>8. chunks = [k \in 1..count |-> chunk(k)]
  <2>1. CASE Len(order) <= size
    <3>1. chunks = <<chunk(1)>> /\ count = 1
      BY <2>1 DEF Chunks, chunk
    <3> HIDE DEF chunks, count
    <3> QED BY <3>1
  <2>2. CASE ~(Len(order) <= size)
    BY <2>2 DEF Chunks, chunk
  <2> QED BY <2>1, <2>2
<1> HIDE DEF count, chunks
<1>9. chunks \in Seq(Document) /\ DOMAIN chunks = 1..count
  BY <1>5, <1>7, <1>8
<1>10. \A k \in DOMAIN chunks :
         /\ chunks[k].rvs = Len(log)
         /\ \A obj \in chunks[k].nodes : \E n \in S : obj = Listed(n, Version(n, Len(log)))
  BY <1>3, <1>6, <1>8, <1>9
<1>11. \A n \in S : \E k \in DOMAIN chunks : Listed(n, Version(n, Len(log))) \in chunks[k].nodes
  <2> SUFFICES ASSUME NEW n \in S
               PROVE  \E k \in DOMAIN chunks :
                        Listed(n, Version(n, Len(log))) \in chunks[k].nodes
    OBVIOUS
  <2>1. PICK i \in DOMAIN order : order[i] = n
    BY <1>3
  <2>2. PICK k \in 1..count : (k - 1) * size < i /\ i <= k * size
    BY <1>7
  <2> QED BY <1>6, <1>8, <1>9, <2>1, <2>2
<1> QED BY <1>9, <1>10, <1>11 DEF chunks, S

(* A version is that of one node.                                          *)
LEMMA VersionIsOfOne ==
  ASSUME log \in Seq(Nodes), NEW n \in Known(Len(log)), NEW m \in Known(Len(log)),
         Version(n, Len(log)) = Version(m, Len(log))
  PROVE  n = m
BY VersionIsLargest DEF Known, VersionsOf

-----------------------------------------------------------------------------
(* Types.                                                                  *)

USE DEF CallTyped

(* The answer to a list: at most a document, which is the whole list but   *)
(* for what could not be marshalled.                                       *)
WholeList(body) ==
  Len(body) = 1 => /\ body[1].rvs \in 0..Len(log)
                   /\ body[1].nodes = Snapshot(body[1].rvs)

(* The first chunks of a list: if they are one, it is all that was not     *)
(* missed of the list.                                                     *)
LEMMA ChunksAnswered ==
  ASSUME log \in Seq(Nodes), Len(log) <= MaxRV, NEW order \in Orders(Known(Len(log))),
         NEW size \in Nat \ {0},
         NEW marshalled \in 0..Len(Chunks(order, size, Len(log))),
         NEW body, body = SubSeq(Chunks(order, size, Len(log)), 1, marshalled),
         log' = log,
         missed' = VersionsIn(Chunks(order, size, Len(log))) \ VersionsIn(body)
  PROVE  body \in Seq(Document) /\ WholeList(body)' /\ missed' \subseteq 1..Len(log)
<1> DEFINE chunks == Chunks(order, size, Len(log))
           S == Known(Len(log))
           it(n) == Listed(n, Version(n, Len(log)))
<1>a. PICK rv : rv = Len(log)
  OBVIOUS
<1>1. /\ chunks \in Seq(Document)
      /\ \A k \in DOMAIN chunks : /\ chunks[k].rvs = Len(log)
                                  /\ \A obj \in chunks[k].nodes : \E n \in S : obj = it(n)
      /\ \A n \in S : \E k \in DOMAIN chunks : it(n) \in chunks[k].nodes
  BY ChunksTyped, Zenon
<1> HIDE DEF chunks
<1>2. /\ body \in Seq(Document) /\ Len(body) = marshalled
      /\ marshalled \in 0..Len(chunks) /\ DOMAIN chunks = 1..Len(chunks)
      /\ DOMAIN body = 1..marshalled
      /\ \A k \in DOMAIN body : k \in DOMAIN chunks /\ body[k] = chunks[k]
  BY <1>1 DEF chunks
<1>3. \A n \in S : it(n).rv = Version(n, Len(log)) /\ Version(n, Len(log)) \in 1..Len(log)
  BY VersionIsLargest DEF Known, Listed
<1>4. \A v \in VersionsIn(chunks) : \E n \in S : v = Version(n, Len(log))
  BY <1>1, <1>3 DEF VersionsIn
<1>5. missed' = VersionsIn(chunks) \ VersionsIn(body)
  BY DEF chunks
<1>6. missed' \subseteq 1..Len(log)
  BY <1>3, <1>4, <1>5
<1>7. ASSUME Len(body) = 1
      PROVE  body[1].rvs = rv /\ body[1].nodes = Snapshot(rv)'
  <2>0. marshalled = 1
    BY <1>2, <1>7
  <2>1. 1 \in DOMAIN body /\ body[1] = chunks[1] /\ 1 \in DOMAIN chunks
    <3>1. 1 \in DOMAIN body
      BY ONLY <1>2, <2>0
    <3> QED BY ONLY <1>2, <3>1
  <2>2. \A v : v \in VersionsIn(body) <=> \E obj \in body[1].nodes : v = obj.rv
    <3>1. DOMAIN body = {1}
      BY <1>2, <1>7
    <3> QED BY ONLY <3>1 DEF VersionsIn
  <2>3. \A n \in S : it(n) \in body[1].nodes <=> Version(n, Len(log)) \notin missed'
    <3> SUFFICES ASSUME NEW n \in S
                 PROVE  it(n) \in body[1].nodes <=> Version(n, Len(log)) \notin missed'
      OBVIOUS
    <3>1. Version(n, Len(log)) \in VersionsIn(chunks)
      BY <1>1, <1>3 DEF VersionsIn
    <3>2. it(n) \in body[1].nodes => Version(n, Len(log)) \in VersionsIn(body)
      BY <1>3, <2>2
    <3>3. ASSUME Version(n, Len(log)) \in VersionsIn(body) PROVE it(n) \in body[1].nodes
      <4>1. PICK obj \in body[1].nodes : obj.rv = Version(n, Len(log))
        BY <2>2, <3>3
      <4>2. PICK m \in S : obj = it(m)
        BY <1>1, <2>1
      <4>3. Version(m, Len(log)) = Version(n, Len(log))
        BY <1>3, <4>1, <4>2
      <4>4. m = n
        BY <4>3, VersionIsOfOne
      <4> QED BY <4>1, <4>2, <4>4
    <3> QED BY <1>5, <3>1, <3>2, <3>3
  <2>4. \A obj \in body[1].nodes : \E n \in S : obj = it(n)
    BY <1>1, <2>1
  <2>5. Snapshot(rv)' =
          {it(n) : n \in {m \in Nodes : Version(m, Len(log)) \notin missed' \cup {0}}}
    BY <1>a DEF Snapshot, Version, VersionsOf, Listed
  <2>6. \A n \in Nodes : n \in S <=> Version(n, Len(log)) # 0
    BY VersionIsLargest DEF Known
  <2>7. S \subseteq Nodes
    BY DEF Known
  <2> HIDE DEF it, S
  <2>8. \A obj \in body[1].nodes :
          \E n \in {m \in Nodes : Version(m, Len(log)) \notin missed' \cup {0}} : obj = it(n)
    BY <2>3, <2>4, <2>6, <2>7
  <2>9. \A n \in {m \in Nodes : Version(m, Len(log)) \notin missed' \cup {0}} :
          it(n) \in body[1].nodes
    BY <2>3, <2>6
  <2> QED BY <1>1, <1>a, <2>1, <2>5, <2>8, <2>9
<1>8. WholeList(body)'
  <2>1. rv \in 0..Len(log')
    BY <1>a
  <2> QED BY <1>7, <2>1 DEF WholeList
<1> QED BY <1>2, <1>6, <1>8

(* Nothing is no part of a list.                                           *)
LEMMA NoDocument == ASSUME NEW body, Len(body) = 0 PROVE WholeList(body) /\ WholeList(body)'
BY DEF WholeList

(* The handler of a list answers with all of it, or says what it missed.   *)
LEMMA ListAnswered ==
  ASSUME TypeOK, missed \subseteq 1..Len(log), ResourceHandlerGet
  PROVE  /\ \E answer \in Answers(Document) : Reply(answer) /\ WholeList(answer.body)'
         /\ missed' \subseteq 1..Len(log) /\ log' = log
<1>1. log' = log /\ log \in Seq(Nodes) /\ Len(log) <= MaxRV
  BY DEF ResourceHandlerGet, TypeOK, ServiceTypeOK
<1>2. ASSUME NEW code \in Nat, Reply(Answer(code, FALSE, <<>>))
      PROVE  \E answer \in Answers(Document) : Reply(answer) /\ WholeList(answer.body)'
  <2>1. Answer(code, FALSE, <<>>) \in Answers(Document)
        /\ Len(Answer(code, FALSE, <<>>).body) = 0
    BY Empties DEF Answer, Answers
  <2>2. PICK answer : answer = Answer(code, FALSE, <<>>)
    OBVIOUS
  <2>3. WholeList(answer.body)'
    BY <2>1, <2>2, NoDocument
  <2> QED BY <1>2, <2>1, <2>2, <2>3
<1>3. CASE /\ \/ Reply(Answer(404, FALSE, <<>>))
              \/ Reply(Answer(200, FALSE, <<>>))
           /\ UNCHANGED missed
  BY <1>1, <1>2, <1>3, 404 \in Nat, 200 \in Nat
<1>4. ASSUME NEW order \in Orders(Known(Len(log))),
             NEW marshalled \in 0..Len(Chunks(order, ChunkSize(call.request.limit), Len(log))),
             NEW body,
             body = SubSeq(Chunks(order, ChunkSize(call.request.limit), Len(log)), 1, marshalled),
             Reply(Answer(200, FALSE, body)),
             missed' = VersionsIn(Chunks(order, ChunkSize(call.request.limit), Len(log)))
                         \ VersionsIn(body)
      PROVE  /\ \E answer \in Answers(Document) : Reply(answer) /\ WholeList(answer.body)'
             /\ missed' \subseteq 1..Len(log)
  <2>0. call.request \in Requests
    BY DEF TypeOK, RequestTypeOK
  <2>1. call.request.limit \in Nat
    <3>1. call.request.limit \in Limits \cup {0}
      BY <2>0 DEF Requests
    <3>2. \A limit \in Limits \cup {0} : limit \in Nat
      BY RequestAssumption
    <3> QED BY <3>1, <3>2
  <2>2. PICK size \in Nat \ {0} : size = ChunkSize(call.request.limit)
    BY <2>1, ServiceAssumption DEF ChunkSize
  <2>3. body \in Seq(Document) /\ WholeList(body)' /\ missed' \subseteq 1..Len(log)
    BY <1>1, <1>4, <2>2, ChunksAnswered
  <2>4. PICK answer : answer = Answer(200, FALSE, body)
    OBVIOUS
  <2>5. answer \in Answers(Document) /\ answer.body = body /\ Reply(answer)
    BY <1>4, <2>3, <2>4 DEF Answer, Answers
  <2>6. WholeList(answer.body)'
    BY <2>3, <2>5
  <2> QED BY <2>3, <2>5, <2>6
<1>5. \/ /\ \/ Reply(Answer(404, FALSE, <<>>))
            \/ Reply(Answer(200, FALSE, <<>>))
         /\ UNCHANGED missed
      \/ \E order \in Orders(Known(Len(log))) :
           \E marshalled \in 0..Len(Chunks(order, ChunkSize(call.request.limit), Len(log))) :
             \E body :
               /\ body = SubSeq(Chunks(order, ChunkSize(call.request.limit), Len(log)),
                                1, marshalled)
               /\ Reply(Answer(200, FALSE, body))
               /\ missed' = VersionsIn(Chunks(order, ChunkSize(call.request.limit), Len(log)))
                              \ VersionsIn(body)
  BY DEF ResourceHandlerGet, Known
<1> QED BY <1>1, <1>3, <1>4, <1>5

(* However an attempt ends, the request is the same, and a watch is not    *)
(* attempted again.                                                        *)
Attempted ==
  /\ CallTyped'
  /\ call'.request = call.request
  /\ call'.pc # "none"
  /\ call.request.op = "watch" /\ call'.pc \in {"do", "sent"} => call.pc \in {"do", "sent"}

(* What was answered is an answer.                                         *)
LEMMA AnswerTyped == CallTyped => call.answer \in Answers(Document)
BY DEF RequestTypeOK

(* A request goes on after an attempt, or is over with its answer.         *)
LEMMA AfterAttemptIs ==
  ASSUME CallTyped, NEW answer, call' = AfterAttempt(answer)
  PROVE  /\ call'.request = call.request
         /\ call'.pc \in {"do", "over"}
         /\ call'.pc = "over" => call'.answer = answer /\ call'.err = call.err
<1>1. CASE call' = Another
  BY <1>1 DEF RequestTypeOK, Another, SoughtBack
<1>2. CASE call' = Finished(answer)
  BY <1>2 DEF RequestTypeOK, Finished
<1> QED BY <1>1, <1>2 DEF AfterAttempt

(* A failed attempt that ends the request leaves an error or no body.      *)
LEMMA FailsAttempted ==
  ASSUME CallTyped, NEW failure, Fails(failure)
  PROVE  /\ Attempted
         /\ call'.pc \in {"do", "over"}
         /\ call'.pc = "over" => call'.err \/ Len(call'.answer.body) = 0
<1>1. CallTyped'
  BY FailsTyped
<1>2. CASE call.request.op = "watch"
  BY <1>1, <1>2
     DEF Fails, WatchFails, Finished, Failed, EmptyWatch, Answer, RequestTypeOK, Attempted
<1>3. CASE call.request.op # "watch" /\ call' = AfterAttempt(ArtificialAnswer)
  BY <1>1, <1>3, AfterAttemptIs DEF ArtificialAnswer, Answer, Attempted
<1>4. CASE call.request.op # "watch" /\ call' = Failed
  BY <1>1, <1>4 DEF Failed, RequestTypeOK, Attempted
<1> QED BY <1>2, <1>3, <1>4 DEF Fails, doRequestFails

(* An answer is the service's, or has no body.                             *)
NothingNew ==
  call'.pc \in {"answered", "over"} =>
    \/ call'.pc = "over" /\ call'.err
    \/ Len(call'.answer.body) = 0
    \/ call.pc = "answered" /\ call'.answer = call.answer

(* A step of a request is an attempt, and no answer but the service's has a*)
(* body.                                                                   *)
LEMMA RequestAttempted ==
  ASSUME CallTyped, RequestStep \/ RequestFault
  PROVE  Attempted /\ NothingNew /\ call.pc \notin {"none", "over"}
<1>1. CASE Send
  BY <1>1 DEF Send, RequestTypeOK, Attempted, NothingNew
<1>2. CASE Receive
  <2>1. CASE call' = AfterAttempt(call.answer) /\ call.request.op # "watch"
    BY <1>2, <2>1, AnswerTyped, AfterAttemptTyped, AfterAttemptIs
       DEF Receive, Attempted, NothingNew
  <2>2. CASE call' = Finished(call.answer)
    BY <1>2, <2>2 DEF Receive, Finished, RequestTypeOK, Attempted, NothingNew
  <2>3. CASE call' = Failed
    BY <1>2, <2>3 DEF Receive, Failed, RequestTypeOK, Attempted, NothingNew
  <2> QED BY <1>2, <2>1, <2>2, <2>3 DEF Receive
<1>3. CASE TurnedAway
  <2>1. PICK code \in {429, 503} :
          call' = [call EXCEPT !.pc = "answered", !.answer = Answer(code, TRUE, <<>>)]
    BY <1>3 DEF TurnedAway
  <2> DEFINE answer == Answer(code, TRUE, <<>>)
  <2>2. answer \in Answers(Document) /\ Len(answer.body) = 0
    BY Empties DEF Answer, Answers
  <2>3. call' = [call EXCEPT !.pc = "answered", !.answer = answer] /\ call.pc = "sent"
    BY <1>3, <2>1 DEF TurnedAway
  <2> HIDE DEF answer
  <2>4. CallTyped'
    BY <2>2, <2>3, ReplyTyped DEF Reply
  <2>5. call'.answer = answer /\ call'.pc = "answered" /\ call'.request = call.request
    BY <2>3 DEF RequestTypeOK
  <2> HIDE DEF CallTyped
  <2> QED BY <2>2, <2>3, <2>4, <2>5 DEF Attempted, NothingNew
<1>4. CASE Timeout \/ ConnectionFails
  <2>1. InProgress /\ \E failure : Fails(failure)
    BY <1>4 DEF Timeout, ConnectionFails
  <2>2. call.pc \notin {"none", "over"}
    BY <2>1 DEF InProgress
  <2>3. PICK failure : Fails(failure)
    BY <2>1
  <2>4. /\ Attempted
        /\ call'.pc \in {"do", "over"}
        /\ call'.pc = "over" => call'.err \/ Len(call'.answer.body) = 0
    BY <2>3, FailsAttempted
  <2> QED BY <2>2, <2>4 DEF NothingNew
<1> QED BY <1>1, <1>2, <1>3, <1>4 DEF RequestStep, RequestFault

(* What a watch is sent first.                                             *)
LEMMA ReplayIs ==
  ASSUME log \in Seq(Nodes), NEW rv \in Nat
  PROVE  LET len == IF rv <= Len(log) THEN Len(log) - rv ELSE 0 IN
         /\ Len(Replay(rv)) = len /\ DOMAIN Replay(rv) = 1..len
         /\ \A i \in 1..len : Replay(rv)[i] = rv + i
         /\ Replay(rv) \in Seq(1..Len(log))
<1> DEFINE len == IF rv <= Len(log) THEN Len(log) - rv ELSE 0
<1>1. Len(log) \in Nat
  OBVIOUS
<1>2. Since(rv) = (rv + 1)..Len(log)
  BY <1>1 DEF Since
<1>3. Cardinality(Since(rv)) = len
  <2>1. Cardinality((rv + 1)..Len(log)) =
          IF rv + 1 > Len(log) THEN 0 ELSE Len(log) - (rv + 1) + 1
    BY <1>1, rv + 1 \in Int, Len(log) \in Int, FS_Interval, Zenon
  <2> QED BY <1>1, <1>2, <2>1
<1>4. Replay(rv) = [i \in 1..len |-> Len(log) - len + i] /\ len \in Nat
  BY <1>1, <1>3 DEF Replay
<1>5. \A i \in 1..len : Len(log) - len + i = rv + i /\ rv + i \in 1..Len(log)
  <2>1. CASE rv <= Len(log)
    BY <1>1, <2>1
  <2>2. CASE ~(rv <= Len(log))
    BY <1>1, <2>2
  <2> QED BY <2>1, <2>2
<1> HIDE DEF len
<1>6. Len(Replay(rv)) = len /\ DOMAIN Replay(rv) = 1..len
      /\ Replay(rv) \in Seq(1..Len(log))
  BY <1>4, <1>5
<1> QED BY <1>4, <1>5, <1>6 DEF len

(* Types and control of a session.                                         *)
TInv == TypeOK /\ Calling /\ Unopened /\ Delivered

(* A request goes on.                                                      *)
LEMMA RequestTInv ==
  ASSUME TInv, Request
  PROVE  TInv'
<1>1. Attempted /\ NothingNew /\ call.pc \notin {"none", "over"}
  BY RequestAttempted DEF TInv, TypeOK, Request
<1>2. UNCHANGED <<clients, known, log, deliveries, stream, streamEnd, missed, overtaken, restarts,
                  items, indexers, indices, pc, id, listed, rvs, sw>>
  BY DEF Request, serviceVars, storeVars, sessionVars
<1>3. CallTyped'
  BY <1>1 DEF Attempted
<1>4. TypeOK'
  BY <1>2, <1>3 DEF TInv, TypeOK, ServiceTypeOK, StoreTypeOK
<1>5. Calling'
  <2>1. pc \in {"registering", "listing", "watching"}
    BY <1>1 DEF TInv, Calling, NoCall
  <2> HIDE DEF CallTyped
  <2> QED BY <1>1, <1>2, <2>1 DEF TInv, Calling, Attempted
<1>6. Unopened'
  BY <1>1, <1>2 DEF TInv, Calling, Unopened, Attempted
<1>7. Delivered'
  BY <1>2 DEF TInv, Delivered, InLog
<1> QED BY <1>4, <1>5, <1>6, <1>7 DEF TInv

(* A handler answers what is asked for at this point.                      *)
LEMMA AskedFor ==
  ASSUME TInv, NEW op, Requested(op)
  PROVE  /\ pc \in {"registering", "listing", "watching"}
         /\ pc = "watching" <=> op = "watch"
         /\ op = "watch" => /\ sw = NoWatcher /\ streamEnd = "none" /\ stream = <<>>
                            /\ deliveries = {} /\ call.request.rvs = rvs
BY DEF Requested, TInv, Calling, Unopened, NoCall

(* An answered call still is the one the session waits for.                *)
LEMMA ReplyCalling ==
  ASSUME TInv, NEW op, Requested(op), UNCHANGED <<pc, rvs>>,
         call'.request = call.request, call'.pc \in {"answered", "unanswered", "over"}
  PROVE  Calling'
BY AskedFor DEF TInv, Calling, Requested

(* A handler of the service answers a request.                             *)
LEMMA HandleTInv ==
  ASSUME TInv, Handle, UNCHANGED <<storeVars, sessionVars>>
  PROVE  TInv'
<1>1. UNCHANGED <<items, indexers, indices, pc, id, listed, rvs, sw>>
  BY DEF storeVars, sessionVars
<1>2. ASSUME NEW op, Requested(op), NEW answer \in Answers(Document), Reply(answer)
      PROVE  CallTyped' /\ Calling' /\ call'.pc = "answered"
  <2>1. CallTyped'
    BY <1>2, ReplyTyped DEF TInv, TypeOK
  <2>2. call'.request = call.request /\ call'.pc = "answered"
    BY <1>2 DEF Reply, TInv, TypeOK, RequestTypeOK
  <2> QED BY <1>1, <1>2, <2>1, <2>2, ReplyCalling
<1>3. CASE handleClientRegistration
  <2>1. Requested("register") /\ UNCHANGED <<log, deliveries, stream, streamEnd, missed, overtaken, restarts>>
    BY <1>3 DEF handleClientRegistration
  <2>2. /\ \E answer \in Answers(Document) : Reply(answer)
        /\ clients' \in 0..MaxClients /\ known' \subseteq Ids
    <3>1. CASE UNCHANGED <<clients, known>> /\ \E code \in {400, 500} : Reply(Answer(code, FALSE, <<>>))
      <4>1. PICK code \in {400, 500} : Reply(Answer(code, FALSE, <<>>))
        BY <3>1
      <4>2. Answer(code, FALSE, <<>>) \in Answers(Document)
        BY Empties DEF Answer, Answers
      <4>3. clients' \in 0..MaxClients /\ known' \subseteq Ids
        BY <3>1 DEF TInv, TypeOK, ServiceTypeOK
      <4> QED BY <4>1, <4>2, <4>3
    <3>2. CASE /\ clients < MaxClients /\ clients' = clients + 1 /\ known' = known \cup {clients + 1}
               /\ Reply(Answer(200, FALSE, <<[id |-> clients + 1, nodes |-> {}, rvs |-> None]>>))
      <4> DEFINE doc == [id |-> clients + 1, nodes |-> {}, rvs |-> None]
      <4>1. clients + 1 \in Ids /\ clients' \in 0..MaxClients /\ known' \subseteq Ids
        BY <3>2, RequestAssumption DEF TInv, TypeOK, ServiceTypeOK, Ids
      <4>2. doc \in Document
        BY <4>1 DEF Document
      <4> HIDE DEF doc
      <4>3. Answer(200, FALSE, <<doc>>) \in Answers(Document)
        BY <4>2, Empties DEF Answer, Answers
      <4> QED BY <3>2, <4>1, <4>3 DEF doc
    <3> QED BY <1>3, <3>1, <3>2 DEF handleClientRegistration
  <2>3. CallTyped' /\ Calling' /\ call'.pc = "answered"
    BY <1>2, <2>1, <2>2
  <2>4. TypeOK'
    BY <1>1, <2>1, <2>2, <2>3 DEF TInv, TypeOK, ServiceTypeOK, StoreTypeOK
  <2>5. Unopened' /\ Delivered'
    BY <1>1, <2>1, <2>3 DEF TInv, Unopened, Delivered, InLog
  <2> QED BY <2>3, <2>4, <2>5 DEF TInv
<1>4. CASE ResourceHandlerGet
  <2>1. Requested("list") /\ UNCHANGED <<clients, known, log, deliveries, stream, streamEnd,
                                         overtaken, restarts>>
    BY <1>4 DEF ResourceHandlerGet
  <2>2. \E answer \in Answers(Document) : Reply(answer)
    BY <1>4, ListAnswered DEF TInv, Delivered
  <2>6. missed' \subseteq 1..Len(log) /\ missed' \subseteq RVs
    <3>1. missed' \subseteq 1..Len(log)
      BY <1>4, ListAnswered DEF TInv, Delivered
    <3> QED BY <3>1, RequestAssumption DEF RVs, TInv, TypeOK, ServiceTypeOK
  <2>3. CallTyped' /\ Calling' /\ call'.pc = "answered"
    BY <1>2, <2>1, <2>2
  <2>4. TypeOK'
    BY <1>1, <2>1, <2>3, <2>6 DEF TInv, TypeOK, ServiceTypeOK, StoreTypeOK
  <2>5. Unopened' /\ Delivered'
    BY <1>1, <2>1, <2>3, <2>6 DEF TInv, Unopened, Delivered, InLog
  <2> QED BY <2>3, <2>4, <2>5 DEF TInv
<1>5. CASE serverWatch
  <2>1. Requested("watch") /\ Unanswered
        /\ UNCHANGED <<clients, known, log, deliveries, missed, overtaken, restarts>>
    BY <1>5 DEF serverWatch
  <2>2. /\ pc = "watching" /\ sw = NoWatcher /\ streamEnd = "none" /\ stream = <<>>
        /\ deliveries = {} /\ call.request.rvs = rvs
    BY <2>1, AskedFor
  <2>3. call'.request = call.request /\ call'.pc = "unanswered" /\ CallTyped'
    BY <2>1 DEF Unanswered, TInv, TypeOK, RequestTypeOK
  <2>4. Calling'
    BY <1>1, <2>1, <2>3, ReplyCalling
  <2>5. CASE UNCHANGED <<stream, streamEnd>>
    <3>1. TypeOK'
      BY <1>1, <2>1, <2>3, <2>5 DEF TInv, TypeOK, ServiceTypeOK, StoreTypeOK
    <3>2. Unopened' /\ Delivered'
      BY <1>1, <2>1, <2>2, <2>3, <2>5 DEF TInv, Unopened, Delivered, InLog
    <3> QED BY <2>4, <3>1, <3>2 DEF TInv
  <2>6. CASE /\ call.request.rvs # None /\ stream' = Replay(call.request.rvs)
             /\ streamEnd' = "opening"
    <3>1. rvs \in Nat /\ log \in Seq(Nodes) /\ Len(log) <= MaxRV
      BY <2>2, <2>6, RequestAssumption DEF TInv, TypeOK, ServiceTypeOK
    <3>2. stream' \in Seq(1..Len(log))
      BY <2>2, <2>6, <3>1, ReplayIs
    <3>3. stream' \in Seq(RVs)
      BY <3>1, <3>2, RequestAssumption DEF RVs
    <3>4. TypeOK'
      BY <1>1, <2>1, <2>3, <2>6, <3>3 DEF TInv, TypeOK, ServiceTypeOK, StoreTypeOK
    <3>5. Unopened'
      BY <1>1, <2>1, <2>2, <2>3, <2>6 DEF TInv, Unopened
    <3>6. Delivered'
      <4>1. \A i \in DOMAIN stream' : stream'[i] \in 1..Len(log)
        BY <3>2
      <4> QED BY <1>1, <2>1, <2>2, <4>1 DEF TInv, Delivered, InLog
    <3> QED BY <2>4, <3>4, <3>5, <3>6 DEF TInv
  <2> QED BY <1>5, <2>5, <2>6 DEF serverWatch, Accepted
<1>6. CASE OpenStream
  <2>1. /\ UNCHANGED <<clients, known, log, deliveries, stream, missed, overtaken, restarts>>
        /\ streamEnd = "opening" /\ streamEnd' = "open"
    BY <1>6 DEF OpenStream
  <2>2. pc \notin {"start", "registering", "registered", "listing", "adding", "exited"}
    BY <2>1 DEF TInv, Unopened
  <2>3. /\ CallTyped' /\ Calling'
        /\ pc = "watching" => call'.pc \notin {"do", "sent"}
    <3>1. CASE UNCHANGED call
      BY <1>1, <2>1, <3>1 DEF TInv, TypeOK, Calling, RequestTypeOK, Unopened
    <3>2. CASE call.pc = "unanswered" /\ Reply(Answer(200, FALSE, <<>>))
      <4>1. Answer(200, FALSE, <<>>) \in Answers(Document)
        BY Empties DEF Answer, Answers
      <4>2. CallTyped'
        BY <3>2, <4>1, ReplyTyped DEF TInv, TypeOK
      <4>3. call'.request = call.request /\ call'.pc = "answered"
        BY <3>2 DEF Reply, TInv, TypeOK, RequestTypeOK
      <4>4. pc \in {"registering", "listing", "watching"}
        BY <3>2 DEF TInv, Calling, NoCall
      <4> HIDE DEF CallTyped
      <4>5. Calling'
        BY <1>1, <3>2, <4>3, <4>4 DEF TInv, Calling
      <4> QED BY <4>2, <4>3, <4>5
    <3> QED BY <1>6, <3>1, <3>2 DEF OpenStream
  <2>4. TypeOK'
    BY <1>1, <2>1, <2>3 DEF TInv, TypeOK, ServiceTypeOK, StoreTypeOK
  <2>5. Unopened' /\ Delivered'
    BY <1>1, <2>1, <2>2, <2>3 DEF TInv, Unopened, Delivered, InLog
  <2> QED BY <2>3, <2>4, <2>5 DEF TInv
<1> QED BY <1>3, <1>4, <1>5, <1>6 DEF Handle

(* Nodes change, events are delivered, a stream ends.                      *)
LEMMA StreamTInv ==
  ASSUME TInv, NodeChanges \/ Deliver \/ \E end \in Ends : StreamEndsWith(end),
         UNCHANGED <<storeVars, sessionVars>>
  PROVE  TInv'
<1>1. UNCHANGED <<call, items, indexers, indices, pc, id, listed, rvs, sw>>
  BY DEF storeVars, sessionVars, NodeChanges, Deliver, StreamEndsWith
<1>2. log \in Seq(Nodes) /\ Len(log) \in Nat /\ Len(log) <= MaxRV /\ deliveries \subseteq 1..Len(log)
      /\ missed \subseteq 1..Len(log)
  BY DEF TInv, TypeOK, ServiceTypeOK, Delivered
<1>3. CASE NodeChanges
  <2>1. UNCHANGED <<clients, known, stream, streamEnd, overtaken, restarts>>
    BY <1>3 DEF NodeChanges
  <2>2. /\ log' \in Seq(Nodes) /\ Len(log') = Len(log) + 1 /\ Len(log') <= MaxRV
        /\ Len(log') \in Nat
    BY <1>2, <1>3, RequestAssumption DEF NodeChanges
  <2>3. /\ deliveries' \subseteq deliveries \cup {Len(log) + 1}
        /\ streamEnd # "open" => deliveries' = deliveries
        /\ missed' \subseteq missed \cup {Len(log) + 1}
    BY <1>3 DEF NodeChanges
  <2>4. /\ deliveries' \subseteq 1..Len(log') /\ deliveries' \subseteq RVs
        /\ missed' \subseteq 1..Len(log') /\ missed' \subseteq RVs
    <3>1. \A rv \in deliveries \cup missed \cup {Len(log) + 1} :
            rv \in 1..Len(log') /\ rv \in 1..MaxRV
      BY <1>2, <2>2, RequestAssumption
    <3> QED BY <2>3, <3>1 DEF RVs
  <2>5. ServiceTypeOK'
    BY <2>1, <2>2, <2>4 DEF TInv, TypeOK, ServiceTypeOK
  <2>9. TypeOK'
    BY <1>1, <2>5 DEF TInv, TypeOK, RequestTypeOK, StoreTypeOK
  <2>6. \A rv \in InLog : rv \in InLog'
    BY <1>2, <2>2, <2>3 DEF InLog
  <2>7. Delivered'
    BY <1>1, <2>1, <2>4, <2>6 DEF TInv, Delivered
  <2>8. Calling' /\ Unopened'
    BY <1>1, <2>1, <2>3 DEF TInv, Calling, Unopened
  <2> QED BY <2>7, <2>8, <2>9 DEF TInv
<1>4. CASE Deliver
  <2>1. UNCHANGED <<clients, known, log, streamEnd, missed, restarts>> /\ streamEnd = "open"
    BY <1>4 DEF Deliver
  <2>2. PICK rv \in deliveries :
          /\ stream' = Append(stream, rv)
          /\ deliveries' = deliveries \ {rv}
          /\ overtaken' \subseteq overtaken \cup {log[rv]}
    BY <1>4 DEF Deliver
  <2>3. rv \in 1..Len(log) /\ rv \in RVs /\ log[rv] \in Nodes /\ rv \in InLog'
    BY <1>2, <2>1, <2>2, RequestAssumption DEF RVs, InLog
  <2>4. stream \in Seq(RVs) /\ stream' \in Seq(RVs)
    BY <2>2, <2>3 DEF TInv, TypeOK, ServiceTypeOK
  <2>5. TypeOK'
    <3>1. ServiceTypeOK'
      BY <2>1, <2>2, <2>3, <2>4 DEF TInv, TypeOK, ServiceTypeOK
    <3> QED BY <1>1, <3>1 DEF TInv, TypeOK, RequestTypeOK, StoreTypeOK
  <2>6. \A i \in DOMAIN stream' : stream'[i] \in InLog'
    <3>1. \A v \in InLog : v \in InLog'
      BY <2>1, <2>2 DEF InLog
    <3>2. \A i \in DOMAIN stream' : (i \in DOMAIN stream /\ stream'[i] = stream[i]) \/ stream'[i] = rv
      BY <2>2, <2>4
    <3> QED BY <2>3, <3>1, <3>2 DEF TInv, Delivered
  <2>7. Delivered'
    BY <1>1, <1>2, <2>1, <2>2, <2>6 DEF TInv, Delivered, InLog
  <2>8. Calling' /\ Unopened'
    BY <1>1, <2>1 DEF TInv, Calling, Unopened
  <2> QED BY <2>5, <2>7, <2>8 DEF TInv
<1>5. ASSUME NEW end \in Ends, StreamEndsWith(end)
      PROVE  TInv'
  <2>1. UNCHANGED <<clients, known, log, stream, missed, overtaken, restarts>> /\ streamEnd' = end
        /\ deliveries' = {} /\ streamEnd = "open"
    BY <1>5 DEF StreamEndsWith
  <2>2. end # "none"
    BY DEF Ends
  <2>3. TypeOK'
    <3>1. ServiceTypeOK'
      BY <2>1 DEF TInv, TypeOK, ServiceTypeOK
    <3> QED BY <1>1, <3>1 DEF TInv, TypeOK, RequestTypeOK, StoreTypeOK
  <2>4. Delivered'
    BY <1>1, <2>1 DEF TInv, Delivered, InLog
  <2>5. Calling' /\ Unopened'
    BY <1>1, <2>1, <2>2 DEF TInv, Calling, Unopened
  <2> QED BY <2>3, <2>4, <2>5 DEF TInv
<1> QED BY <1>3, <1>4, <1>5

(* The service stops and is started again.                                 *)
LEMMA RestartTInv ==
  ASSUME TInv, Restart, UNCHANGED <<storeVars, sessionVars>>
  PROVE  TInv'
<1>1. UNCHANGED <<clients, log, stream, missed, overtaken, items, indexers, indices, pc, id, listed, rvs, sw>>
  BY DEF storeVars, sessionVars, Restart
<1>2. /\ CallTyped' /\ Calling'
      /\ pc = "watching" /\ call'.pc \in {"do", "sent"} => call.pc \in {"do", "sent"}
  <2>1. CASE UNCHANGED call
    BY <1>1, <2>1 DEF TInv, TypeOK, Calling, RequestTypeOK
  <2>2. CASE call.pc \in {"sent", "unanswered"} /\ Fails("reset")
    <3>1. Attempted
      BY <2>2, FailsAttempted DEF TInv, TypeOK
    <3>2. pc \in {"registering", "listing", "watching"}
      BY <2>2 DEF TInv, Calling, NoCall
    <3>3. CallTyped'
      BY <3>1 DEF Attempted
    <3> HIDE DEF CallTyped
    <3>4. Calling'
      BY <1>1, <2>2, <3>1, <3>2 DEF TInv, Calling, Attempted
    <3> QED BY <3>1, <3>3, <3>4 DEF TInv, Calling, Attempted
  <2> QED BY <2>1, <2>2 DEF Restart
<1>3. /\ known' = {} /\ deliveries' = {} /\ restarts' = restarts + 1 /\ restarts < MaxRestarts
      /\ streamEnd' = IF streamEnd \in {"opening", "open"} THEN "reset" ELSE streamEnd
  BY DEF Restart
<1>4. restarts' \in 0..MaxRestarts
  BY <1>3, ServiceAssumption DEF TInv, TypeOK, ServiceTypeOK
<1>5. TypeOK'
  BY <1>1, <1>2, <1>3, <1>4 DEF TInv, TypeOK, ServiceTypeOK, StoreTypeOK, Ends
<1>6. Delivered'
  BY <1>1, <1>3 DEF TInv, Delivered, InLog
<1>7. Unopened'
  BY <1>1, <1>2, <1>3 DEF TInv, Unopened
<1> QED BY <1>2, <1>5, <1>6, <1>7 DEF TInv

(* A step of the service.                                                  *)
LEMMA ServiceTInv ==
  ASSUME TInv, Service
  PROVE  TInv'
BY HandleTInv, StreamTInv, RestartTInv DEF Service

-----------------------------------------------------------------------------
(* The client's steps.                                                     *)

(* A node that is put into the store takes the place of its node.          *)
LEMMA PutNode ==
  ASSUME StoreTypeOK, NEW obj \in [node : Nodes, rv : RVs], Put(obj)
  PROVE  /\ StoreTypeOK'
         /\ obj.node \in Keys
         /\ items' = [items EXCEPT ![obj.node] = obj]
<1>1. obj \in Objects /\ KeyFunc[obj] = obj.node /\ obj.node \in Keys /\ obj.node # NoKey
  BY SessionAssumption, CacheAssumption
<1>2. /\ items' = [items EXCEPT ![obj.node] = obj]
      /\ indices' = updateIndices(items[obj.node], obj, obj.node)
      /\ indexers' = indexers
  BY <1>1 DEF Put
<1>3. items' \in [Keys -> Objects \cup {NoObject}]
  BY <1>1, <1>2 DEF StoreTypeOK
<1>4. indices' \in [IndexNames -> [IndexValues -> SUBSET Keys]]
  <2>1. \A name \in IndexNames : \A value \in IndexValues : indices[name][value] \subseteq Keys
    BY DEF StoreTypeOK
  <2> QED BY <1>1, <1>2, <2>1 DEF updateIndices
<1> QED BY <1>1, <1>2, <1>3, <1>4 DEF StoreTypeOK

(* The object of an event.                                                 *)
LEMMA EventNode ==
  ASSUME TInv, NEW rv \in InLog
  PROVE  /\ Listed(log[rv], rv) \in [node : Nodes, rv : RVs]
         /\ Store(rv) => Put(Listed(log[rv], rv))
<1>1. log \in Seq(Nodes) /\ Len(log) <= MaxRV /\ rv \in 1..Len(log)
  BY DEF TInv, TypeOK, ServiceTypeOK, InLog
<1>2. log[rv] \in Nodes /\ rv \in RVs
  BY <1>1, RequestAssumption DEF RVs
<1> QED BY <1>2 DEF Listed, Store, Add, Update

(* The calls.                                                              *)
LEMMA CallsTInv ==
  ASSUME TInv, Register \/ registerClient \/ ListNodes \/ listNodes \/ WatchNodes \/ watchNodes
  PROVE  TInv'
<1>1. UNCHANGED <<clients, known, log, deliveries, stream, streamEnd, missed, overtaken, restarts,
                  items, indexers, indices>>
  BY DEF serviceVars, storeVars, Register, registerClient, ListNodes, listNodes, WatchNodes,
         watchNodes
<1>2. ServiceTypeOK' /\ StoreTypeOK'
  BY <1>1 DEF TInv, TypeOK, ServiceTypeOK, StoreTypeOK
<1>3. id \in Ids \cup {None} /\ rvs \in 0..MaxRV \cup {None}
  BY DEF TInv, TypeOK
<1>4. CASE Register
  <2>1. pc = "start" /\ pc' = "registering" /\ UNCHANGED <<id, listed, rvs, sw>>
        /\ Begin(Body(NewRequest("register"), None))
    BY <1>4 DEF Register
  <2> DEFINE request == Body(NewRequest("register"), None)
  <2>2. request.op = "register"
    BY DEF Body, NewRequest
  <2>3. request \in Requests
    <3>1. NewRequest("register") \in Requests
      BY DEF NewRequest, Requests, Operations
    <3> QED BY <3>1 DEF Body, Requests
  <2> HIDE DEF request
  <2>4. CallTyped' /\ call'.request = request
    BY <2>1, <2>3, BeginTyped DEF Begin, NoCall, request
  <2>5. Calling'
    BY <2>1, <2>2, <2>4 DEF Calling
  <2>6. TypeOK'
    BY <1>2, <2>1, <2>4 DEF TInv, TypeOK
  <2>7. Unopened' /\ Delivered'
    BY <1>1, <2>1 DEF TInv, Unopened, Delivered, InLog
  <2> QED BY <2>5, <2>6, <2>7 DEF TInv
<1>5. CASE ListNodes
  <2>1. PICK limit \in Limits : Begin(Param(Name(NewRequest("list"), id), limit))
    BY <1>5 DEF ListNodes
  <2>2. pc = "registered" /\ pc' = "listing" /\ UNCHANGED <<id, listed, rvs, sw>>
    BY <1>5 DEF ListNodes
  <2> DEFINE request == Param(Name(NewRequest("list"), id), limit)
  <2>3. request.op = "list" /\ request \in Requests
    BY <1>3, RequestTyped, Setters DEF Operations
  <2> HIDE DEF request
  <2>4. CallTyped' /\ call'.request = request
    BY <2>1, <2>3, BeginTyped DEF Begin, NoCall, request
  <2>5. Calling'
    BY <2>2, <2>3, <2>4 DEF Calling
  <2>6. TypeOK'
    BY <1>2, <2>2, <2>4 DEF TInv, TypeOK
  <2>7. Unopened' /\ Delivered'
    BY <1>1, <2>2 DEF TInv, Unopened, Delivered, InLog
  <2> QED BY <2>5, <2>6, <2>7 DEF TInv
<1>6. CASE WatchNodes
  <2>1. pc = "adding" /\ pc' = "watching" /\ UNCHANGED <<id, listed, rvs, sw>>
        /\ Begin(Body(Name(NewRequest("watch"), id), rvs))
    BY <1>6 DEF WatchNodes
  <2> DEFINE request == Body(Name(NewRequest("watch"), id), rvs)
  <2>2. request.op = "watch" /\ request \in Requests
    BY <1>3, WatchTyped, Setters DEF Operations
  <2>3. ~request.err => request.rvs = rvs
    BY DEF Body, Name, NewRequest
  <2> HIDE DEF request
  <2>4. CallTyped' /\ call'.request = request
    BY <2>1, <2>2, BeginTyped DEF Begin, NoCall, request
  <2>5. call'.pc # "over" => ~request.err
    BY <2>1, <2>2 DEF Begin, NoCall, request
  <2>6. Calling'
    BY <2>1, <2>2, <2>3, <2>4, <2>5 DEF Calling
  <2>7. TypeOK'
    BY <1>2, <2>1, <2>4 DEF TInv, TypeOK
  <2>8. Unopened' /\ Delivered'
    BY <1>1, <2>1 DEF TInv, Unopened, Delivered, InLog
  <2> QED BY <2>6, <2>7, <2>8 DEF TInv
<1>7. CASE registerClient
  <2>1. call' = NoCall /\ CallTyped' /\ pc = "registering" /\ pc' \in {"registered", "exited"}
        /\ UNCHANGED <<listed, rvs, sw>>
    BY <1>7, NoCallTyped DEF registerClient
  <2>2. id' \in Ids \cup {None}
    <3>1. CASE id' = id
      BY <1>3, <3>1
    <3>2. CASE Len(call.answer.body) = 1 /\ id' = call.answer.body[1].id
      <4>1. call.answer.body \in Seq(Document)
        BY AnswerTyped DEF TInv, TypeOK, Answers
      <4>2. call.answer.body[1] \in Document
        BY <3>2, <4>1
      <4> QED BY <3>2, <4>2 DEF Document
    <3> QED BY <1>7, <3>1, <3>2 DEF registerClient, Unmarshalled
  <2>3. TypeOK'
    BY <1>2, <2>1, <2>2 DEF TInv, TypeOK, Over
  <2>4. Calling' /\ Unopened' /\ Delivered'
    BY <1>1, <2>1 DEF TInv, Calling, Unopened, Delivered, InLog
  <2> QED BY <2>3, <2>4 DEF TInv
<1>8. CASE listNodes
  <2>1. call' = NoCall /\ CallTyped' /\ pc = "listing" /\ pc' \in {"adding", "exited"}
        /\ UNCHANGED <<id, sw>>
    BY <1>8, NoCallTyped DEF listNodes
  <2>2. listed' \subseteq [node : Nodes, rv : RVs] /\ rvs' \in 0..MaxRV \cup {None}
    <3>1. CASE UNCHANGED <<listed, rvs>>
      BY <1>3, <3>1 DEF TInv, TypeOK
    <3>2. CASE /\ Len(call.answer.body) = 1
               /\ listed' = call.answer.body[1].nodes /\ rvs' = call.answer.body[1].rvs
      <4>1. call.answer.body \in Seq(Document)
        BY AnswerTyped DEF TInv, TypeOK, Answers
      <4>2. call.answer.body[1] \in Document
        BY <3>2, <4>1
      <4> QED BY <3>2, <4>2 DEF Document
    <3> QED BY <1>8, <3>1, <3>2 DEF listNodes, Unmarshalled
  <2>3. TypeOK'
    BY <1>2, <2>1, <2>2 DEF TInv, TypeOK, Over
  <2>4. Calling' /\ Unopened' /\ Delivered'
    BY <1>1, <2>1 DEF TInv, Calling, Unopened, Delivered, InLog
  <2> QED BY <2>3, <2>4 DEF TInv
<1>9. CASE watchNodes
  <2>1. call' = NoCall /\ CallTyped' /\ pc = "watching" /\ pc' \in {"crashed", "consuming"}
        /\ UNCHANGED <<id, listed, rvs>>
    BY <1>9, NoCallTyped DEF watchNodes
  <2>2. sw' \in [pc : {"none", "decode", "send", "closed"}, event : RVs \cup {ErrorEvent},
                 stopped : BOOLEAN] /\ sw'.event = sw.event
    BY <1>9 DEF watchNodes, TInv, TypeOK
  <2>3. TypeOK'
    BY <1>2, <2>1, <2>2 DEF TInv, TypeOK, Over
  <2>4. Calling' /\ Unopened' /\ Delivered'
    BY <1>1, <2>1, <2>2 DEF TInv, Calling, Unopened, Delivered, InLog
  <2> QED BY <2>3, <2>4 DEF TInv
<1> QED BY <1>4, <1>5, <1>6, <1>7, <1>8, <1>9

(* The store is filled, the watcher started and stopped.                   *)
LEMMA WatcherTInv ==
  ASSUME TInv, \/ SkipRegistration \/ AddListed \/ Decode \/ DecodeFails \/ Consume
               \/ EndOfResults \/ Stop
  PROVE  TInv'
<1>1. UNCHANGED <<call, clients, known, log, deliveries, streamEnd, missed, overtaken, restarts, id,
                  rvs>>
  BY DEF serviceVars, SkipRegistration, AddListed, Decode, DecodeFails, Consume, EndOfResults, Stop
<1>2. CallTyped'
  BY <1>1 DEF TInv, TypeOK, RequestTypeOK
<1>3. UNCHANGED <<stream>> => ServiceTypeOK'
  BY <1>1 DEF TInv, TypeOK, ServiceTypeOK
<1>4. UNCHANGED <<items, indexers, indices>> => StoreTypeOK'
  BY DEF TInv, TypeOK, StoreTypeOK
<1>5. CASE SkipRegistration
  <2>1. UNCHANGED <<stream, items, indexers, indices, listed, sw>> /\ pc = "start"
        /\ pc' = "registered"
    BY <1>5 DEF SkipRegistration, serviceVars, storeVars
  <2>2. TypeOK'
    BY <1>1, <1>2, <1>3, <1>4, <2>1 DEF TInv, TypeOK
  <2>3. Calling' /\ Unopened' /\ Delivered'
    BY <1>1, <2>1 DEF TInv, Calling, Unopened, Delivered, InLog
  <2> QED BY <2>2, <2>3 DEF TInv
<1>6. CASE AddListed
  <2>1. PICK obj \in listed : Put(obj) /\ listed' = listed \ {obj}
    BY <1>6 DEF AddListed, Add
  <2>2. UNCHANGED <<stream, pc, sw>>
    BY <1>6 DEF AddListed, serviceVars
  <2>3. StoreTypeOK'
    BY <2>1, PutNode DEF TInv, TypeOK
  <2>4. TypeOK'
    BY <1>1, <1>2, <1>3, <2>1, <2>2, <2>3 DEF TInv, TypeOK
  <2>5. Calling' /\ Unopened' /\ Delivered'
    BY <1>1, <2>2 DEF TInv, Calling, Unopened, Delivered, InLog
  <2> QED BY <2>4, <2>5 DEF TInv
<1>7. CASE Decode
  <2>1. /\ sw.pc = "decode" /\ stream # <<>>
        /\ sw' = [sw EXCEPT !.pc = "send", !.event = Head(stream)]
        /\ stream' = Tail(stream) /\ UNCHANGED <<items, indexers, indices, pc, listed>>
    BY <1>7 DEF Decode, storeVars
  <2>2. stream \in Seq(RVs)
    BY DEF TInv, TypeOK, ServiceTypeOK
  <2>3. /\ Head(stream) = stream[1] /\ 1 \in DOMAIN stream /\ Tail(stream) \in Seq(RVs)
        /\ Head(stream) \in RVs
        /\ \A i \in DOMAIN Tail(stream) : Tail(stream)[i] = stream[i + 1] /\ i + 1 \in DOMAIN stream
    BY <2>1, <2>2
  <2>4. ServiceTypeOK'
    BY <1>1, <2>1, <2>3 DEF TInv, TypeOK, ServiceTypeOK
  <2>5. sw' \in [pc : {"none", "decode", "send", "closed"}, event : RVs \cup {ErrorEvent},
                 stopped : BOOLEAN] /\ sw'.event = Head(stream)
    BY <2>1, <2>3 DEF TInv, TypeOK
  <2>6. TypeOK'
    BY <1>1, <1>2, <1>4, <2>1, <2>4, <2>5 DEF TInv, TypeOK
  <2>7. Delivered'
    BY <1>1, <2>1, <2>3, <2>5 DEF TInv, Delivered, InLog
  <2>8. pc \notin {"start", "registering", "registered", "listing", "adding", "exited", "watching"}
        /\ streamEnd # "none"
    BY <2>1 DEF TInv, Unopened, NoWatcher
  <2>9. Calling' /\ Unopened'
    BY <1>1, <2>1, <2>8 DEF TInv, Calling, Unopened
  <2> QED BY <2>6, <2>7, <2>9 DEF TInv
<1>8. CASE DecodeFails
  <2>1. /\ sw.pc = "decode" /\ streamEnd \in Ends
        /\ sw' = [sw EXCEPT !.pc = AfterEnd(streamEnd), !.event = ErrorEvent]
        /\ UNCHANGED <<stream, items, indexers, indices, pc, listed>>
    BY <1>8 DEF DecodeFails, storeVars, serviceVars
  <2>2. sw' \in [pc : {"none", "decode", "send", "closed"}, event : RVs \cup {ErrorEvent},
                 stopped : BOOLEAN] /\ sw'.event = ErrorEvent
    BY <2>1 DEF TInv, TypeOK, AfterEnd
  <2>3. TypeOK'
    BY <1>1, <1>2, <1>3, <1>4, <2>1, <2>2 DEF TInv, TypeOK
  <2>4. Delivered'
    BY <1>1, <2>1, <2>2 DEF TInv, Delivered, InLog
  <2>5. pc \notin {"start", "registering", "registered", "listing", "adding", "exited", "watching"}
    BY <2>1 DEF TInv, Unopened, NoWatcher
  <2>6. Calling' /\ Unopened'
    BY <1>1, <2>1, <2>5 DEF TInv, Calling, Unopened
  <2> QED BY <2>3, <2>4, <2>6 DEF TInv
<1>9. CASE Consume
  <2>1. /\ pc = "consuming" /\ UNCHANGED <<stream, pc, listed>>
        /\ sw' = [sw EXCEPT !.pc = IF sw.event = ErrorEvent THEN "closed" ELSE "decode"]
        /\ IF sw.event = ErrorEvent THEN UNCHANGED storeVars ELSE Store(sw.event)
    BY <1>9 DEF Consume, serviceVars
  <2>2. StoreTypeOK'
    <3>1. CASE sw.event = ErrorEvent
      BY <1>4, <2>1, <3>1 DEF storeVars
    <3>2. CASE sw.event # ErrorEvent
      <4>1. sw.event \in InLog
        BY <3>2 DEF TInv, Delivered
      <4> QED BY <2>1, <3>2, <4>1, EventNode, PutNode DEF TInv, TypeOK
    <3> QED BY <3>1, <3>2
  <2>3. sw' \in [pc : {"none", "decode", "send", "closed"}, event : RVs \cup {ErrorEvent},
                 stopped : BOOLEAN] /\ sw'.event = sw.event
    BY <2>1 DEF TInv, TypeOK
  <2>4. TypeOK'
    BY <1>1, <1>2, <1>3, <2>1, <2>2, <2>3 DEF TInv, TypeOK
  <2>5. Calling' /\ Unopened' /\ Delivered'
    BY <1>1, <2>1, <2>3 DEF TInv, Calling, Unopened, Delivered, InLog
  <2> QED BY <2>4, <2>5 DEF TInv
<1>10. CASE EndOfResults \/ Stop
  <2>1. /\ pc = "consuming" /\ pc' \in {"consuming", "done"}
        /\ UNCHANGED <<stream, items, indexers, indices, listed>>
        /\ sw' = sw \/ sw' = [sw EXCEPT !.stopped = TRUE]
    BY <1>10 DEF EndOfResults, Stop, storeVars, serviceVars
  <2>2. sw' \in [pc : {"none", "decode", "send", "closed"}, event : RVs \cup {ErrorEvent},
                 stopped : BOOLEAN] /\ sw'.event = sw.event
    BY <2>1 DEF TInv, TypeOK
  <2>3. TypeOK'
    BY <1>1, <1>2, <1>3, <1>4, <2>1, <2>2 DEF TInv, TypeOK, Over
  <2>4. Calling' /\ Unopened' /\ Delivered'
    BY <1>1, <2>1, <2>2 DEF TInv, Calling, Unopened, Delivered, InLog
  <2> QED BY <2>3, <2>4 DEF TInv
<1> QED BY <1>5, <1>6, <1>7, <1>8, <1>9, <1>10

(* The session has not begun.                                              *)
LEMMA InitTInv == Init => TInv
<1> SUFFICES ASSUME Init PROVE TInv
  OBVIOUS
<1>1. call = NoCall /\ CallTyped
  <2>1. NewRequest("list") \in Requests
    BY DEF NewRequest, Requests, Operations
  <2>2. NoAnswer \in Answers(Document)
    BY Empties DEF NoAnswer, Answer, Answers
  <2> QED BY <2>1, <2>2, RequestAssumption DEF Init, RequestInit, RequestTypeOK, NoCall
<1>2. ServiceTypeOK
  BY ServiceAssumption, RequestAssumption DEF Init, ServiceInit, ServiceTypeOK
<1>3. StoreTypeOK
  BY DEF Init, NewStore, NewIndexer, Empty, NoIndices, StoreTypeOK
<1>4. TypeOK
  BY <1>1, <1>2, <1>3 DEF Init, SessionInit, TypeOK, NoWatcher
<1>5. Calling /\ Unopened /\ Delivered
  BY <1>1 DEF Init, SessionInit, ServiceInit, Calling, Unopened, Delivered, InLog, NoWatcher
<1> QED BY <1>4, <1>5 DEF TInv

(* Typing and the control of the session are kept by every step.           *)
LEMMA NextTInv == TInv /\ [Next]_vars => TInv'
<1> SUFFICES ASSUME TInv, [Next]_vars PROVE TInv'
  OBVIOUS
<1>1. CASE Request
  BY <1>1, RequestTInv
<1>2. CASE Service
  BY <1>2, ServiceTInv
<1>3. CASE Client \/ SkipRegistration \/ Stop
  BY <1>3, CallsTInv, WatcherTInv DEF Client
<1>4. CASE UNCHANGED vars
  <2>1. UNCHANGED <<call, clients, known, log, deliveries, stream, streamEnd, missed, overtaken, restarts,
                    items, indexers, indices, pc, id, listed, rvs, sw>>
    BY <1>4 DEF vars, serviceVars, storeVars, sessionVars
  <2>2. TypeOK'
    BY <2>1 DEF TInv, TypeOK, RequestTypeOK, ServiceTypeOK, StoreTypeOK
  <2>3. Calling' /\ Unopened' /\ Delivered'
    BY <2>1 DEF TInv, Calling, Unopened, Delivered, InLog
  <2> QED BY <2>2, <2>3 DEF TInv
<1> QED BY <1>1, <1>2, <1>3, <1>4 DEF Next

(* Every variable of a session keeps its type; a request is not made more  *)
(* often than it may be, and an event that is read has happened.           *)
THEOREM SessionTyping == Spec => []TypeOK
<1>1. TInv => TypeOK
  BY DEF TInv
<1> QED BY InitTInv, NextTInv, <1>1, PTL DEF Spec

-----------------------------------------------------------------------------
(* The list.                                                               *)

HasAnswer == call.pc = "answered" \/ (call.pc = "over" /\ ~call.err)
ListAnswer == pc = "listing" /\ HasAnswer => WholeList(call.answer.body)

(* Before the list there is nothing; from then on until the watch is open, *)
(* what is in the store and what is still to be put there are the list.    *)
Held(rv) == IF rv = None THEN {} ELSE Snapshot(rv)
ListHeld ==
  /\ pc \in {"start", "registering", "registered", "listing"} =>
       listed = {} /\ rvs = None /\ items = Empty
  /\ pc = "watching" => listed = {}
  /\ pc = "adding" \/ (pc = "watching" /\ streamEnd = "none") =>
       /\ rvs \in 0..Len(log) \cup {None}
       /\ listed \cup List = Held(rvs)

(* What is stored under a key is a version of that node.                   *)
StoredEvents ==
  \A key \in StoredKeys(items) :
    /\ items[key] \in [node : Nodes, rv : InLog]
    /\ items[key].node = key /\ log[items[key].rv] = key

(* The list, answered and held, and what is stored.                        *)
LInv == ListAnswer /\ ListHeld /\ StoredEvents

(* Steps that are not the client's leave it as it is.                      *)
LEMMA Outside ==
  ASSUME TInv, Request \/ Service \/ UNCHANGED vars
  PROVE  /\ UNCHANGED <<items, indexers, indices, pc, id, listed, rvs, sw>>
         /\ LogGrows
         /\ InLog \subseteq InLog'
         /\ streamEnd' = "none" => streamEnd = "none"
         /\ pc # "listing" \/ HasAnswer => MissedStays
<1>1. UNCHANGED <<items, indexers, indices, pc, id, listed, rvs, sw>>
  BY DEF Request, Service, vars, serviceVars, storeVars, sessionVars
<1>2. log \in Seq(Nodes) /\ Len(log) \in Nat
  BY DEF TInv, TypeOK, ServiceTypeOK
<1>3. CASE UNCHANGED <<log, deliveries, missed, streamEnd>>
  BY <1>1, <1>3 DEF LogGrows, InLog, MissedStays
<1>4. CASE NodeChanges
  <2>1. PICK n \in Nodes : log' = Append(log, n)
    BY <1>4 DEF NodeChanges
  <2>2. Len(log') = Len(log) + 1
    BY <1>2, <2>1
  <2>3. Len(log) + 1 \notin InLog /\ deliveries' \subseteq deliveries \cup {Len(log) + 1}
        /\ streamEnd' = streamEnd
    BY <1>2, <1>4 DEF NodeChanges, InLog
  <2>4. MissedStays
    BY <1>2, <1>4 DEF NodeChanges, MissedStays
  <2> QED BY <1>1, <1>2, <2>1, <2>2, <2>3, <2>4 DEF LogGrows, InLog
<1>5. CASE /\ log' = log /\ deliveries' \subseteq deliveries
           /\ streamEnd' = streamEnd \/ streamEnd' # "none"
           /\ missed' = missed \/ (pc = "listing" /\ ~HasAnswer)
  BY <1>1, <1>5 DEF LogGrows, InLog, MissedStays
<1>6. ASSUME NEW end \in Ends, StreamEndsWith(end)
      PROVE  log' = log /\ deliveries' \subseteq deliveries /\ streamEnd' # "none"
             /\ missed' = missed
  BY <1>6 DEF StreamEndsWith, Ends
<1>7. CASE Handle
  <2>1. /\ log' = log /\ deliveries' = deliveries
        /\ streamEnd' = streamEnd \/ streamEnd' \in {"opening", "open"}
    BY <1>7 DEF Handle, handleClientRegistration, ResourceHandlerGet, serverWatch, OpenStream
  <2>2. CASE ResourceHandlerGet
    <3>1. Requested("list")
      BY <2>2 DEF ResourceHandlerGet
    <3>2. pc = "listing" /\ ~HasAnswer
      BY <3>1, AskedFor DEF Requested, HasAnswer, TInv, Calling
    <3> QED BY <1>5, <2>1, <3>2
  <2>3. CASE handleClientRegistration \/ serverWatch \/ OpenStream
    <3>1. missed' = missed
      BY <2>3 DEF handleClientRegistration, serverWatch, OpenStream
    <3> QED BY <1>5, <2>1, <3>1
  <2> QED BY <1>7, <2>2, <2>3 DEF Handle
<1>8. CASE Deliver
  BY <1>5, <1>8 DEF Deliver
<1>9. CASE Restart
  BY <1>5, <1>9 DEF Restart
<1>10. CASE Request \/ UNCHANGED vars
  BY <1>3, <1>10 DEF Request, vars, serviceVars
<1> QED BY <1>4, <1>5, <1>6, <1>7, <1>8, <1>9, <1>10 DEF Service

(* The client's steps leave the service as it is.                          *)
LEMMA Inside ==
  ASSUME Client \/ SkipRegistration \/ Stop
  PROVE  /\ UNCHANGED <<log, deliveries, streamEnd, missed, overtaken>>
         /\ LogGrows /\ MissedStays
         /\ InLog' = InLog
<1>1. UNCHANGED <<log, deliveries, streamEnd, missed, overtaken>>
  BY DEF serviceVars, Client, Register, registerClient, ListNodes, listNodes, AddListed,
         WatchNodes, watchNodes, Decode, DecodeFails, Consume, EndOfResults, SkipRegistration, Stop
<1> QED BY <1>1 DEF LogGrows, MissedStays, InLog

(* A whole list stays one while the log grows.                             *)
LEMMA WholeListStays ==
  ASSUME log \in Seq(Nodes), LogGrows, MissedStays, NEW body, WholeList(body)
  PROVE  WholeList(body)'
<1>1. CASE Len(body) = 1
  <2>1. body[1].rvs \in 0..Len(log) /\ body[1].nodes = Snapshot(body[1].rvs)
    BY <1>1 DEF WholeList
  <2>2. PICK rv \in 0..Len(log) : rv = body[1].rvs
    BY <2>1
  <2>3. Snapshot(rv)' = Snapshot(rv) /\ rv \in 0..Len(log')
    BY OldSnapshots, OldVersions
  <2> QED BY <2>1, <2>2, <2>3 DEF WholeList
<1> QED BY <1>1 DEF WholeList

(* Where an answer to a list comes from.                                   *)
LEMMA AnswerSource ==
  ASSUME TInv, [Next]_vars, pc' = "listing", HasAnswer'
  PROVE  \/ Len(call'.answer.body) = 0
         \/ pc = "listing" /\ HasAnswer /\ call'.answer = call.answer
         \/ \E body : body = call'.answer.body /\ WholeList(body)'
<1>1. CASE Request
  <2>1. NothingNew
    BY <1>1, RequestAttempted DEF Request, TInv, TypeOK
  <2>2. pc = "listing"
    BY <1>1, Outside
  <2> QED BY <2>1, <2>2 DEF NothingNew, HasAnswer
<1>2. CASE Service
  <2>1. pc = "listing"
    BY <1>2, Outside
  <2>2. CASE ResourceHandlerGet
    <3>1. PICK answer \in Answers(Document) : Reply(answer) /\ WholeList(answer.body)'
      BY <2>2, ListAnswered DEF TInv, Delivered
    <3>2. call'.answer = answer
      BY <3>1 DEF Reply, TInv, TypeOK, RequestTypeOK
    <3>3. PICK body : body = answer.body
      OBVIOUS
    <3> QED BY <3>1, <3>2, <3>3
  <2>8. CASE OpenStream
    BY <2>1, <2>8 DEF OpenStream, TInv, Unopened
  <2>3. CASE handleClientRegistration \/ serverWatch
    <3>1. Requested("register") \/ Requested("watch")
      BY <2>3 DEF handleClientRegistration, serverWatch
    <3> QED BY <2>1, <3>1 DEF Requested, TInv, Calling
  <2>4. CASE UNCHANGED call
    BY <2>1, <2>4 DEF HasAnswer
  <2>5. CASE Fails("reset")
    BY <2>5, FailsAttempted DEF TInv, TypeOK, HasAnswer, Attempted
  <2>6. CASE Restart
    BY <2>4, <2>5, <2>6 DEF Restart
  <2>7. CASE NodeChanges \/ Deliver \/ \E end \in Ends : StreamEndsWith(end)
    BY <2>4, <2>7 DEF NodeChanges, Deliver, StreamEndsWith
  <2> QED BY <1>2, <2>2, <2>3, <2>6, <2>7, <2>8 DEF Service, Handle
<1>3. CASE ListNodes
  <2>1. PICK limit \in Limits : Begin(Param(Name(NewRequest("list"), id), limit))
    BY <1>3 DEF ListNodes
  <2>2. Param(Name(NewRequest("list"), id), limit).op = "list"
    BY Setters DEF Operations
  <2>3. call'.pc = "do"
    BY <2>1, <2>2 DEF Begin, NoCall
  <2> QED BY <2>3 DEF HasAnswer
<1>4. CASE Client /\ ~ListNodes
  <2>1. UNCHANGED <<pc, call>>
    BY <1>4 DEF Client, Register, registerClient, listNodes, AddListed, WatchNodes, watchNodes,
                Decode, DecodeFails, Consume, EndOfResults
  <2> QED BY <2>1 DEF HasAnswer
<1>5. CASE SkipRegistration \/ Stop
  BY <1>5 DEF SkipRegistration, Stop
<1>6. CASE UNCHANGED vars
  BY <1>6 DEF vars, sessionVars, HasAnswer
<1> QED BY <1>1, <1>2, <1>3, <1>4, <1>5, <1>6 DEF Next

(* The answer of a list stays whole, or empty, until it is taken.          *)
LEMMA NextListAnswer ==
  ASSUME TInv, ListAnswer, [Next]_vars
  PROVE  ListAnswer'
<1> SUFFICES ASSUME pc' = "listing", HasAnswer' PROVE WholeList(call.answer.body)'
  BY DEF ListAnswer
<1>1. LogGrows /\ log \in Seq(Nodes)
  BY Outside, Inside DEF Next, TInv, TypeOK, ServiceTypeOK
<1>2. PICK body : body = call'.answer.body
  OBVIOUS
<1>3. WholeList(body)'
  <2>1. CASE Len(body) = 0
    BY <2>1, NoDocument
  <2>2. CASE pc = "listing" /\ HasAnswer /\ call'.answer = call.answer
    <3>1. WholeList(body)
      BY <1>2, <2>2 DEF ListAnswer
    <3>2. MissedStays
      BY <2>2, Outside, Inside DEF Next
    <3> QED BY <1>1, <3>1, <3>2, WholeListStays
  <2> QED BY <1>2, <2>1, <2>2, AnswerSource
<1> QED BY <1>2, <1>3 DEF WholeList

(* A list has one version of each of its nodes.                            *)
LEMMA SnapshotNodes ==
  ASSUME log \in Seq(Nodes), NEW rv \in 0..Len(log), NEW obj \in Snapshot(rv)
  PROVE  /\ obj = Listed(obj.node, Version(obj.node, rv))
         /\ obj.node \in Nodes /\ obj.rv \in 1..rv /\ log[obj.rv] = obj.node
         /\ obj.rv \notin missed
<1>1. PICK n \in Nodes : /\ Version(n, rv) > 0 /\ obj = Listed(n, Version(n, rv))
                         /\ Version(n, rv) \notin missed
  BY VersionIsLargest DEF Snapshot
<1>2. obj.node = n /\ obj.rv = Version(n, rv)
  BY <1>1 DEF Listed
<1>3. Version(n, rv) \in VersionsOf(n, rv)
  BY <1>1, VersionIsLargest
<1> QED BY <1>1, <1>2, <1>3 DEF VersionsOf

(* What the list still has to put into the store.                          *)
LEMMA ListedNodes ==
  ASSUME TInv, ListHeld, pc = "adding", NEW obj \in listed
  PROVE  /\ rvs \in 0..Len(log) /\ obj \in Snapshot(rvs)
         /\ obj \in [node : Nodes, rv : InLog] /\ log[obj.rv] = obj.node
<1>1. rvs \in 0..Len(log) /\ obj \in Snapshot(rvs)
  BY DEF ListHeld, Held
<1>2. obj.rv \in 1..rvs /\ log[obj.rv] = obj.node
  BY <1>1, SnapshotNodes DEF TInv, TypeOK, ServiceTypeOK
<1>3. deliveries = {}
  BY DEF TInv, Unopened
<1>4. obj.rv \in InLog
  BY <1>1, <1>2, <1>3 DEF InLog, TInv, TypeOK, ServiceTypeOK
<1>5. obj \in [node : Nodes, rv : RVs]
  BY DEF TInv, TypeOK
<1> QED BY <1>1, <1>2, <1>4, <1>5

(* What is stored stays a version of its node while the log grows.         *)
LEMMA KeptEvents ==
  ASSUME TInv, StoredEvents, UNCHANGED items, LogGrows, InLog \subseteq InLog'
  PROVE  StoredEvents'
<1>1. log \in Seq(Nodes)
  BY DEF TInv, TypeOK, ServiceTypeOK
<1>2. \A rv \in InLog : log'[rv] = log[rv]
  BY <1>1 DEF LogGrows, InLog
<1> SUFFICES ASSUME NEW key \in StoredKeys(items)
             PROVE  /\ items[key] \in [node : Nodes, rv : InLog']
                    /\ items[key].node = key /\ log'[items[key].rv] = key
  BY DEF StoredEvents, StoredKeys
<1>3. /\ items[key] \in [node : Nodes, rv : InLog]
      /\ items[key].node = key /\ log[items[key].rv] = key
  BY DEF StoredEvents
<1> QED BY <1>2, <1>3

(* A version of a node is put into the store.                              *)
LEMMA PutEvent ==
  ASSUME TInv, StoredEvents, UNCHANGED <<log, deliveries>>,
         NEW obj \in [node : Nodes, rv : InLog], log[obj.rv] = obj.node, Put(obj)
  PROVE  StoredEvents' /\ items' = [items EXCEPT ![obj.node] = obj] /\ obj.node \in Keys
<1>1. InLog \subseteq RVs
  BY RequestAssumption DEF InLog, RVs, TInv, TypeOK, ServiceTypeOK
<1>2. obj \in [node : Nodes, rv : RVs]
  BY <1>1
<1>3. obj.node \in Keys /\ items' = [items EXCEPT ![obj.node] = obj]
  BY <1>2, PutNode DEF TInv, TypeOK
<1>4. items \in [Keys -> Objects \cup {NoObject}]
  BY DEF TInv, TypeOK, StoreTypeOK
<1>5. InLog' = InLog
  BY DEF InLog
<1>6. \A key \in Keys : items'[key] = IF key = obj.node THEN obj ELSE items[key]
  BY <1>3, <1>4
<1> SUFFICES ASSUME NEW key \in StoredKeys(items)'
             PROVE  /\ items'[key] \in [node : Nodes, rv : InLog]
                    /\ items'[key].node = key /\ log[items'[key].rv] = key
  BY <1>3, <1>5 DEF StoredEvents
<1>7. key \in Keys /\ items'[key] # NoObject
  BY DEF StoredKeys
<1>8. CASE key = obj.node
  BY <1>6, <1>7, <1>8
<1>9. CASE key # obj.node
  BY <1>6, <1>7, <1>9 DEF StoredEvents, StoredKeys
<1> QED BY <1>8, <1>9

(* No step stores anything but versions of nodes.                          *)
LEMMA NextStoredEvents ==
  ASSUME TInv, ListHeld, StoredEvents, [Next]_vars
  PROVE  StoredEvents'
<1>1. CASE Request \/ Service \/ UNCHANGED vars
  BY <1>1, Outside, KeptEvents
<1>2. CASE AddListed
  <2>1. PICK obj \in listed : Put(obj)
    BY <1>2 DEF AddListed, Add
  <2>2. pc = "adding" /\ UNCHANGED <<log, deliveries>>
    BY <1>2 DEF AddListed, serviceVars
  <2> QED BY <2>1, <2>2, ListedNodes, PutEvent
<1>3. CASE Consume
  <2>1. UNCHANGED <<log, deliveries>>
    BY <1>3 DEF Consume, serviceVars
  <2>2. CASE sw.event = ErrorEvent
    <3>1. UNCHANGED items
      BY <1>3, <2>2 DEF Consume, storeVars
    <3> QED BY <2>1, <3>1, KeptEvents DEF LogGrows, InLog
  <2>3. CASE sw.event # ErrorEvent
    <3>1. sw.event \in InLog
      BY <2>3 DEF TInv, Delivered
    <3> DEFINE obj == Listed(log[sw.event], sw.event)
    <3>2. Put(obj) /\ obj \in [node : Nodes, rv : RVs]
      BY <1>3, <2>3, <3>1, EventNode DEF Consume
    <3>3. obj.rv = sw.event /\ obj.node = log[sw.event]
      BY DEF Listed
    <3> HIDE DEF obj
    <3>4. obj \in [node : Nodes, rv : InLog]
      BY <3>1, <3>2, <3>3
    <3> QED BY <2>1, <3>2, <3>3, <3>4, PutEvent
  <2> QED BY <2>2, <2>3
<1>4. CASE (Client \/ SkipRegistration \/ Stop) /\ ~AddListed /\ ~Consume
  <2>1. UNCHANGED items
    BY <1>4 DEF Client, Register, registerClient, ListNodes, listNodes, WatchNodes, watchNodes,
                Decode, DecodeFails, EndOfResults, SkipRegistration, Stop, storeVars
  <2> QED BY <1>4, <2>1, Inside, KeptEvents
<1> QED BY <1>1, <1>2, <1>3, <1>4 DEF Next

(* What the list showed does not change while the log grows.               *)
LEMMA HeldStays ==
  ASSUME log \in Seq(Nodes), LogGrows, MissedStays, NEW rv \in 0..Len(log) \cup {None}
  PROVE  Held(rv)' = Held(rv) /\ rv \in 0..Len(log') \cup {None}
BY OldSnapshots, OldVersions DEF Held

(* A node of the list goes from the list into the store.                   *)
LEMMA AddKeepsHeld ==
  ASSUME TInv, ListHeld, StoredEvents, AddListed
  PROVE  listed' \cup List' = listed \cup List
<1>1. PICK obj \in listed : Put(obj) /\ listed' = listed \ {obj}
  BY DEF AddListed, Add
<1>2. pc = "adding" /\ UNCHANGED <<log, deliveries>>
  BY DEF AddListed, serviceVars
<1>3. /\ rvs \in 0..Len(log) /\ obj \in Snapshot(rvs) /\ obj \in [node : Nodes, rv : InLog]
      /\ log[obj.rv] = obj.node
  BY <1>2, ListedNodes
<1>4. obj.node \in Keys /\ items' = [items EXCEPT ![obj.node] = obj]
  BY <1>1, <1>2, <1>3, PutEvent
<1>5. items \in [Keys -> Objects \cup {NoObject}] /\ log \in Seq(Nodes)
  BY DEF TInv, TypeOK, StoreTypeOK, ServiceTypeOK
<1>6. obj # NoObject
  BY <1>1, SessionAssumption, CacheAssumption DEF TInv, TypeOK
<1>7. listed \cup List = Snapshot(rvs)
  <2>1. rvs # None
    BY <1>3, RequestAssumption
  <2> QED BY <1>2, <2>1 DEF ListHeld, Held
<1>8. items[obj.node] = NoObject \/ items[obj.node] = obj
  <2> SUFFICES ASSUME items[obj.node] # NoObject PROVE items[obj.node] = obj
    OBVIOUS
  <2>1. items[obj.node] \in List /\ items[obj.node].node = obj.node
    BY <1>4 DEF List, StoredKeys, StoredEvents
  <2>2. items[obj.node] \in Snapshot(rvs)
    BY <1>7, <2>1
  <2> QED BY <1>3, <1>5, <2>1, <2>2, SnapshotNodes
<1>9. List' = List \cup {obj}
  <2>1. \A key \in Keys : items'[key] = IF key = obj.node THEN obj ELSE items[key]
    BY <1>4, <1>5
  <2>2. StoredKeys(items') = StoredKeys(items) \cup {obj.node}
    BY <1>4, <1>6, <2>1 DEF StoredKeys
  <2>3. \A key \in StoredKeys(items) : items'[key] = items[key]
    BY <1>8, <2>1 DEF StoredKeys
  <2>4. List' = {items'[key] : key \in StoredKeys(items')}
    BY DEF List
  <2>5. items'[obj.node] = obj
    BY <1>4, <2>1
  <2> QED BY <2>2, <2>3, <2>4, <2>5 DEF List
<1> QED BY <1>1, <1>9

(* Nothing is listed from an empty store.                                  *)
LEMMA NothingStored == items = Empty => List = {}
BY DEF Empty, List, StoredKeys

(* List and store together hold the list until it was added.               *)
LEMMA NextListHeld ==
  ASSUME TInv, LInv, [Next]_vars
  PROVE  ListHeld'
<1> USE DEF LInv
<1>1. log \in Seq(Nodes)
  BY DEF TInv, TypeOK, ServiceTypeOK
<1>2. CASE Request \/ Service \/ UNCHANGED vars
  <2>1. /\ UNCHANGED <<items, pc, listed, rvs>> /\ LogGrows
        /\ streamEnd' = "none" => streamEnd = "none"
    BY <1>2, Outside
  <2>2. List' = List
    BY <2>1 DEF List, StoredKeys
  <2>3. CASE pc = "adding" \/ (pc = "watching" /\ streamEnd = "none")
    <3>1. rvs \in 0..Len(log) \cup {None} /\ listed \cup List = Held(rvs)
      BY <2>3 DEF ListHeld
    <3>2. PICK rv \in 0..Len(log) \cup {None} : rv = rvs
      BY <3>1
    <3>a. MissedStays
      BY <1>2, <2>3, Outside
    <3>3. Held(rv)' = Held(rv) /\ rv \in 0..Len(log') \cup {None}
      BY <1>1, <2>1, <3>a, HeldStays
    <3>4. Held(rvs)' = Held(rv)'
      BY <2>1, <3>2 DEF Held
    <3>5. listed' \cup List' = Held(rvs)' /\ rvs' \in 0..Len(log') \cup {None}
      BY <2>1, <2>2, <3>1, <3>2, <3>3, <3>4
    <3> QED BY <2>1, <2>3, <3>5 DEF ListHeld
  <2>4. CASE ~(pc = "adding" \/ (pc = "watching" /\ streamEnd = "none"))
    BY <2>1, <2>4 DEF ListHeld
  <2> QED BY <2>3, <2>4
<1>3. CASE Register \/ registerClient \/ SkipRegistration \/ ListNodes
  <2>1. /\ UNCHANGED <<items, listed, rvs>>
        /\ pc \in {"start", "registering", "registered"}
        /\ pc' \in {"registering", "registered", "listing", "exited"}
    BY <1>3 DEF Register, registerClient, SkipRegistration, ListNodes, storeVars
  <2> QED BY <2>1 DEF ListHeld
<1>4. CASE listNodes
  <2>1. pc = "listing" /\ call.pc = "over" /\ UNCHANGED items
        /\ pc' = IF call.err THEN "exited" ELSE "adding"
    BY <1>4 DEF listNodes, storeVars
  <2>2. listed = {} /\ rvs = None /\ List' = {}
    BY <2>1, NothingStored DEF ListHeld, List, StoredKeys, Empty
  <2>3. UNCHANGED <<log, missed>>
    BY <1>4 DEF listNodes, serviceVars
  <2>4. CASE call.err
    BY <2>1, <2>4 DEF ListHeld
  <2>5. CASE ~call.err /\ UNCHANGED <<listed, rvs>>
    BY <2>1, <2>2, <2>5 DEF ListHeld, Held
  <2>6. CASE /\ ~call.err /\ Len(call.answer.body) = 1
             /\ listed' = call.answer.body[1].nodes /\ rvs' = call.answer.body[1].rvs
    <3>1. WholeList(call.answer.body)
      BY <2>1, <2>6 DEF ListAnswer, HasAnswer
    <3>2. rvs' \in 0..Len(log) /\ listed' = Snapshot(rvs')
      BY <2>6, <3>1 DEF WholeList
    <3>3. rvs' # None
      BY <3>2, <1>1, RequestAssumption
    <3>4. Snapshot(rvs)' = Snapshot(rvs')
      BY <2>3 DEF Snapshot, Version, VersionsOf
    <3>5. listed' \cup List' = Held(rvs)' /\ rvs' \in 0..Len(log')
      BY <2>2, <2>3, <3>2, <3>3, <3>4 DEF Held
    <3> QED BY <2>1, <2>6, <3>5 DEF ListHeld
  <2> QED BY <1>4, <2>4, <2>5, <2>6 DEF listNodes, Unmarshalled
<1>5. CASE AddListed
  <2>1. pc = "adding" /\ UNCHANGED <<pc, rvs, log, missed>>
    BY <1>5 DEF AddListed, serviceVars
  <2>2. Held(rvs)' = Held(rvs)
    BY <2>1 DEF Held, Snapshot, Version, VersionsOf
  <2> QED BY <1>5, <2>1, <2>2, AddKeepsHeld DEF ListHeld
<1>6. CASE WatchNodes
  <2>1. pc = "adding" /\ listed = {} /\ pc' = "watching" /\ UNCHANGED <<listed, rvs, log, missed, items>>
    BY <1>6 DEF WatchNodes, serviceVars, storeVars
  <2>2. Held(rvs)' = Held(rvs) /\ List' = List
    BY <2>1 DEF Held, Snapshot, Version, VersionsOf, List, StoredKeys
  <2> QED BY <2>1, <2>2 DEF ListHeld
<1>7. CASE watchNodes \/ Consume \/ EndOfResults \/ Stop
  <2>1. pc' \in {"crashed", "consuming", "done"}
    BY <1>7 DEF watchNodes, Consume, EndOfResults, Stop
  <2> QED BY <2>1 DEF ListHeld
<1>8. CASE Decode \/ DecodeFails
  <2>1. sw.pc = "decode" /\ UNCHANGED pc
    BY <1>8 DEF Decode, DecodeFails
  <2>2. pc \notin {"start", "registering", "registered", "listing", "adding", "watching"}
    BY <2>1 DEF TInv, Unopened, NoWatcher
  <2> QED BY <2>1, <2>2 DEF ListHeld
<1> QED BY <1>2, <1>3, <1>4, <1>5, <1>6, <1>7, <1>8 DEF Next, Client

(* There is no list yet.                                                   *)
LEMMA InitLInv == Init => LInv
BY DEF Init, SessionInit, NewStore, NewIndexer, LInv, ListAnswer, ListHeld, StoredEvents, Empty,
       StoredKeys

(* The list's invariant is kept by every step.                             *)
LEMMA NextLInv == TInv /\ LInv /\ [Next]_vars => LInv'
BY NextListAnswer, NextListHeld, NextStoredEvents DEF LInv

(* A client's list is the service's at the versions that came with it, or  *)
(* empty: whatever broke, and into however many documents it was cut.  What*)
(* may be missing is in the chunks that the service could not marshal.     *)
THEOREM ListIsWhole == Spec => []ListAllOrNothing
<1>1. TInv /\ LInv => ListAllOrNothing
  BY DEF LInv, ListHeld, ListAllOrNothing, Held, Snapshot
<1> QED BY InitTInv, NextTInv, InitLInv, NextLInv, <1>1, PTL DEF Spec

-----------------------------------------------------------------------------
(* The mirror.                                                             *)

(* The versions on their way to the client.                                *)
Arriving(v) == (sw.pc = "send" /\ sw.event = v) \/ \E i \in DOMAIN stream : stream[i] = v

(* Of a node no event of which was overtaken, the versions on their way are*)
(* newer than the client's, and in order.  While the stream is open, every *)
(* newer version is on its way, but for those whose goroutine has yet to   *)
(* deliver them, and those up to one that was missed.                      *)
Skipped(v) == \E m \in missed : log[m] = log[v] /\ v <= m
NewerArrive(n) ==
  \A v \in InLog : log[v] = n /\ Current(n) < v => Arriving(v) \/ Skipped(v)
ArrivingIsNewer(n) == \A v \in InLog : log[v] = n /\ Arriving(v) => Current(n) < v
Ordered(n) ==
  \A j \in DOMAIN stream : log[stream[j]] = n =>
    /\ \A i \in 1..(j - 1) : log[stream[i]] = n => stream[i] < stream[j]
    /\ sw.pc = "send" /\ sw.event # ErrorEvent /\ log[sw.event] = n => sw.event < stream[j]
InTurn(n) == ArrivingIsNewer(n) /\ Ordered(n)

AllInTurn == \A n \in Nodes \ overtaken : InTurn(n)
Mirroring == streamEnd \in {"opening", "open"} => \A n \in Nodes \ overtaken : NewerArrive(n)

(* What is on the stream, or being handed on, is in the log.               *)
LEMMA StreamIndices ==
  TInv => /\ stream \in Seq(RVs) /\ DOMAIN stream = 1..Len(stream) /\ Len(stream) \in Nat
          /\ \A i \in DOMAIN stream : stream[i] \in InLog
          /\ InLog \subseteq Nat \ {0}
          /\ sw.event # ErrorEvent => sw.event \in InLog
BY DEF TInv, TypeOK, ServiceTypeOK, Delivered, InLog

(* A node's current version is in the log under its name.                  *)
LEMMA CurrentIs ==
  ASSUME TInv, StoredEvents, NEW n \in Nodes
  PROVE  Current(n) = 0 \/ (Current(n) \in InLog /\ log[Current(n)] = n)
<1>1. n \in Keys
  BY SessionAssumption
<1> QED BY <1>1 DEF Current, StoredEvents, StoredKeys

(* What is on its way is in the log and has been delivered.                *)
LEMMA ArrivingInLog == TInv => \A v : Arriving(v) /\ v # ErrorEvent => v \in InLog
BY StreamIndices DEF Arriving

(* Neither what is stored nor what is on its way changes.                  *)
LEMMA InTurnStays ==
  ASSUME TInv, NEW n, InTurn(n), UNCHANGED <<items, stream>>,
         sw'.pc = "send" /\ sw'.event # ErrorEvent => sw.pc = "send" /\ sw.event = sw'.event,
         InLog \subseteq InLog', ErrorEvent \notin InLog', \A v \in InLog : log'[v] = log[v]
  PROVE  InTurn(n)'
<1>1. \A v \in InLog' : Arriving(v)' => Arriving(v) /\ v \in InLog
  <2>1. \A v \in InLog' : Arriving(v)' => Arriving(v)
    BY DEF Arriving
  <2> QED BY <2>1, ArrivingInLog
<1>2. Current(n)' = Current(n)
  BY DEF Current
<1>3. ArrivingIsNewer(n)'
  BY <1>1, <1>2 DEF InTurn, ArrivingIsNewer
<1>4. Ordered(n)'
  <2> SUFFICES ASSUME NEW j \in DOMAIN stream, log'[stream[j]] = n
               PROVE  /\ \A i \in 1..(j - 1) : log'[stream[i]] = n => stream[i] < stream[j]
                      /\ sw'.pc = "send" /\ sw'.event # ErrorEvent /\ log'[sw'.event] = n
                           => sw'.event < stream[j]
    BY DEF Ordered
  <2>1. log[stream[j]] = n
    BY StreamIndices
  <2>2. \A i \in 1..(j - 1) : i \in DOMAIN stream
    BY StreamIndices
  <2>3. \A i \in 1..(j - 1) : log'[stream[i]] = n => stream[i] < stream[j]
    BY <2>1, <2>2, StreamIndices DEF InTurn, Ordered
  <2>4. sw'.pc = "send" /\ sw'.event # ErrorEvent /\ log'[sw'.event] = n => sw'.event < stream[j]
    BY <2>1, StreamIndices DEF InTurn, Ordered
  <2> QED BY <2>3, <2>4
<1> QED BY <1>3, <1>4 DEF InTurn

(* If the log has no news either, nothing newer is missing.                *)
LEMMA NewerStays ==
  ASSUME TInv, NEW n, NewerArrive(n), UNCHANGED <<items, stream>>,
         sw'.event = sw.event, sw'.pc = "send" <=> sw.pc = "send",
         missed \subseteq missed', \A v \in 1..Len(log) : log'[v] = log[v],
         \A v \in InLog' : v \in InLog \/ v \in missed'
  PROVE  NewerArrive(n)'
<1>1. \A v \in InLog : Arriving(v)' <=> Arriving(v)
  BY DEF Arriving
<1>2. Current(n)' = Current(n)
  BY DEF Current
<1>3. \A v \in InLog : log'[v] = log[v] /\ (Skipped(v) => Skipped(v)')
  BY DEF Skipped, TInv, Delivered, InLog
<1>4. \A v \in InLog' : v \in missed' => Skipped(v)'
  BY DEF Skipped, InLog
<1> QED BY <1>1, <1>2, <1>3, <1>4 DEF NewerArrive

(* The stream begins with everything since the list.                       *)
LEMMA StreamOpens ==
  ASSUME TInv, LInv, serverWatch, UNCHANGED <<items, sw>>, streamEnd' = "opening",
         NEW n \in Nodes
  PROVE  InTurn(n)' /\ NewerArrive(n)'
<1>1. Requested("watch") /\ UNCHANGED <<log, deliveries, missed>>
  BY DEF serverWatch
<1>2. /\ pc = "watching" /\ sw = NoWatcher /\ streamEnd = "none" /\ deliveries = {}
      /\ call.request.rvs = rvs
  BY <1>1, AskedFor
<1>3. stream' = Replay(rvs) /\ rvs # None
  BY <1>2 DEF serverWatch, Accepted
<1>4. rvs \in 0..Len(log) /\ List = Snapshot(rvs)
  BY <1>2, <1>3 DEF LInv, ListHeld, Held
<1>5. log \in Seq(Nodes) /\ Len(log) \in Nat
  BY DEF TInv, TypeOK, ServiceTypeOK
<1>6. /\ DOMAIN stream' = 1..(Len(log) - rvs)
      /\ \A i \in 1..(Len(log) - rvs) : stream'[i] = rvs + i
  <2>1. rvs \in Nat /\ rvs <= Len(log)
    BY <1>4, <1>5
  <2>2. LET len == IF rvs <= Len(log) THEN Len(log) - rvs ELSE 0 IN
        DOMAIN Replay(rvs) = 1..len /\ \A i \in 1..len : Replay(rvs)[i] = rvs + i
    BY <1>5, <2>1, ReplayIs, Zenon
  <2>3. (IF rvs <= Len(log) THEN Len(log) - rvs ELSE 0) = Len(log) - rvs
    BY <2>1
  <2> QED BY <1>3, <2>2, <2>3
<1>7. InLog' = 1..Len(log)
  BY <1>1, <1>2 DEF InLog
<1>8. \A v \in 1..Len(log) : Arriving(v)' <=> rvs < v
  <2>1. ASSUME NEW v \in 1..Len(log), rvs < v PROVE Arriving(v)'
    <3>1. v - rvs \in 1..(Len(log) - rvs) /\ rvs + (v - rvs) = v
      BY <1>4, <1>5, <2>1
    <3> QED BY <1>6, <3>1 DEF Arriving
  <2>2. ASSUME NEW v \in 1..Len(log), Arriving(v)' PROVE rvs < v
    BY <1>2, <1>4, <1>5, <1>6, <2>2 DEF Arriving, NoWatcher
  <2> QED BY <2>1, <2>2
<1> DEFINE V == Version(n, rvs)
<1>a. V \in 0..rvs /\ (V > 0 => V \in VersionsOf(n, rvs)) /\ \A i \in VersionsOf(n, rvs) : i <= V
  BY <1>4, VersionIsLargest
<1>9. Current(n)' = IF V \in missed THEN 0 ELSE V
  <2>1. n \in Keys /\ Current(n)' = Current(n)
    BY SessionAssumption DEF Current
  <2>2. CASE items[n] = NoObject
    <3>1. CASE V \notin missed \cup {0}
      <4>1. Listed(n, V) \in List
        BY <1>4, <3>1 DEF Snapshot
      <4>2. PICK key \in StoredKeys(items) : items[key] = Listed(n, V)
        BY <4>1 DEF List
      <4>3. key = n
        BY <4>2 DEF LInv, StoredEvents, Listed
      <4> QED BY <2>2, <4>2, <4>3 DEF StoredKeys
    <3>2. CASE V \in missed \cup {0}
      BY <2>1, <2>2, <3>2 DEF Current
    <3> QED BY <3>1, <3>2
  <2>3. CASE items[n] # NoObject
    <3>1. items[n] \in Snapshot(rvs) /\ items[n].node = n
      BY <1>4, <2>1, <2>3 DEF List, StoredKeys, LInv, StoredEvents
    <3>2. items[n] = Listed(n, V) /\ items[n].rv \notin missed
      BY <1>4, <1>5, <3>1, SnapshotNodes
    <3> QED BY <2>1, <2>3, <3>2 DEF Current, Listed
  <2> QED BY <2>2, <2>3
<1>10. \A v \in 1..Len(log) : log[v] = n /\ v <= rvs => v <= V
  BY <1>4, <1>5, <1>a DEF VersionsOf
<1>11. NewerArrive(n)' /\ ArrivingIsNewer(n)'
  <2>1. ASSUME NEW v \in 1..Len(log), log[v] = n, Current(n)' < v, ~(rvs < v)
        PROVE  Skipped(v)'
    <3>1. v <= V /\ V > 0 /\ V \in Int
      BY <1>4, <1>5, <1>10, <1>a, <2>1
    <3>2. V \in missed
      BY <1>9, <2>1, <3>1
    <3>3. log[V] = n
      BY <1>a, <3>1 DEF VersionsOf
    <3> HIDE DEF V
    <3> QED BY <1>1, <2>1, <3>1, <3>2, <3>3 DEF Skipped
  <2>2. NewerArrive(n)'
    BY <1>1, <1>7, <1>8, <2>1 DEF NewerArrive
  <2>3. Current(n)' \in Int /\ Current(n)' <= rvs
    BY <1>4, <1>5, <1>9, <1>a
  <2>4. ArrivingIsNewer(n)'
    BY <1>1, <1>4, <1>5, <1>7, <1>8, <2>3 DEF ArrivingIsNewer
  <2> QED BY <2>2, <2>4
<1>12. Ordered(n)'
  BY <1>2, <1>4, <1>5, <1>6 DEF Ordered, NoWatcher
<1> QED BY <1>11, <1>12 DEF InTurn

(* An event that is delivered is the newest yet of its node, unless the    *)
(* node is overtaken.                                                      *)
LEMMA DeliveryMirrored ==
  ASSUME TInv, StoredEvents, AllInTurn, Mirroring, Deliver, UNCHANGED <<items, sw>>,
         NEW n \in Nodes \ overtaken'
  PROVE  InTurn(n)' /\ NewerArrive(n)'
<1>1. PICK v \in deliveries :
        /\ stream' = Append(stream, v)
        /\ deliveries' = deliveries \ {v}
        /\ overtaken' = overtaken \cup {m \in {log[v]} :
                          \E newer \in Since(v) \ deliveries : log[newer] = m}
  BY DEF Deliver
<1>2. streamEnd = "open" /\ UNCHANGED <<log, missed>> /\ n \in Nodes \ overtaken
  BY <1>1 DEF Deliver
<1>3. InTurn(n) /\ NewerArrive(n)
  BY <1>2 DEF Mirroring, AllInTurn
<1>4. v \in 1..Len(log) /\ v \notin InLog /\ InLog' = InLog \cup {v} /\ v \in Nat
  BY <1>1, <1>2 DEF TInv, Delivered, InLog
<1>5. ASSUME NEW w \in InLog, log[w] = n, log[v] = n
      PROVE  w < v
  <2>1. ~(\E newer \in Since(v) \ deliveries : log[newer] = n)
    BY <1>1, <1>5
  <2>2. w \in 1..Len(log) /\ w \notin deliveries
    BY DEF InLog
  <2>3. ~(w > v)
    BY <1>5, <2>1, <2>2 DEF Since
  <2> QED BY <1>4, <2>2, <2>3
<1>6. /\ stream \in Seq(RVs) /\ Len(stream) \in Nat /\ DOMAIN stream = 1..Len(stream)
      /\ DOMAIN stream' = 1..(Len(stream) + 1) /\ stream'[Len(stream) + 1] = v
      /\ \A i \in 1..Len(stream) : stream'[i] = stream[i]
  BY <1>1, StreamIndices
<1>7. \A w \in InLog' : Arriving(w)' <=> Arriving(w) \/ w = v
  <2>1. \A w : (\E i \in DOMAIN stream' : stream'[i] = w) <=>
                  (\E i \in DOMAIN stream : stream[i] = w) \/ w = v
    BY <1>6
  <2> QED BY <2>1 DEF Arriving
<1>8. Current(n)' = Current(n)
  BY DEF Current
<1>9. log[v] = n => Current(n) < v
  BY <1>4, <1>5, CurrentIs
<1>10. NewerArrive(n)'
  BY <1>2, <1>3, <1>4, <1>7, <1>8 DEF NewerArrive, Skipped
<1>11. ArrivingIsNewer(n)'
  BY <1>2, <1>3, <1>4, <1>7, <1>8, <1>9 DEF InTurn, ArrivingIsNewer
<1>12. Ordered(n)'
  <2> SUFFICES ASSUME NEW j \in 1..(Len(stream) + 1), log[stream'[j]] = n
               PROVE  /\ \A i \in 1..(j - 1) : log[stream'[i]] = n => stream'[i] < stream'[j]
                      /\ sw.pc = "send" /\ sw.event # ErrorEvent /\ log[sw.event] = n
                           => sw.event < stream'[j]
    BY <1>2, <1>6 DEF Ordered
  <2>1. CASE j = Len(stream) + 1
    <3>1. stream'[j] = v /\ log[v] = n
      BY <1>6, <2>1
    <3>2. \A i \in 1..(j - 1) : stream'[i] = stream[i] /\ stream[i] \in InLog
      BY <1>6, <2>1, StreamIndices
    <3> QED BY <1>5, <3>1, <3>2, StreamIndices
  <2>2. CASE j # Len(stream) + 1
    <3>1. j \in 1..Len(stream) /\ stream'[j] = stream[j]
      BY <1>6, <2>2
    <3>2. \A i \in 1..(j - 1) : stream'[i] = stream[i]
      BY <1>6, <3>1
    <3> QED BY <1>3, <1>6, <3>1, <3>2 DEF InTurn, Ordered
  <2> QED BY <2>1, <2>2
<1> QED BY <1>10, <1>11, <1>12 DEF InTurn

(* An event goes from the stream to the watcher.                           *)
LEMMA DecodeMirrored ==
  ASSUME TInv, Decode, NEW n, InTurn(n)
  PROVE  InTurn(n)' /\ (NewerArrive(n) => NewerArrive(n)')
<1>1. /\ sw.pc = "decode" /\ stream # <<>>
      /\ sw' = [sw EXCEPT !.pc = "send", !.event = Head(stream)]
      /\ stream' = Tail(stream) /\ UNCHANGED <<items, log, deliveries, missed>>
  BY DEF Decode, storeVars
<1>2. sw'.pc = "send" /\ sw'.event = Head(stream)
  BY <1>1 DEF TInv, TypeOK
<1>3. /\ stream \in Seq(RVs) /\ Len(stream) \in Nat /\ Head(stream) = stream[1]
      /\ DOMAIN stream = 1..Len(stream) /\ DOMAIN stream' = 1..(Len(stream) - 1)
      /\ \A i \in 1..(Len(stream) - 1) : stream'[i] = stream[i + 1]
      /\ Len(stream) >= 1
  BY <1>1, StreamIndices
<1>4. InLog' = InLog /\ Current(n)' = Current(n)
  BY <1>1 DEF InLog, Current
<1>5. \A v : Arriving(v)' <=> Arriving(v)
  <2>1. \A v : (\E i \in DOMAIN stream : stream[i] = v) <=>
                 v = Head(stream) \/ \E i \in DOMAIN stream' : stream'[i] = v
    <3> SUFFICES ASSUME NEW v
                 PROVE  (\E i \in DOMAIN stream : stream[i] = v) <=>
                          v = Head(stream) \/ \E i \in DOMAIN stream' : stream'[i] = v
      OBVIOUS
    <3>1. ASSUME NEW i \in DOMAIN stream, stream[i] = v
          PROVE  v = Head(stream) \/ \E k \in DOMAIN stream' : stream'[k] = v
      <4>1. CASE i = 1
        BY <1>3, <3>1, <4>1
      <4>2. CASE i # 1
        <5>1. i - 1 \in DOMAIN stream' /\ stream'[i - 1] = v
          BY <1>3, <3>1, <4>2
        <5> QED BY <5>1
      <4> QED BY <4>1, <4>2
    <3>2. ASSUME NEW i \in DOMAIN stream', stream'[i] = v
          PROVE  \E k \in DOMAIN stream : stream[k] = v
      <4>1. i + 1 \in DOMAIN stream /\ stream[i + 1] = v
        BY <1>3, <3>2
      <4> QED BY <4>1
    <3>3. 1 \in DOMAIN stream
      BY <1>3
    <3> QED BY <1>3, <3>1, <3>2, <3>3
  <2> QED BY <1>1, <1>2, <2>1 DEF Arriving
<1>6. (NewerArrive(n) => NewerArrive(n)') /\ ArrivingIsNewer(n)'
  BY <1>1, <1>4, <1>5 DEF InTurn, NewerArrive, ArrivingIsNewer, Skipped
<1>7. Ordered(n)'
  <2> SUFFICES ASSUME NEW j \in 1..(Len(stream) - 1), log[stream[j + 1]] = n
               PROVE  /\ \A i \in 1..(j - 1) : log[stream'[i]] = n => stream'[i] < stream[j + 1]
                      /\ log[stream[1]] = n => stream[1] < stream[j + 1]
    BY <1>1, <1>2, <1>3 DEF Ordered
  <2>1. j + 1 \in DOMAIN stream
    BY <1>3
  <2>2. \A i \in 1..j : log[stream[i]] = n => stream[i] < stream[j + 1]
    BY <2>1 DEF InTurn, Ordered
  <2>3. \A i \in 1..(j - 1) : stream'[i] = stream[i + 1] /\ i + 1 \in 1..j
    BY <1>3
  <2>4. 1 \in 1..j
    OBVIOUS
  <2> QED BY <2>2, <2>3, <2>4
<1> QED BY <1>6, <1>7 DEF InTurn

(* The program stores the event the watcher sends, whatever it has.        *)
LEMMA Consumed ==
  ASSUME TInv, Consume, sw.event # ErrorEvent
  PROVE  /\ sw.pc = "send" /\ sw.event \in InLog
         /\ \A n \in Nodes :
              IF n = log[sw.event] THEN Current(n)' = sw.event
              ELSE items'[n] = items[n] /\ Current(n)' = Current(n)
<1> DEFINE v == sw.event
           obj == Listed(log[v], v)
<1>1. sw.pc = "send" /\ v \in InLog
  BY DEF Consume, TInv, Delivered
<1>2. obj \in [node : Nodes, rv : RVs] /\ Put(obj)
  BY <1>1, EventNode DEF Consume
<1>3. log[v] \in Keys /\ items' = [items EXCEPT ![log[v]] = obj] /\ obj.node = log[v]
      /\ obj.rv = v /\ obj # NoObject
  BY <1>2, PutNode, SessionAssumption, CacheAssumption DEF TInv, TypeOK, Listed
<1>4. items \in [Keys -> Objects \cup {NoObject}] /\ \A n \in Nodes : n \in Keys
  BY SessionAssumption DEF TInv, TypeOK, StoreTypeOK
<1> HIDE DEF obj
<1>5. \A n \in Nodes : IF n = log[v] THEN Current(n)' = v
                       ELSE items'[n] = items[n] /\ Current(n)' = Current(n)
  BY <1>3, <1>4 DEF Current
<1> QED BY <1>1, <1>5

(* What is stored was arriving, so that it is newer.                       *)
LEMMA ConsumeMirrored ==
  ASSUME TInv, StoredEvents, Consume, NEW n \in Nodes, InTurn(n)
  PROVE  InTurn(n)' /\ (NewerArrive(n) => NewerArrive(n)')
<1>1. /\ sw.pc = "send" /\ UNCHANGED <<log, deliveries, stream, missed>> /\ InLog' = InLog
      /\ sw' = [sw EXCEPT !.pc = IF sw.event = ErrorEvent THEN "closed" ELSE "decode"]
  BY DEF Consume, serviceVars, InLog
<1>2. sw'.event = sw.event /\ sw'.pc # "send"
  BY <1>1 DEF TInv, TypeOK
<1>a. \A w : Arriving(w)' <=> \E i \in DOMAIN stream : stream[i] = w
  BY <1>1, <1>2 DEF Arriving
<1>b. \A w : Arriving(w) <=> w = sw.event \/ \E i \in DOMAIN stream : stream[i] = w
  BY <1>1 DEF Arriving
<1>c. Ordered(n)'
  BY <1>1, <1>2 DEF InTurn, Ordered
<1>3. CASE sw.event = ErrorEvent
  <2>1. Current(n)' = Current(n)
    BY <1>3 DEF Consume, storeVars, Current
  <2>2. \A w \in InLog : Arriving(w)' <=> Arriving(w)
    BY <1>3, <1>a, <1>b, StreamIndices DEF ErrorEvent
  <2> QED BY <1>1, <1>c, <2>1, <2>2 DEF InTurn, NewerArrive, ArrivingIsNewer, Skipped
<1>4. CASE sw.event # ErrorEvent
  <2> DEFINE v == sw.event
  <2>1. v \in InLog
    BY <1>4, Consumed
  <2>2. IF n = log[v] THEN Current(n)' = v ELSE Current(n)' = Current(n)
    BY <1>4, Consumed
  <2>3. CASE log[v] # n
    BY <1>1, <1>a, <1>b, <1>c, <2>2, <2>3 DEF InTurn, NewerArrive, ArrivingIsNewer, Skipped
  <2>4. CASE log[v] = n
    <3>1. Current(n) < v /\ Current(n) \in Nat /\ v \in Nat
      BY <1>b, <2>1, <2>4, CurrentIs, StreamIndices DEF InTurn, ArrivingIsNewer
    <3>2. ASSUME NewerArrive(n) PROVE NewerArrive(n)'
      <4> SUFFICES ASSUME NEW w \in InLog, log[w] = n, v < w
                   PROVE  (\E i \in DOMAIN stream : stream[i] = w) \/ Skipped(w)
        BY <1>1, <1>a, <2>2, <2>4 DEF NewerArrive, Skipped
      <4>1. w \in Nat /\ Current(n) < w /\ w # v
        BY <2>1, <3>1, StreamIndices
      <4> QED BY <1>b, <3>2, <4>1 DEF NewerArrive
    <3>3. ArrivingIsNewer(n)'
      <4> SUFFICES ASSUME NEW i \in DOMAIN stream, log[stream[i]] = n
                   PROVE  v < stream[i]
        BY <1>1, <1>a, <2>2, <2>4 DEF ArrivingIsNewer
      <4> QED BY <1>1, <1>4, <2>4 DEF InTurn, Ordered
    <3> QED BY <1>c, <3>2, <3>3 DEF InTurn
  <2> QED BY <2>3, <2>4
<1> QED BY <1>3, <1>4

(* A step that neither stores anything nor puts anything on the stream     *)
(* leaves what arrives in turn.                                            *)
LEMMA QuietStep ==
  ASSUME TInv, LogGrows, InLog \subseteq InLog', UNCHANGED <<items, stream>>,
         sw'.pc = "send" /\ sw'.event # ErrorEvent => sw.pc = "send" /\ sw.event = sw'.event,
         NEW n, InTurn(n)
  PROVE  InTurn(n)'
<1>1. log \in Seq(Nodes) /\ Len(log) \in Nat
  BY DEF TInv, TypeOK, ServiceTypeOK
<1>2. Len(log') \in Nat /\ \A v \in 1..Len(log) : log'[v] = log[v]
  BY <1>1 DEF LogGrows
<1>3. ErrorEvent \notin InLog'
  BY <1>2 DEF InLog, ErrorEvent
<1>4. \A v \in InLog : log'[v] = log[v]
  BY <1>2 DEF InLog
<1> QED BY <1>3, <1>4, InTurnStays

(* The service's steps.                                                    *)
LEMMA ServiceMirroring ==
  ASSUME TInv, LInv, AllInTurn, Mirroring, Service, NEW n \in Nodes \ overtaken'
  PROVE  InTurn(n)' /\ (streamEnd' \in {"opening", "open"} => NewerArrive(n)')
<1>1. /\ UNCHANGED <<items, sw>> /\ LogGrows /\ InLog \subseteq InLog'
  BY Outside
<1>2. ASSUME UNCHANGED <<stream, overtaken>>
      PROVE  InTurn(n)'
  <2>1. InTurn(n)
    BY <1>2 DEF AllInTurn
  <2> QED BY <1>1, <1>2, <2>1, QuietStep
<1>3. ASSUME UNCHANGED <<stream, overtaken>>, streamEnd \in {"opening", "open"},
             missed \subseteq missed', \A v \in InLog' : v \in InLog \/ v \in missed'
      PROVE  NewerArrive(n)'
  <2>1. NewerArrive(n)
    BY <1>3 DEF Mirroring
  <2>2. \A v \in 1..Len(log) : log'[v] = log[v]
    <3>1. log \in Seq(Nodes) /\ Len(log) \in Nat
      BY DEF TInv, TypeOK, ServiceTypeOK
    <3> QED BY <1>1, <3>1 DEF LogGrows
  <2> QED BY <1>1, <1>3, <2>1, <2>2, NewerStays
<1>4. CASE serverWatch
  <2>1. CASE streamEnd' = "opening"
    BY <1>1, <1>4, <2>1, StreamOpens
  <2>2. CASE UNCHANGED <<stream, streamEnd>>
    <3>1. streamEnd' \notin {"opening", "open"}
      BY <1>4, <2>2, AskedFor DEF serverWatch
    <3> QED BY <1>2, <1>4, <2>2, <3>1 DEF serverWatch
  <2> QED BY <1>4, <2>1, <2>2 DEF serverWatch
<1>5. CASE Deliver
  BY <1>1, <1>5, DeliveryMirrored DEF LInv
<1>6. CASE NodeChanges
  <2>1. UNCHANGED <<stream, streamEnd, overtaken>> /\ missed \subseteq missed'
    BY <1>6 DEF NodeChanges
  <2>2. ASSUME streamEnd \in {"opening", "open"}, NEW v \in InLog'
        PROVE  v \in InLog \/ v \in missed'
    <3>1. log \in Seq(Nodes) /\ \E m \in Nodes : log' = Append(log, m)
      BY <1>6 DEF NodeChanges, TInv, TypeOK, ServiceTypeOK
    <3>2. Len(log') = Len(log) + 1 /\ Len(log) \in Nat
      BY <3>1
    <3>3. CASE v \in 1..Len(log)
      BY <1>6, <2>2, <3>3 DEF NodeChanges, InLog
    <3>4. CASE v = Len(log) + 1
      BY <1>6, <2>2, <3>4 DEF NodeChanges, InLog
    <3> QED BY <2>2, <3>2, <3>3, <3>4 DEF InLog
  <2> QED BY <1>2, <1>3, <2>1, <2>2
<1>7. CASE handleClientRegistration \/ OpenStream
  <2>1. /\ UNCHANGED <<log, deliveries, stream, missed, overtaken>>
        /\ streamEnd' \in {"opening", "open"} => streamEnd \in {"opening", "open"}
    BY <1>7 DEF handleClientRegistration, OpenStream
  <2>2. InLog' = InLog
    BY <2>1 DEF InLog
  <2> QED BY <1>2, <1>3, <2>1, <2>2
<1>9. CASE ResourceHandlerGet
  <2>1. UNCHANGED <<stream, streamEnd, overtaken>> /\ Requested("list")
    BY <1>9 DEF ResourceHandlerGet
  <2>2. streamEnd = "none"
    BY <2>1, AskedFor DEF TInv, Unopened
  <2> QED BY <1>2, <2>1, <2>2
<1>8. CASE Restart \/ \E end \in Ends : StreamEndsWith(end)
  <2>1. UNCHANGED <<stream, overtaken>> /\ streamEnd' \notin {"opening", "open"}
    BY <1>8 DEF Restart, StreamEndsWith, Ends
  <2> QED BY <1>2, <2>1
<1> QED BY <1>4, <1>5, <1>6, <1>7, <1>8, <1>9 DEF Service, Handle

(* The client's steps.                                                     *)
LEMMA ClientMirroring ==
  ASSUME TInv, LInv, AllInTurn, Mirroring, Client \/ SkipRegistration \/ Stop,
         NEW n \in Nodes \ overtaken'
  PROVE  InTurn(n)' /\ (streamEnd' \in {"opening", "open"} => NewerArrive(n)')
<1>1. UNCHANGED <<log, deliveries, streamEnd, missed, overtaken>> /\ InLog' = InLog /\ LogGrows
  BY Inside
<1>2. InTurn(n) /\ (streamEnd' \in {"opening", "open"} => NewerArrive(n))
  BY <1>1 DEF AllInTurn, Mirroring
<1>3. ASSUME UNCHANGED <<items, stream>>, sw'.event = sw.event, sw'.pc = "send" <=> sw.pc = "send"
      PROVE  InTurn(n)' /\ (NewerArrive(n) => NewerArrive(n)')
  BY <1>1, <1>2, <1>3, QuietStep, NewerStays
<1>4. CASE Decode
  BY <1>1, <1>2, <1>4, DecodeMirrored
<1>5. CASE Consume
  BY <1>1, <1>2, <1>5, ConsumeMirrored DEF LInv
<1>6. CASE DecodeFails
  <2>1. UNCHANGED <<items, stream>> /\ streamEnd' \notin {"opening", "open"}
    BY <1>1, <1>6 DEF DecodeFails, Ends, storeVars, serviceVars
  <2>2. sw' = [sw EXCEPT !.pc = AfterEnd(streamEnd), !.event = ErrorEvent]
    BY <1>6 DEF DecodeFails
  <2>3. sw'.event = ErrorEvent
    BY <2>2 DEF TInv, TypeOK
  <2> QED BY <1>1, <1>2, <2>1, <2>3, QuietStep
<1>7. CASE AddListed
  <2>1. sw = NoWatcher /\ streamEnd = "none" /\ stream = <<>> /\ UNCHANGED <<stream, sw>>
    BY <1>7 DEF AddListed, TInv, Unopened, serviceVars
  <2>2. \A v : ~Arriving(v)'
    BY <2>1 DEF Arriving, NoWatcher
  <2>3. InTurn(n)'
    BY <2>1, <2>2 DEF InTurn, ArrivingIsNewer, Ordered
  <2> QED BY <1>1, <2>1, <2>3
<1>8. CASE watchNodes
  <2>1. UNCHANGED <<items, stream>> /\ pc = "watching"
    BY <1>8 DEF watchNodes, storeVars, serviceVars
  <2>2. sw = NoWatcher
    BY <2>1 DEF TInv, Unopened
  <2>3. sw'.event = sw.event /\ sw'.pc # "send" /\ sw.pc # "send"
    BY <1>8, <2>2 DEF watchNodes, NoWatcher
  <2> QED BY <1>2, <1>3, <2>1, <2>3
<1>9. CASE Stop
  <2>1. UNCHANGED <<items, stream>> /\ sw' = [sw EXCEPT !.stopped = TRUE]
    BY <1>9 DEF Stop, storeVars, serviceVars
  <2>2. sw'.event = sw.event /\ sw'.pc = sw.pc
    BY <2>1 DEF TInv, TypeOK
  <2> QED BY <1>2, <1>3, <2>1, <2>2
<1>10. CASE Register \/ registerClient \/ ListNodes \/ listNodes \/ WatchNodes \/ EndOfResults
             \/ SkipRegistration
  <2>1. UNCHANGED <<items, stream, sw>>
    BY <1>10 DEF Register, registerClient, ListNodes, listNodes, WatchNodes, EndOfResults,
                 SkipRegistration, storeVars, serviceVars
  <2> QED BY <1>2, <1>3, <2>1
<1> QED BY <1>4, <1>5, <1>6, <1>7, <1>8, <1>9, <1>10 DEF Client

(* Every step keeps nodes mirrored: what arrives is newer than what is     *)
(* stored and in order, and while the stream is open nothing newer is      *)
(* missing.                                                                *)
LEMMA NextMirroring ==
  ASSUME TInv, LInv, AllInTurn, Mirroring, [Next]_vars
  PROVE  AllInTurn' /\ Mirroring'
<1> SUFFICES ASSUME NEW n \in Nodes \ overtaken'
             PROVE  InTurn(n)' /\ (streamEnd' \in {"opening", "open"} => NewerArrive(n)')
  BY DEF AllInTurn, Mirroring
<1>1. CASE Service
  BY <1>1, ServiceMirroring
<1>2. CASE Client \/ SkipRegistration \/ Stop
  BY <1>2, ClientMirroring
<1>3. CASE Request \/ UNCHANGED vars
  <2>1. UNCHANGED <<items, sw>> /\ LogGrows
    BY <1>3, Outside
  <2>2. UNCHANGED <<log, deliveries, stream, streamEnd, missed, overtaken>>
    BY <1>3 DEF Request, vars, serviceVars
  <2>3. InLog' = InLog
    BY <2>2 DEF InLog
  <2>4. InTurn(n) /\ (streamEnd' \in {"opening", "open"} => NewerArrive(n))
    BY <2>2 DEF AllInTurn, Mirroring
  <2> QED BY <2>1, <2>2, <2>3, <2>4, QuietStep, NewerStays
<1> QED BY <1>1, <1>2, <1>3 DEF Next

(* No stream is open at first.                                             *)
LEMMA InitMirroring == Init => AllInTurn /\ Mirroring
<1> SUFFICES ASSUME Init PROVE AllInTurn /\ Mirroring
  OBVIOUS
<1>1. stream = <<>> /\ sw = NoWatcher /\ streamEnd = "none"
  BY DEF Init, ServiceInit, SessionInit
<1>2. \A v : ~Arriving(v)
  BY <1>1 DEF Arriving, NoWatcher
<1> QED BY <1>1, <1>2 DEF AllInTurn, InTurn, ArrivingIsNewer, Ordered, Mirroring

(* What all steps of a session keep.                                       *)
MInv == TInv /\ LInv /\ AllInTurn /\ Mirroring

LEMMA SpecMInv == Spec => []MInv
BY InitTInv, NextTInv, InitLInv, NextLInv, InitMirroring, NextMirroring, PTL DEF Spec, MInv

(* A watching client that has nothing left to read has the service's       *)
(* nodes, each at its latest version, but for nodes whose events were      *)
(* delivered out of order and those whose latest version the list or the   *)
(* opening of the watch passed over.                                       *)
THEOREM Mirror == Spec => []MirrorWhenDrained
<1>1. MInv => MirrorWhenDrained
  <2> SUFFICES ASSUME TInv, LInv, Mirroring, sw.pc = "decode", streamEnd = "open",
                      stream = <<>>, deliveries = {}, NEW n \in Nodes \ overtaken
               PROVE  Version(n, Len(log)) \in {Current(n)} \cup missed
    BY DEF MirrorWhenDrained, MInv
  <2> DEFINE V == Version(n, Len(log))
  <2>1. InLog = 1..Len(log) /\ Len(log) \in Nat /\ missed \subseteq 1..Len(log)
    BY DEF InLog, TInv, TypeOK, ServiceTypeOK, Delivered
  <2>2. \A v \in InLog : ~Arriving(v)
    BY DEF Arriving
  <2>3. \A v \in InLog : log[v] = n => ~(Current(n) < v) \/ Skipped(v)
    BY <2>2 DEF Mirroring, NewerArrive
  <2>4. Current(n) = 0 \/ Current(n) \in VersionsOf(n, Len(log))
    BY <2>1, CurrentIs DEF LInv, VersionsOf
  <2>5. /\ V \in 0..Len(log)
        /\ V > 0 => V \in VersionsOf(n, Len(log))
        /\ \A i \in VersionsOf(n, Len(log)) : i <= V
    BY <2>1, VersionIsLargest
  <2>6. \A v \in VersionsOf(n, Len(log)) : v \in InLog /\ log[v] = n
    BY <2>1 DEF VersionsOf
  <2>7. \A m \in missed : log[m] = n => m \in VersionsOf(n, Len(log))
    BY <2>1 DEF VersionsOf
  <2> HIDE DEF V
  <2>8. CASE V > 0 /\ Skipped(V)
    <3>1. PICK m \in missed : log[m] = n /\ V <= m
      BY <2>5, <2>6, <2>8 DEF Skipped
    <3>2. m <= V /\ m \in Int /\ V \in Int
      BY <2>1, <2>5, <2>7, <3>1
    <3>3. m = V
      BY <3>1, <3>2
    <3> QED BY <3>3 DEF V
  <2>9. CASE ~(V > 0 /\ Skipped(V))
    <3>1. V > 0 => ~(Current(n) < V)
      BY <2>3, <2>5, <2>6, <2>9
    <3>2. Current(n) <= V /\ Current(n) \in Int
      BY <2>1, <2>4, <2>5 DEF VersionsOf
    <3>3. Current(n) >= 0
      BY <2>4 DEF VersionsOf
    <3>4. V = Current(n)
      BY <2>5, <3>1, <3>2, <3>3
    <3> QED BY <3>4 DEF V
  <2> QED BY <2>8, <2>9
<1> QED BY <1>1, SpecMInv, PTL

(* A node of the list is put into the store, once.                         *)
LEMMA AddedIsNew ==
  ASSUME TInv, LInv, AddListed, NEW n \in Nodes, items'[n] # items[n]
  PROVE  Current(n) < Current(n)'
<1>1. PICK obj \in listed : Add(obj)
  BY DEF AddListed
<1>2. obj \in [node : Nodes, rv : RVs] /\ Put(obj)
  BY <1>1 DEF Add, TInv, TypeOK
<1>3. obj.node \in Keys /\ items' = [items EXCEPT ![obj.node] = obj] /\ obj # NoObject
  BY <1>2, PutNode, SessionAssumption, CacheAssumption DEF TInv, TypeOK
<1>4. items \in [Keys -> Objects \cup {NoObject}] /\ n \in Keys
  BY SessionAssumption DEF TInv, TypeOK, StoreTypeOK
<1>5. n = obj.node /\ items'[n] = obj
  BY <1>3, <1>4
<1>6. Current(n)' = obj.rv /\ obj.rv \in Nat /\ obj.rv > 0
  BY <1>2, <1>3, <1>5 DEF Current, RVs
<1>7. CASE items[n] = NoObject
  BY <1>6, <1>7 DEF Current
<1>8. CASE items[n] # NoObject
  <2>1. /\ pc = "adding" /\ rvs \in 0..Len(log) /\ listed \cup List = Snapshot(rvs)
    BY <1>1 DEF AddListed, LInv, ListHeld, Held
  <2>2. log \in Seq(Nodes) /\ Len(log) \in Nat
    BY DEF TInv, TypeOK, ServiceTypeOK
  <2>3. items[n] \in Snapshot(rvs) /\ items[n].node = n
    BY <1>4, <1>8, <2>1 DEF List, StoredKeys, LInv, StoredEvents
  <2>4. obj \in Snapshot(rvs)
    BY <1>1, <2>1
  <2>5. items[n] = Listed(n, Version(n, rvs)) /\ obj = Listed(n, Version(n, rvs))
    BY <1>5, <2>1, <2>2, <2>3, <2>4, SnapshotNodes
  <2> QED BY <1>5, <2>5
<1> QED BY <1>7, <1>8

(* Although the store compares no versions, a session never takes a node   *)
(* back to an older version: where the list ends the watch begins, what a  *)
(* stream brings is in order, and a stream that broke keeps what it had.   *)
THEOREM MovesForward == Spec => StoreMovesForward
<1>1. MInv /\ [Next]_vars =>
        [\A n \in Nodes \ overtaken :
           pc # "done" /\ items'[n] # items[n] => Current(n) < Current(n)']_vars
  <2> SUFFICES ASSUME MInv, Next, NEW n \in Nodes \ overtaken, items'[n] # items[n]
               PROVE  Current(n) < Current(n)'
    OBVIOUS
  <2>1. CASE Consume
    <3>1. sw.event # ErrorEvent
      BY <2>1 DEF Consume, storeVars
    <3>2. n = log[sw.event] /\ Current(n)' = sw.event /\ sw.pc = "send" /\ sw.event \in InLog
      BY <2>1, <3>1, Consumed DEF MInv
    <3> QED BY <3>2 DEF MInv, AllInTurn, InTurn, ArrivingIsNewer, Arriving
  <2>2. CASE AddListed
    BY <2>2, AddedIsNew DEF MInv
  <2>3. CASE Request \/ Service
    BY <2>3, Outside DEF MInv
  <2>4. CASE Register \/ registerClient \/ ListNodes \/ listNodes \/ WatchNodes \/ watchNodes
              \/ Decode \/ DecodeFails \/ EndOfResults \/ SkipRegistration \/ Stop
    BY <2>4 DEF Register, registerClient, ListNodes, listNodes, WatchNodes, watchNodes, Decode,
                DecodeFails, EndOfResults, SkipRegistration, Stop, storeVars
  <2> QED BY <2>1, <2>2, <2>3, <2>4 DEF Next, Client
<1> QED BY <1>1, SpecMInv, PTL DEF Spec, StoreMovesForward
=============================================================================
