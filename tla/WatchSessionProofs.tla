------------------------- MODULE WatchSessionProofs -------------------------
(***************************************************************************)
(* What a watching client may rely on, proved with TLAPS for any number of *)
(* locations, watches, events and places in the watch channel: it is sent  *)
(* the events it asks for, and no entry of its queue twice by a single     *)
(* watch.                                                                  *)
(***************************************************************************)
EXTENDS WatchSession, FiniteSetTheorems, FunctionTheorems, WellFoundedInduction, TLAPS

USE BoundAssumption

WatchType ==
  [pc : {"idle", "index", "collect", "open", "serving", "stop", "returned"},
   rvs : ResumePoints \cup {<<>>}, todo : SUBSET Locations,
   start : [Locations -> 1..(MaxEvents + 1)], seen : [Locations -> 0..MaxEvents]]
RelayType == [pc : {"none", "running", "stopping", "stopped"}, pending : Seq(Event)]

(* The first loop looks the client's own resource versions up.             *)
IndexWithin ==
  \A w \in Watches : watch[w].pc = "index" => watch[w].todo \subseteq DOMAIN watch[w].rvs

(* A queue has an entry for every version at least.                        *)
VersionWithin == \A e \in Event : version[e] <= e.pos

TInv == TypeOK /\ IndexWithin /\ VersionWithin

(* An entry, written with its location and place.                          *)
LEMMA EntryOf ==
  /\ \A e \in Event : /\ e.loc \in Locations /\ e.pos \in 1..MaxEvents /\ e.pos \in Nat
                      /\ e = Entry(e.loc, e.pos)
  /\ \A loc \in Locations, pos \in 1..MaxEvents :
       /\ Entry(loc, pos) \in Event
       /\ Entry(loc, pos).loc = loc /\ Entry(loc, pos).pos = pos
BY DEF Event, Entry

(* A non-empty set of numbers has a smallest one.                          *)
LEMMA SmallestExists ==
  ASSUME NEW S \in SUBSET Nat, S # {}
  PROVE  Min(S) \in S /\ \A y \in S : Min(S) <= y
<1> DEFINE R == {p \in Nat \X Nat : p[1] < p[2]}
<1>1. IsWellFoundedOn(R, Nat)
  BY NatLessThanWellFounded DEF OpToRel
<1> HIDE DEF R
<1>2. \E x \in S : \A y \in S : <<y, x>> \notin R
  BY <1>1, WFMin
<1>3. PICK x \in S : \A y \in S : ~(y < x)
  BY <1>2 DEF R
<1>4. \A y \in S : x <= y
  BY <1>3
<1> QED BY <1>4 DEF Min

(* A resource version map names some of the locations.                     *)
LEMMA ResumeTyped ==
  ASSUME NEW rvs \in ResumePoints \cup {<<>>}
  PROVE  /\ DOMAIN rvs \subseteq Locations
         /\ \A loc \in DOMAIN rvs : rvs[loc] \in 0..MaxEvents
<1>1. CASE rvs = <<>>
  BY <1>1
<1>2. CASE rvs \in ResumePoints
  <2>1. PICK L \in SUBSET Locations : rvs \in [L -> 0..MaxEvents]
    BY <1>2, ResumeAssumption
  <2> QED BY <2>1
<1> QED BY <1>1, <1>2

(* Nothing has happened.                                                   *)
LEMMA InitTInv == Init => TInv
<1> SUFFICES ASSUME Init PROVE TInv
  OBVIOUS
<1>1. NotCalled \in WatchType
  BY DEF NotCalled, WatchType
<1>2. watch \in [Watches -> WatchType] /\ \A w \in Watches : watch[w].pc = "idle"
  BY <1>1 DEF Init, NotCalled
<1>3. relay \in [Watches -> RelayType]
  <2>1. [pc |-> "none", pending |-> <<>>] \in RelayType
    BY DEF RelayType
  <2> QED BY <2>1 DEF Init
<1>4. watchCh \in [Watches -> Seq(Event)] /\ received \in [Watches -> [Event -> Nat]]
  BY DEF Init
<1>5. version \in [Event -> 0..MaxEvents] /\ VersionWithin
  BY EntryOf DEF Init, VersionWithin
<1> QED BY <1>2, <1>3, <1>4, <1>5 DEF Init, TInv, TypeOK, IndexWithin, WatchType, RelayType

(* What the queue of a location holds from a place on.                     *)
LEMMA EventsTyped ==
  ASSUME TypeOK, NEW loc \in Locations, NEW first \in 1..(MaxEvents + 1)
  PROVE  EventsSince(loc, first) \in Seq(Event)
<1>1. queued[loc] \in 1..MaxEvents
  BY DEF TypeOK
<1> DEFINE n == IF queued[loc] - first + 1 >= 0 THEN queued[loc] - first + 1 ELSE 0
<1>2. n \in Nat /\ 1..(queued[loc] - first + 1) = 1..n
  BY <1>1
<1>3. \A i \in 1..(queued[loc] - first + 1) : Entry(loc, first + i - 1) \in Event
  BY <1>1, EntryOf
<1>4. EventsSince(loc, first) \in [1..n -> Event]
  BY <1>2, <1>3 DEF EventsSince
<1> QED BY <1>2, <1>4

(* A handler that only moves on.                                           *)
LEMMA MovesOn ==
  ASSUME TInv, NEW w \in Watches,
         NEW pc \in {"idle", "collect", "open", "serving", "stop", "returned"},
         watch' = [watch EXCEPT ![w].pc = pc]
  PROVE  watch' \in [Watches -> WatchType] /\ IndexWithin'
<1>1. watch \in [Watches -> WatchType]
  BY DEF TInv, TypeOK, WatchType
<1>2. watch'[w] = [watch[w] EXCEPT !.pc = pc] /\ \A v \in Watches \ {w} : watch'[v] = watch[v]
  BY <1>1
<1>3. watch[w] \in WatchType
  BY <1>1
<1>4. watch' \in [Watches -> WatchType]
  <2>1. [watch[w] EXCEPT !.pc = pc] \in WatchType
    BY <1>3 DEF WatchType
  <2> HIDE DEF WatchType
  <2> QED BY <1>1, <1>2, <2>1
<1>5. watch'[w].pc = pc
  BY <1>2, <1>3 DEF WatchType
<1> QED BY <1>4, <1>2, <1>5 DEF TInv, IndexWithin

(* What one watch does is nothing to another.                              *)
LEMMA OthersFrame ==
  ASSUME TInv, NEW w \in Watches, NEW v \in Watches, v # w,
         \/ Watch(v) \/ RejectRequest(v) \/ CallWatch(v) \/ Relay(v)
         \/ SendToClient(v) \/ RequestDone(v) \/ EncodingFails(v) \/ stopWatch(v)
  PROVE  /\ watch'[w] = watch[w] /\ relay'[w] = relay[w] /\ watchCh'[w] = watchCh[w]
         /\ received'[w] = received[w] /\ UNCHANGED <<queued, version>>
<1>1. /\ watch \in [Watches -> WatchType] /\ relay \in [Watches -> RelayType]
      /\ watchCh \in [Watches -> Seq(Event)] /\ received \in [Watches -> [Event -> Nat]]
  BY DEF TInv, TypeOK, WatchType, RelayType
<1>2. CASE Watch(v) \/ RejectRequest(v) \/ OpenWatchChan(v)
  BY <1>1, <1>2 DEF Watch, RejectRequest, OpenWatchChan
<1>3. CASE \E loc \in Locations :
             getEventIndexSinceResourceVersion(v, loc) \/ getEventsFromIndex(v, loc)
  BY <1>1, <1>3 DEF getEventIndexSinceResourceVersion, getEventsFromIndex
<1>4. CASE Relay(v)
  BY <1>1, <1>4 DEF Relay, SendDownstream, ReceiveUpstream, StopRelay
<1>5. CASE SendToClient(v) \/ RequestDone(v) \/ EncodingFails(v) \/ stopWatch(v)
  BY <1>1, <1>5 DEF SendToClient, RequestDone, EncodingFails, stopWatch
<1> QED BY <1>2, <1>3, <1>4, <1>5 DEF CallWatch

(* The watch call keeps the types.                                         *)
LEMMA WatchTInv ==
  ASSUME TInv, NEW w \in Watches, Watch(w) \/ RejectRequest(w) \/ CallWatch(w)
  PROVE  TInv'
<1>1. watch \in [Watches -> WatchType] /\ relay \in [Watches -> RelayType]
      /\ queued \in [Locations -> 1..MaxEvents]
  BY DEF TInv, TypeOK, WatchType, RelayType
<1>2. SUFFICES /\ watch' \in [Watches -> WatchType] /\ relay' \in [Watches -> RelayType]
               /\ IndexWithin'
               /\ watchChan' \in Watches \cup {None}
               /\ UNCHANGED <<queued, version, enqueuing, delivery, watchCh, received>>
  BY DEF TInv, TypeOK, WatchType, RelayType, VersionWithin
<1>3. ASSUME NEW rvs \in ResumePoints, watch' = [watch EXCEPT ![w] = [NotCalled EXCEPT
                   !.pc = IF watchChan # None THEN "stop" ELSE
                          IF rvs = <<>> THEN "collect" ELSE "index",
                   !.rvs = rvs,
                   !.todo = IF rvs = <<>> THEN Locations ELSE DOMAIN rvs,
                   !.seen = queued]]
      PROVE  watch' \in [Watches -> WatchType] /\ IndexWithin'
  <2> DEFINE pc0 == IF watchChan # None THEN "stop" ELSE
                    IF rvs = <<>> THEN "collect" ELSE "index"
             todo0 == IF rvs = <<>> THEN Locations ELSE DOMAIN rvs
             new == [NotCalled EXCEPT !.pc = pc0, !.rvs = rvs, !.todo = todo0, !.seen = queued]
  <2>1. watch' = [watch EXCEPT ![w] = new]
    BY <1>3
  <2>2. /\ pc0 \in {"stop", "collect", "index"} /\ todo0 \in SUBSET Locations
        /\ pc0 = "index" => todo0 \subseteq DOMAIN rvs
        /\ queued \in [Locations -> 0..MaxEvents]
    BY <1>1, ResumeTyped
  <2> HIDE DEF pc0, todo0
  <2>3. new \in WatchType /\ new.pc = pc0 /\ new.todo = todo0 /\ new.rvs = rvs
    <3>1. NotCalled \in WatchType
      BY DEF NotCalled, WatchType
    <3> QED BY <2>2, <3>1 DEF WatchType
  <2> HIDE DEF new
  <2> QED BY <1>1, <2>1, <2>2, <2>3 DEF TInv, IndexWithin
<1>4. CASE Watch(w)
  BY <1>1, <1>3, <1>4 DEF Watch, TInv, TypeOK
<1>5. CASE RejectRequest(w)
  BY <1>1, <1>5, MovesOn DEF RejectRequest, TInv, TypeOK
<1>6. ASSUME NEW loc \in Locations, getEventIndexSinceResourceVersion(w, loc)
      PROVE  watch' \in [Watches -> WatchType] /\ IndexWithin'
  <2> DEFINE rv == watch[w].rvs[loc]
             more == watch[w].todo \ {loc}
             pc == IF TooOld(rv, loc) THEN "stop" ELSE
                   IF AtEnd(rv, loc) THEN "open" ELSE
                   IF more = {} THEN "collect" ELSE "index"
             first == IF AtEnd(rv, loc) THEN watch[w].start[loc] ELSE ResumeAfter(rv, loc)
             todo == IF ~TooOld(rv, loc) /\ ~AtEnd(rv, loc) /\ more = {} THEN Locations ELSE more
  <2>1. /\ watch[w].pc = "index" /\ loc \in watch[w].todo
        /\ watch' = [watch EXCEPT ![w].pc = pc, ![w].start[loc] = first, ![w].todo = todo]
    <3> DEFINE step(new) == [watch EXCEPT ![w].pc = pc, ![w].start[loc] = new, ![w].todo = todo]
    <3>1. watch' = step(IF AtEnd(rv, loc) THEN watch[w].start[loc] ELSE ResumeAfter(rv, loc))
      BY <1>1, <1>6 DEF getEventIndexSinceResourceVersion
    <3> HIDE DEF step
    <3>2. watch' = step(first)
      BY <3>1
    <3> QED BY <1>6, <3>2 DEF getEventIndexSinceResourceVersion, step
  <2>2. loc \in DOMAIN watch[w].rvs /\ watch[w].todo \subseteq DOMAIN watch[w].rvs
    BY <2>1 DEF TInv, IndexWithin
  <2>3. first \in 1..(MaxEvents + 1)
    <3>1. watch[w].start[loc] \in 1..(MaxEvents + 1)
      BY <1>1 DEF WatchType
    <3>2. Newer(rv, loc) \subseteq 1..MaxEvents
      BY <1>1 DEF Newer
    <3>3. Newer(rv, loc) # {} => Min(Newer(rv, loc)) \in 1..MaxEvents
      BY <3>2, SmallestExists
    <3> QED BY <3>1, <3>3 DEF ResumeAfter, AtEnd
  <2>4. /\ pc \in {"stop", "open", "collect", "index"} /\ todo \in SUBSET Locations
        /\ pc = "index" => todo \subseteq watch[w].todo
    BY <1>1 DEF WatchType
  <2> HIDE DEF pc, todo, first
  <2>5. [watch[w] EXCEPT !.pc = pc, !.start[loc] = first, !.todo = todo] \in WatchType
    <3>1. watch[w] \in WatchType
      BY <1>1
    <3> DEFINE s == [watch[w].start EXCEPT ![loc] = first]
    <3>2. s \in [Locations -> 1..(MaxEvents + 1)]
      BY <2>3, <3>1 DEF WatchType
    <3>3. [watch[w] EXCEPT !.pc = pc, !.start[loc] = first, !.todo = todo] =
            [watch[w] EXCEPT !.pc = pc, !.start = s, !.todo = todo]
      BY <3>1 DEF WatchType
    <3> HIDE DEF s
    <3> QED BY <2>4, <3>1, <3>2, <3>3 DEF WatchType
  <2>6. watch' = [watch EXCEPT ![w] = [watch[w] EXCEPT !.pc = pc, !.start[loc] = first, !.todo = todo]]
    BY <1>1, <2>1
  <2>7. watch'[w].rvs = watch[w].rvs /\ watch'[w].pc = pc /\ watch'[w].todo = todo
        /\ \A v \in Watches \ {w} : watch'[v] = watch[v]
    BY <1>1, <2>1 DEF WatchType
  <2>8. watch' \in [Watches -> WatchType]
    BY <1>1, <2>5, <2>6
  <2>9. watch'[w].pc = "index" => watch'[w].todo \subseteq DOMAIN watch'[w].rvs
    BY <2>2, <2>4, <2>7
  <2> QED BY <2>7, <2>8, <2>9 DEF TInv, IndexWithin
<1>7. ASSUME NEW loc \in Locations, getEventsFromIndex(w, loc)
      PROVE  /\ watch' \in [Watches -> WatchType] /\ relay' \in [Watches -> RelayType]
             /\ IndexWithin'
  <2>1. EventsSince(loc, watch[w].start[loc]) \in Seq(Event)
    BY <1>1, EventsTyped DEF TInv, WatchType
  <2>2. relay[w].pending \o EventsSince(loc, watch[w].start[loc]) \in Seq(Event)
    BY <1>1, <2>1 DEF RelayType
  <2>3. relay' \in [Watches -> RelayType]
    BY <1>1, <1>7, <2>2 DEF getEventsFromIndex, RelayType
  <2>4. PICK pc \in {"open", "collect"} :
          watch' = [watch EXCEPT ![w].todo = @ \ {loc}, ![w].pc = pc]
    BY <1>7 DEF getEventsFromIndex
  <2>5. watch' \in [Watches -> WatchType]
    <3>1. watch[w] \in WatchType /\ watch[w].todo \ {loc} \in SUBSET Locations
      BY <1>1 DEF WatchType
    <3>2. [watch[w] EXCEPT !.todo = @ \ {loc}, !.pc = pc] \in WatchType
      BY <3>1 DEF WatchType
    <3>3. watch' = [watch EXCEPT ![w] = [watch[w] EXCEPT !.todo = @ \ {loc}, !.pc = pc]]
      BY <1>1, <2>4
    <3> QED BY <1>1, <3>2, <3>3
  <2>6. watch'[w].pc # "index" /\ \A v \in Watches \ {w} : watch'[v] = watch[v]
    BY <1>1, <2>4 DEF WatchType
  <2>7. IndexWithin'
    BY <2>6 DEF TInv, IndexWithin
  <2> QED BY <2>3, <2>5, <2>7
<1>8. CASE OpenWatchChan(w)
  <2>1. relay' \in [Watches -> RelayType]
    BY <1>1, <1>8 DEF OpenWatchChan, RelayType
  <2>2. watch' \in [Watches -> WatchType] /\ IndexWithin'
    BY <1>8, MovesOn DEF OpenWatchChan
  <2> QED BY <1>8, <2>1, <2>2 DEF OpenWatchChan
<1> QED BY <1>1, <1>4, <1>5, <1>6, <1>7, <1>8
        DEF CallWatch, getEventIndexSinceResourceVersion, getEventsFromIndex, TInv, TypeOK

(* The relay keeps the types.                                              *)
LEMMA RelayTInv ==
  ASSUME TInv, NEW w \in Watches, Relay(w)
  PROVE  TInv'
<1>1. relay \in [Watches -> RelayType] /\ watchCh \in [Watches -> Seq(Event)]
      /\ watchChan \in Watches \cup {None}
      /\ delivery \in [Event -> {"none", "started", "blocked", "done"} \cup Watches]
  BY DEF TInv, TypeOK, RelayType
<1>2. SUFFICES /\ relay' \in [Watches -> RelayType] /\ watchCh' \in [Watches -> Seq(Event)]
               /\ watchChan' \in Watches \cup {None}
               /\ delivery' \in [Event -> {"none", "started", "blocked", "done"} \cup Watches]
  BY DEF Relay, SendDownstream, ReceiveUpstream, StopRelay, TInv, TypeOK, IndexWithin,
     VersionWithin, RelayType
<1>3. CASE SendDownstream(w)
  <2>1. relay[w].pending \in Seq(Event) /\ relay[w].pending # <<>> /\ watchCh[w] \in Seq(Event)
    BY <1>1, <1>3 DEF SendDownstream, RelayType
  <2>2. Head(relay[w].pending) \in Event /\ Tail(relay[w].pending) \in Seq(Event)
    BY <2>1
  <2>3. Append(watchCh[w], Head(relay[w].pending)) \in Seq(Event)
    BY <2>1, <2>2
  <2> QED BY <1>1, <1>3, <2>2, <2>3 DEF SendDownstream, RelayType
<1>4. ASSUME NEW e \in Event, ReceiveUpstream(w, e)
      PROVE  /\ relay' \in [Watches -> RelayType] /\ UNCHANGED <<watchCh, watchChan>>
             /\ delivery' \in [Event -> {"none", "started", "blocked", "done"} \cup Watches]
  <2>1. <<e>> \in Seq(Event)
    OBVIOUS
  <2>2. relay' = [relay EXCEPT ![w].pending = <<e>>] /\ UNCHANGED <<watchCh, watchChan>>
        /\ delivery' = [delivery EXCEPT ![e] = "done"]
    BY <1>4 DEF ReceiveUpstream
  <2> QED BY <1>1, <2>1, <2>2 DEF RelayType
<1>5. CASE StopRelay(w)
  <2>1. relay' = [relay EXCEPT ![w].pc = "stopped"] /\ UNCHANGED <<watchCh, delivery>>
    BY <1>5 DEF StopRelay
  <2>2. watchChan' \in Watches \cup {None}
    BY <1>1, <1>5 DEF StopRelay, Cleared
  <2> QED BY <1>1, <2>1, <2>2 DEF RelayType
<1> QED BY <1>1, <1>3, <1>4, <1>5 DEF Relay

(* The handler keeps the types.                                            *)
LEMMA HandlerTInv ==
  ASSUME TInv, NEW w \in Watches,
         SendToClient(w) \/ RequestDone(w) \/ EncodingFails(w) \/ stopWatch(w)
  PROVE  TInv'
<1>1. watch \in [Watches -> WatchType] /\ relay \in [Watches -> RelayType]
      /\ watchCh \in [Watches -> Seq(Event)] /\ received \in [Watches -> [Event -> Nat]]
  BY DEF TInv, TypeOK, WatchType, RelayType
<1>2. SUFFICES /\ watch' \in [Watches -> WatchType] /\ relay' \in [Watches -> RelayType]
               /\ watchCh' \in [Watches -> Seq(Event)] /\ received' \in [Watches -> [Event -> Nat]]
               /\ IndexWithin'
  BY DEF SendToClient, RequestDone, EncodingFails, stopWatch, TInv, TypeOK, VersionWithin,
     WatchType, RelayType
<1>3. watchCh[w] # <<>> => Head(watchCh[w]) \in Event /\ Tail(watchCh[w]) \in Seq(Event)
  <2>1. watchCh[w] \in Seq(Event)
    BY <1>1
  <2> QED BY <2>1
<1>4. CASE SendToClient(w)
  <2>1. received' \in [Watches -> [Event -> Nat]]
    BY <1>1, <1>3, <1>4 DEF SendToClient
  <2> QED BY <1>1, <1>3, <1>4, <2>1 DEF SendToClient, TInv, IndexWithin
<1>5. CASE RequestDone(w) \/ EncodingFails(w) \/ stopWatch(w)
  <2>1. watch' \in [Watches -> WatchType] /\ IndexWithin'
    BY <1>5, MovesOn DEF RequestDone, EncodingFails, stopWatch
  <2>2. relay' \in [Watches -> RelayType]
    <3>1. UNCHANGED relay \/ relay' = [relay EXCEPT ![w].pc = "stopping"]
      BY <1>5 DEF RequestDone, EncodingFails, stopWatch
    <3>2. [relay[w] EXCEPT !.pc = "stopping"] \in RelayType
      BY <1>1 DEF RelayType
    <3> HIDE DEF RelayType
    <3> QED BY <1>1, <3>1, <3>2
  <2>3. watchCh' \in [Watches -> Seq(Event)] /\ received' \in [Watches -> [Event -> Nat]]
    BY <1>1, <1>3, <1>5 DEF RequestDone, EncodingFails, stopWatch
  <2> QED BY <2>1, <2>2, <2>3
<1> QED BY <1>4, <1>5

(* An entry gets its version before it is queued.                          *)
LEMMA NotifyVersion ==
  ASSUME TInv, NEW e \in Event, NotifyWatcher(e)
  PROVE  /\ version' \in [Event -> 0..MaxEvents] /\ VersionWithin'
         /\ \A f \in Event \ {e} : version'[f] = version[f]
<1> DEFINE last == version[Entry(e.loc, queued[e.loc])]
<1>1. PICK rv \in NextVersions(e.loc) : version' = [version EXCEPT ![e] = rv]
  BY DEF NotifyWatcher
<1>2. /\ version \in [Event -> 0..MaxEvents] /\ queued[e.loc] \in 1..MaxEvents
      /\ e.pos \in 1..MaxEvents /\ e.pos = queued[e.loc] + 1
  BY EntryOf DEF TInv, TypeOK, NotifyWatcher
<1>3. Entry(e.loc, queued[e.loc]) \in Event /\ Entry(e.loc, queued[e.loc]).pos = queued[e.loc]
  BY <1>2, EntryOf
<1>4. last \in Nat /\ last <= queued[e.loc]
  BY <1>2, <1>3 DEF TInv, VersionWithin
<1>5. rv = last + 1 \/ rv = last
  BY <1>1 DEF NextVersions
<1> HIDE DEF last
<1>6. rv \in 0..MaxEvents /\ rv <= e.pos
  BY <1>2, <1>4, <1>5
<1> QED BY <1>1, <1>2, <1>6 DEF TInv, VersionWithin

(* Every step keeps the types.                                             *)
LEMMA NextTInv == TInv /\ [Next]_vars => TInv'
<1> SUFFICES ASSUME TInv, [Next]_vars PROVE TInv'
  OBVIOUS
<1>1. ASSUME NEW e \in Event, NotifyWatcher(e) \/ SendOnWatchChan(e) PROVE TInv'
  <2>1. /\ delivery \in [Event -> {"none", "started", "blocked", "done"} \cup Watches]
        /\ watchChan \in Watches \cup {None} /\ enqueuing \in Event \cup {None}
        /\ version \in [Event -> 0..MaxEvents] /\ VersionWithin
    BY DEF TInv, TypeOK
  <2>2. PICK d \in {"none", "started", "blocked", "done"} \cup Watches :
          delivery' = [delivery EXCEPT ![e] = d]
    BY <1>1, <2>1 DEF NotifyWatcher, SendOnWatchChan, Notify
  <2>3. delivery' \in [Event -> {"none", "started", "blocked", "done"} \cup Watches]
    BY <2>1, <2>2
  <2>4. enqueuing' \in Event \cup {None}
    BY <1>1, <2>1 DEF NotifyWatcher, SendOnWatchChan
  <2>5. version' \in [Event -> 0..MaxEvents] /\ VersionWithin'
    <3>1. SendOnWatchChan(e) => UNCHANGED version
      BY DEF SendOnWatchChan
    <3> QED BY <1>1, <2>1, <3>1, NotifyVersion DEF VersionWithin
  <2>6. UNCHANGED <<queued, watchChan, watch, relay, watchCh, received>>
    BY <1>1 DEF NotifyWatcher, SendOnWatchChan
  <2> QED BY <2>3, <2>4, <2>5, <2>6 DEF TInv, TypeOK, IndexWithin
<1>2. CASE AppendEvent
  BY <1>2 DEF AppendEvent, Event, TInv, TypeOK, IndexWithin, VersionWithin
<1>3. CASE UNCHANGED vars
  BY <1>3 DEF vars, TInv, TypeOK, IndexWithin, VersionWithin
<1>4. ASSUME NEW w \in Watches, Watch(w) \/ RejectRequest(w) \/ CallWatch(w) PROVE TInv'
  BY <1>4, WatchTInv
<1>5. ASSUME NEW w \in Watches, Relay(w) PROVE TInv'
  BY <1>5, RelayTInv
<1>6. ASSUME NEW w \in Watches,
             SendToClient(w) \/ RequestDone(w) \/ EncodingFails(w) \/ stopWatch(w)
      PROVE  TInv'
  BY <1>6, HandlerTInv
<1> QED BY <1>1, <1>2, <1>3, <1>4, <1>5, <1>6 DEF Next

(* Every variable of a watch session has its type, in every behaviour.     *)
THEOREM TypeCorrect == Spec => []TypeOK
<1>1. TInv => TypeOK
  BY DEF TInv
<1> QED BY <1>1, InitTInv, NextTInv, PTL DEF Spec

-----------------------------------------------------------------------------
(* The replay.  Every location has newer events than the client, so that   *)
(* the first loop finds an index for each and the second fetches what      *)
(* follows it; what was found stays in the goroutine's list, in the        *)
(* channel or with the client.                                             *)

Complete(w) == Missed(w) = DOMAIN watch[w].rvs
Reached(e, w) == received[w][e] > 0 \/ InSeq(e, watchCh[w]) \/ InSeq(e, relay[w].pending)

SeenIsQueued(w) == \A loc \in Locations : watch[w].seen[loc] <= queued[loc]
NotOpened(w) ==
  watch[w].pc \in {"idle", "index", "collect", "open"} => relay[w].pc = "none"
Indexed(w) ==
  /\ watch[w].pc = "index" =>
       \A loc \in DOMAIN watch[w].rvs \ watch[w].todo : \A e \in OwedFrom(w, loc) :
         watch[w].start[loc] <= e.pos
  /\ watch[w].pc = "collect" =>
       \A loc \in DOMAIN watch[w].rvs : \A e \in OwedFrom(w, loc) :
         watch[w].start[loc] <= e.pos
Collected(w) ==
  /\ watch[w].pc = "collect" =>
       \A loc \in DOMAIN watch[w].rvs \ watch[w].todo : \A e \in OwedFrom(w, loc) :
         InSeq(e, relay[w].pending)
  /\ watch[w].pc \in {"open", "serving"} =>
       \A loc \in DOMAIN watch[w].rvs : \A e \in OwedFrom(w, loc) : Reached(e, w)

(* What is owed is in the queue.                                           *)
LEMMA OwedQueued ==
  ASSUME TypeOK, NEW w \in Watches, SeenIsQueued(w), NEW loc \in DOMAIN watch[w].rvs,
         NEW e \in OwedFrom(w, loc)
  PROVE  /\ e \in Event /\ e.loc = loc /\ loc \in Locations
         /\ e.pos \in 1..queued[loc] /\ e.pos <= watch[w].seen[loc]
         /\ version[e] > watch[w].rvs[loc]
<1>1. loc \in Locations
  <2>1. watch[w].rvs \in ResumePoints \cup {<<>>}
    BY DEF TypeOK
  <2> QED BY <2>1, ResumeTyped
<1>2. /\ watch[w].seen[loc] \in 0..MaxEvents /\ queued[loc] \in 1..MaxEvents
      /\ watch[w].seen[loc] <= queued[loc]
  BY <1>1 DEF TypeOK, SeenIsQueued
<1>3. PICK pos \in 1..watch[w].seen[loc] :
        e = Entry(loc, pos) /\ version[Entry(loc, pos)] > watch[w].rvs[loc]
  BY DEF OwedFrom
<1>4. pos \in 1..MaxEvents /\ pos \in 1..queued[loc] /\ pos <= watch[w].seen[loc]
  BY <1>2, <1>3
<1> QED BY <1>1, <1>3, <1>4, EntryOf

(* Events are enqueued one after the other.                                *)
InLine == enqueuing # None => enqueuing.pos = queued[enqueuing.loc] + 1

RInv == \A w \in Watches : /\ SeenIsQueued(w) /\ NotOpened(w)
                           /\ Complete(w) => Indexed(w) /\ Collected(w)

(* Where an event is after a sequence was extended or shortened.           *)
LEMMA InAppended ==
  ASSUME NEW s \in Seq(Event), NEW e \in Event, NEW f \in Event, InSeq(e, s) \/ e = f
  PROVE  InSeq(e, Append(s, f))
<1>1. CASE e = f
  <2>1. Len(s) + 1 \in DOMAIN Append(s, f) /\ Append(s, f)[Len(s) + 1] = e
    BY <1>1
  <2> QED BY <2>1 DEF InSeq
<1>2. CASE InSeq(e, s)
  <2>1. PICK i \in DOMAIN s : s[i] = e
    BY <1>2 DEF InSeq
  <2>2. i \in DOMAIN Append(s, f) /\ Append(s, f)[i] = e
    BY <2>1
  <2> QED BY <2>2 DEF InSeq
<1> QED BY <1>1, <1>2

(* What is not the head is in the rest.                                    *)
LEMMA InTail ==
  ASSUME NEW s \in Seq(Event), NEW e, InSeq(e, s)
  PROVE  s # <<>> /\ (e = Head(s) \/ InSeq(e, Tail(s)))
<1>1. PICK i \in DOMAIN s : s[i] = e
  BY DEF InSeq
<1>2. CASE i = 1
  BY <1>1, <1>2
<1>3. CASE i # 1
  <2>1. i - 1 \in DOMAIN Tail(s) /\ Tail(s)[i - 1] = e
    BY <1>1, <1>3
  <2> QED BY <1>1, <2>1 DEF InSeq
<1> QED BY <1>2, <1>3

(* A concatenation has the elements of both.                               *)
LEMMA InConcat ==
  ASSUME NEW s \in Seq(Event), NEW u \in Seq(Event), NEW e, InSeq(e, s) \/ InSeq(e, u)
  PROVE  InSeq(e, s \o u)
<1>1. CASE InSeq(e, s)
  <2>1. PICK i \in DOMAIN s : s[i] = e
    BY <1>1 DEF InSeq
  <2>2. i \in DOMAIN (s \o u) /\ (s \o u)[i] = e
    BY <2>1
  <2> QED BY <2>2 DEF InSeq
<1>2. CASE InSeq(e, u)
  <2>1. PICK i \in DOMAIN u : u[i] = e
    BY <1>2 DEF InSeq
  <2>2. Len(s) + i \in DOMAIN (s \o u) /\ (s \o u)[Len(s) + i] = e
    BY <2>1
  <2> QED BY <2>2 DEF InSeq
<1> QED BY <1>1, <1>2

(* The events from a place on are all there.                               *)
LEMMA AllSince ==
  ASSUME TypeOK, NEW loc \in Locations, NEW first \in 1..(MaxEvents + 1), NEW pos \in first..queued[loc]
  PROVE  InSeq(Entry(loc, pos), EventsSince(loc, first))
<1>1. queued[loc] \in 1..MaxEvents
  BY DEF TypeOK
<1>2. pos - first + 1 \in 1..(queued[loc] - first + 1) /\ first + (pos - first + 1) - 1 = pos
  BY <1>1
<1> QED BY <1>2 DEF InSeq, EventsSince

(* What is owed to a watch stays what it is: queued entries have their     *)
(* versions.                                                               *)
VersionsStand == \A e \in Event : e.pos <= queued[e.loc] => version'[e] = version[e]
SameCall(w) == watch'[w].rvs = watch[w].rvs /\ watch'[w].seen = watch[w].seen

LEMMA OwedStands ==
  ASSUME TypeOK, NEW w \in Watches, SeenIsQueued(w), VersionsStand, SameCall(w)
  PROVE  /\ \A loc \in DOMAIN watch[w].rvs : OwedFrom(w, loc)' = OwedFrom(w, loc)
         /\ Complete(w)' <=> Complete(w)
<1>1. ASSUME NEW loc \in DOMAIN watch[w].rvs
      PROVE  OwedFrom(w, loc)' = OwedFrom(w, loc)
  <2>1. loc \in Locations
    <3>1. watch[w].rvs \in ResumePoints \cup {<<>>}
      BY DEF TypeOK
    <3> QED BY <3>1, ResumeTyped
  <2>2. ASSUME NEW pos \in 1..watch[w].seen[loc]
        PROVE  version'[Entry(loc, pos)] = version[Entry(loc, pos)]
    <3>1. /\ watch[w].seen[loc] \in 0..MaxEvents /\ queued[loc] \in 1..MaxEvents
          /\ watch[w].seen[loc] <= queued[loc]
      BY <2>1 DEF TypeOK, SeenIsQueued
    <3>2. pos \in 1..MaxEvents /\ pos <= queued[loc]
      BY <3>1
    <3> QED BY <2>1, <3>2, EntryOf DEF VersionsStand
  <2> QED BY <2>2 DEF OwedFrom, SameCall
<1> QED BY <1>1 DEF Complete, Missed, SameCall

(* A watch call that nobody carries on keeps what it has.                  *)
LEMMA ReplayStands ==
  ASSUME TypeOK, TypeOK', NEW w \in Watches, SeenIsQueued(w), NotOpened(w),
         Complete(w) => Indexed(w) /\ Collected(w),
         \A loc \in Locations : queued[loc] <= queued'[loc], VersionsStand,
         watch'[w] = watch[w], relay'[w] = relay[w], watchCh'[w] = watchCh[w],
         received'[w] = received[w]
  PROVE  /\ SeenIsQueued(w)' /\ NotOpened(w)'
         /\ Complete(w)' => Indexed(w)' /\ Collected(w)'
<1>1. \A loc \in Locations : /\ watch[w].seen[loc] \in Nat
                             /\ queued[loc] \in Nat /\ queued'[loc] \in Nat
  <2>1. queued \in [Locations -> 1..MaxEvents] /\ queued' \in [Locations -> 1..MaxEvents]
    BY DEF TypeOK
  <2>2. watch[w].seen \in [Locations -> 0..MaxEvents]
    BY DEF TypeOK
  <2> QED BY <2>1, <2>2
<1>2. SeenIsQueued(w)' /\ NotOpened(w)'
  BY <1>1 DEF SeenIsQueued, NotOpened
<1>3. /\ Complete(w)' <=> Complete(w)
      /\ \A loc \in DOMAIN watch[w].rvs : OwedFrom(w, loc)' = OwedFrom(w, loc)
  BY OwedStands DEF SameCall
<1>4. Indexed(w)' <=> Indexed(w)
  BY <1>3 DEF Indexed
<1>5. Collected(w)' <=> Collected(w)
  BY <1>3 DEF Collected, Reached
<1> QED BY <1>2, <1>3, <1>4, <1>5

(* No watch was called yet.                                                *)
LEMMA InitRInv == Init => RInv
BY DEF Init, NotCalled, RInv, SeenIsQueued, NotOpened, Complete, Missed, Indexed, Collected

(* The watch call: what it found so far follows what the client has.       *)
LEMMA WatchReplay ==
  ASSUME TInv, TInv', NEW w \in Watches, SeenIsQueued(w), NotOpened(w), VersionsStand,
         Complete(w) => Indexed(w) /\ Collected(w),
         Watch(w) \/ RejectRequest(w) \/ CallWatch(w)
  PROVE  /\ SeenIsQueued(w)' /\ NotOpened(w)'
         /\ Complete(w)' => Indexed(w)' /\ Collected(w)'
<1>1. /\ watch[w] \in WatchType /\ relay[w] \in RelayType
      /\ queued \in [Locations -> 1..MaxEvents]
      /\ watch \in [Watches -> WatchType] /\ relay \in [Watches -> RelayType]
  BY DEF TInv, TypeOK, WatchType, RelayType
<1>2. CASE Watch(w)
  <2>1. PICK rvs \in ResumePoints :
          /\ watch'[w].pc \in {"stop", "collect", "index"} /\ watch'[w].seen = queued
          /\ watch'[w].rvs = rvs
          /\ watch'[w].pc = "collect" => rvs = <<>>
          /\ watch'[w].pc = "index" => watch'[w].todo = DOMAIN rvs
    <3> DEFINE pc0(rvs) == IF watchChan # None THEN "stop" ELSE
                           IF rvs = <<>> THEN "collect" ELSE "index"
               todo0(rvs) == IF rvs = <<>> THEN Locations ELSE DOMAIN rvs
    <3>1. PICK rvs \in ResumePoints :
            watch' = [watch EXCEPT ![w] = [NotCalled EXCEPT !.pc = pc0(rvs), !.rvs = rvs,
                                                            !.todo = todo0(rvs), !.seen = queued]]
      BY <1>2 DEF Watch
    <3>2. /\ watch'[w].pc = pc0(rvs) /\ watch'[w].rvs = rvs /\ watch'[w].todo = todo0(rvs)
          /\ watch'[w].seen = queued
      <4> HIDE DEF pc0, todo0
      <4> QED BY <1>1, <3>1 DEF NotCalled
    <3> QED BY <3>2
  <2>2. UNCHANGED <<queued, relay>> /\ watch[w].pc = "idle"
    BY <1>2 DEF Watch
  <2>3. SeenIsQueued(w)' /\ NotOpened(w)'
    BY <1>1, <2>1, <2>2 DEF SeenIsQueued, NotOpened
  <2>4. Indexed(w)' /\ Collected(w)'
    BY <2>1 DEF Indexed, Collected
  <2> QED BY <2>3, <2>4
<1>3. CASE RejectRequest(w)
  <2>1. watch'[w].pc = "stop" /\ watch'[w].seen = watch[w].seen /\ UNCHANGED <<queued, relay>>
    BY <1>1, <1>3 DEF RejectRequest, WatchType
  <2> QED BY <2>1 DEF SeenIsQueued, NotOpened, Indexed, Collected
<1>4. ASSUME NEW loc \in Locations, getEventIndexSinceResourceVersion(w, loc)
      PROVE  /\ SeenIsQueued(w)' /\ NotOpened(w)'
             /\ Complete(w)' => Indexed(w)' /\ Collected(w)'
  <2> DEFINE rv == watch[w].rvs[loc]
             more == watch[w].todo \ {loc}
             first == IF AtEnd(rv, loc) THEN watch[w].start[loc] ELSE ResumeAfter(rv, loc)
             pc == IF TooOld(rv, loc) THEN "stop" ELSE
                   IF AtEnd(rv, loc) THEN "open" ELSE
                   IF more = {} THEN "collect" ELSE "index"
             todo == IF ~TooOld(rv, loc) /\ ~AtEnd(rv, loc) /\ more = {} THEN Locations ELSE more
  <2>1. /\ watch[w].pc = "index" /\ loc \in watch[w].todo
        /\ watch'[w].rvs = watch[w].rvs /\ watch'[w].seen = watch[w].seen
        /\ watch'[w].start = [watch[w].start EXCEPT ![loc] = first]
        /\ watch'[w].pc = pc /\ watch'[w].todo = todo
    <3> DEFINE step(new) == [watch EXCEPT ![w].pc = pc, ![w].start[loc] = new, ![w].todo = todo]
    <3>1. /\ watch[w].pc = "index" /\ loc \in watch[w].todo
          /\ watch' = step(IF AtEnd(rv, loc) THEN watch[w].start[loc] ELSE ResumeAfter(rv, loc))
      BY <1>1, <1>4 DEF getEventIndexSinceResourceVersion
    <3>2. watch' = step(first)
      <4> HIDE DEF step
      <4> QED BY <3>1
    <3>3. watch'[w] = [watch[w] EXCEPT !.pc = pc, !.start[loc] = first, !.todo = todo]
      <4> HIDE DEF pc, todo, first
      <4> QED BY <1>1, <3>2
    <3> HIDE DEF pc, todo, first, step
    <3>4. /\ watch'[w].rvs = watch[w].rvs /\ watch'[w].seen = watch[w].seen
          /\ watch'[w].start = [watch[w].start EXCEPT ![loc] = first]
          /\ watch'[w].pc = pc /\ watch'[w].todo = todo
      BY <1>1, <3>3 DEF WatchType
    <3> QED BY <3>1, <3>4
  <2>2. UNCHANGED <<queued, relay>>
    BY <1>4 DEF getEventIndexSinceResourceVersion
  <2>3. SeenIsQueued(w)' /\ NotOpened(w)'
    BY <2>1, <2>2 DEF SeenIsQueued, NotOpened
  <2>4. ASSUME Complete(w)' PROVE Indexed(w)' /\ Collected(w)'
    <3>0. /\ Complete(w)' <=> Complete(w)
          /\ \A l \in DOMAIN watch[w].rvs : OwedFrom(w, l)' = OwedFrom(w, l)
      BY <2>1, OwedStands DEF SameCall, TInv
    <3>1. Complete(w) /\ loc \in DOMAIN watch[w].rvs
      BY <2>1, <2>4, <3>0 DEF TInv, IndexWithin
    <3>2. DOMAIN watch[w].rvs \subseteq Locations
      BY <1>1, ResumeTyped DEF WatchType
    <3>3. \A e \in OwedFrom(w, loc) : e.pos \in Newer(rv, loc)
      <4> SUFFICES ASSUME NEW e \in OwedFrom(w, loc) PROVE e.pos \in Newer(rv, loc)
        OBVIOUS
      <4>1. e \in Event /\ e.loc = loc /\ e.pos \in 1..queued[loc] /\ version[e] > rv
        BY <3>1, OwedQueued DEF TInv
      <4>2. e = Entry(loc, e.pos)
        BY <4>1, EntryOf
      <4> QED BY <4>1, <4>2 DEF Newer
    <3>4. ~AtEnd(rv, loc)
      <4>1. OwedFrom(w, loc) # {}
        BY <3>1 DEF Complete, Missed
      <4> QED BY <3>3, <4>1 DEF AtEnd
    <3>5. \A e \in OwedFrom(w, loc) : first <= e.pos
      <4>1. Newer(rv, loc) \in SUBSET Nat /\ Newer(rv, loc) # {}
        BY <3>4 DEF Newer, AtEnd
      <4>2. \A y \in Newer(rv, loc) : Min(Newer(rv, loc)) <= y
        BY <4>1, SmallestExists
      <4> QED BY <3>3, <3>4, <4>2 DEF ResumeAfter
    <3>6. /\ pc \in {"stop", "collect", "index"}
          /\ pc = "collect" => more = {} /\ todo = Locations
          /\ pc = "index" => todo = more
      BY <3>4
    <3> HIDE DEF rv, first, pc, todo
    <3>7. \A l \in DOMAIN watch[w].rvs \ more : pc # "stop" =>
            \A e \in OwedFrom(w, l) : watch'[w].start[l] <= e.pos
      <4> SUFFICES ASSUME NEW l \in DOMAIN watch[w].rvs \ more, NEW e \in OwedFrom(w, l)
                   PROVE  watch'[w].start[l] <= e.pos
        OBVIOUS
      <4>1. watch[w].start \in [Locations -> 1..(MaxEvents + 1)] /\ l \in Locations
        BY <1>1, <3>2 DEF WatchType
      <4>2. CASE l = loc
        BY <2>1, <3>5, <4>1, <4>2
      <4>3. CASE l # loc
        <5>1. watch[w].start[l] <= e.pos
          BY <2>1, <3>1, <4>3 DEF Indexed
        <5> QED BY <2>1, <4>1, <4>3, <5>1
      <4> QED BY <4>2, <4>3
    <3> HIDE DEF more
    <3>8. Indexed(w)'
      <4>1. watch'[w].pc = "index" =>
              \A l \in DOMAIN watch'[w].rvs \ watch'[w].todo : \A e \in OwedFrom(w, l)' :
                watch'[w].start[l] <= e.pos
        BY <2>1, <3>0, <3>6, <3>7
      <4>2. watch'[w].pc = "collect" =>
              \A l \in DOMAIN watch'[w].rvs : \A e \in OwedFrom(w, l)' :
                watch'[w].start[l] <= e.pos
        BY <2>1, <3>0, <3>6, <3>7
      <4> QED BY <4>1, <4>2 DEF Indexed
    <3>9. Collected(w)'
      BY <2>1, <3>2, <3>6 DEF Collected
    <3> QED BY <3>8, <3>9
  <2> QED BY <2>3, <2>4
<1>5. ASSUME NEW loc \in Locations, getEventsFromIndex(w, loc)
      PROVE  /\ SeenIsQueued(w)' /\ NotOpened(w)'
             /\ Complete(w)' => Indexed(w)' /\ Collected(w)'
  <2> DEFINE found == EventsSince(loc, watch[w].start[loc])
  <2>1. /\ watch[w].pc = "collect" /\ loc \in watch[w].todo
        /\ watch'[w].rvs = watch[w].rvs /\ watch'[w].seen = watch[w].seen
        /\ watch'[w].start = watch[w].start /\ watch'[w].todo = watch[w].todo \ {loc}
        /\ watch'[w].pc = IF watch[w].todo = {loc} THEN "open" ELSE "collect"
        /\ relay'[w].pc = relay[w].pc /\ relay'[w].pending = relay[w].pending \o found
        /\ UNCHANGED <<queued, watchCh, received>>
    BY <1>1, <1>5 DEF getEventsFromIndex, WatchType, RelayType
  <2>2. SeenIsQueued(w)' /\ NotOpened(w)'
    BY <2>1 DEF SeenIsQueued, NotOpened
  <2>3. ASSUME Complete(w)' PROVE Indexed(w)' /\ Collected(w)'
    <3>0. /\ Complete(w)' <=> Complete(w)
          /\ \A l \in DOMAIN watch[w].rvs : OwedFrom(w, l)' = OwedFrom(w, l)
      BY <2>1, OwedStands DEF SameCall, TInv
    <3>1. Complete(w)
      BY <2>3, <3>0
    <3>2. Indexed(w)'
      BY <2>1, <3>0, <3>1 DEF Indexed
    <3>3. watch[w].start[loc] \in 1..(MaxEvents + 1) /\ relay[w].pending \in Seq(Event)
      BY <1>1 DEF WatchType, RelayType
    <3>4. found \in Seq(Event)
      BY <3>3, EventsTyped DEF TInv
    <3>5. ASSUME NEW l \in DOMAIN watch[w].rvs \ watch'[w].todo, NEW e \in OwedFrom(w, l)
          PROVE  InSeq(e, relay'[w].pending)
      <4>1. CASE l # loc
        <5>1. InSeq(e, relay[w].pending)
          BY <2>1, <3>1, <3>5, <4>1 DEF Collected
        <5> QED BY <2>1, <3>3, <3>4, <5>1, InConcat
      <4>2. CASE l = loc
        <5>1. /\ e = Entry(loc, e.pos) /\ e.pos \in 1..queued[loc] /\ queued[loc] \in Nat
              /\ watch[w].start[loc] <= e.pos
          <6>1. e \in Event /\ e.loc = loc /\ e.pos \in 1..queued[loc]
            BY <3>5, <4>2, OwedQueued DEF TInv
          <6>2. watch[w].start[loc] <= e.pos
            BY <2>1, <3>1, <3>5, <4>2 DEF Indexed
          <6>3. queued[loc] \in Nat
            BY <1>1
          <6> QED BY <6>1, <6>2, <6>3, EntryOf
        <5>4. e.pos \in watch[w].start[loc]..queued[loc]
          BY <3>3, <5>1
        <5>5. InSeq(e, found)
          BY <3>3, <5>1, <5>4, AllSince DEF TInv
        <5> HIDE DEF found
        <5> QED BY <2>1, <3>3, <3>4, <5>5, InConcat
      <4> QED BY <4>1, <4>2
    <3>6. watch'[w].pc = "open" => watch'[w].todo = {}
      BY <2>1
    <3>7. watch'[w].pc # "serving"
      BY <2>1
    <3>8. DOMAIN watch[w].rvs \subseteq Locations
      BY <1>1, ResumeTyped DEF WatchType
    <3>9. Collected(w)'
      BY <2>1, <3>0, <3>5, <3>6, <3>7, <3>8 DEF Collected, Reached
    <3> QED BY <3>2, <3>9
  <2> QED BY <2>2, <2>3
<1>6. CASE OpenWatchChan(w)
  <2>1. /\ watch[w].pc = "open" /\ watch'[w].pc = "serving"
        /\ watch'[w].rvs = watch[w].rvs /\ watch'[w].seen = watch[w].seen
        /\ relay'[w].pending = relay[w].pending
        /\ UNCHANGED <<queued, version, watchCh, received>>
    BY <1>1, <1>6 DEF OpenWatchChan, WatchType, RelayType
  <2> QED BY <2>1 DEF SeenIsQueued, NotOpened, Complete, Missed, Indexed, Collected, Reached, OwedFrom
<1> QED BY <1>2, <1>3, <1>4, <1>5, <1>6 DEF CallWatch

(* The relay and the handler: an event moves on.                           *)
LEMMA ServeReplay ==
  ASSUME TInv, TInv', NEW w \in Watches, SeenIsQueued(w), NotOpened(w),
         Complete(w) => Indexed(w) /\ Collected(w),
         \/ Relay(w) \/ SendToClient(w) \/ RequestDone(w) \/ EncodingFails(w) \/ stopWatch(w)
  PROVE  /\ SeenIsQueued(w)' /\ NotOpened(w)'
         /\ Complete(w)' => Indexed(w)' /\ Collected(w)'
<1>1. /\ watch \in [Watches -> WatchType] /\ relay \in [Watches -> RelayType]
      /\ watchCh \in [Watches -> Seq(Event)] /\ received \in [Watches -> [Event -> Nat]]
  BY DEF TInv, TypeOK, WatchType, RelayType
<1>2. CASE RequestDone(w) \/ EncodingFails(w) \/ stopWatch(w)
  <2>1. /\ watch'[w].pc \in {"stop", "returned"} /\ watch'[w].seen = watch[w].seen
        /\ UNCHANGED queued
    BY <1>1, <1>2 DEF RequestDone, EncodingFails, stopWatch, WatchType
  <2> QED BY <2>1 DEF SeenIsQueued, NotOpened, Indexed, Collected
<1>3. CASE StopRelay(w)
  <2>1. /\ relay[w].pc = "stopping" /\ relay'[w].pending = relay[w].pending
        /\ UNCHANGED <<queued, version, watch, watchCh, received>>
    BY <1>1, <1>3 DEF StopRelay, RelayType
  <2>2. watch[w].pc \notin {"idle", "index", "collect", "open"}
    BY <2>1 DEF NotOpened
  <2> QED BY <2>1, <2>2 DEF SeenIsQueued, NotOpened, Complete, Missed, Indexed, Collected, Reached, OwedFrom
<1>4. CASE SendDownstream(w) \/ (\E e \in Event : ReceiveUpstream(w, e)) \/ SendToClient(w)
  <2>1. UNCHANGED <<queued, version, watch>> /\ watch[w].pc \notin {"idle", "index", "collect", "open"}
    BY <1>4 DEF SendDownstream, ReceiveUpstream, SendToClient, NotOpened
  <2>2. \A e \in Event : Reached(e, w) => Reached(e, w)'
    <3> SUFFICES ASSUME NEW e \in Event, Reached(e, w) PROVE Reached(e, w)'
      OBVIOUS
    <3>0. relay[w].pending \in Seq(Event) /\ watchCh[w] \in Seq(Event) /\ received[w][e] \in Nat
      BY <1>1 DEF RelayType
    <3>1. CASE SendDownstream(w)
      <4> DEFINE f == Head(relay[w].pending)
      <4>1. /\ watchCh'[w] = Append(watchCh[w], f) /\ relay'[w].pending = Tail(relay[w].pending)
            /\ relay[w].pending # <<>> /\ UNCHANGED received
        BY <1>1, <3>1 DEF SendDownstream, RelayType
      <4>2. f \in Event
        BY <3>0, <4>1
      <4>3. InSeq(e, relay[w].pending) => e = f \/ InSeq(e, Tail(relay[w].pending))
        BY <3>0, InTail
      <4> HIDE DEF f
      <4>4. InSeq(e, watchCh[w]) \/ e = f => InSeq(e, watchCh'[w])
        BY <3>0, <4>1, <4>2, InAppended
      <4> QED BY <4>1, <4>3, <4>4 DEF Reached
    <3>2. ASSUME NEW f \in Event, ReceiveUpstream(w, f) PROVE Reached(e, w)'
      <4>1. relay[w].pending = <<>> /\ UNCHANGED <<watchCh, received>>
        BY <3>2 DEF ReceiveUpstream
      <4>2. ~InSeq(e, relay[w].pending)
        BY <4>1 DEF InSeq
      <4> QED BY <4>1, <4>2 DEF Reached
    <3>3. CASE SendToClient(w)
      <4> DEFINE f == Head(watchCh[w])
      <4>1. /\ watchCh[w] # <<>> /\ watchCh'[w] = Tail(watchCh[w]) /\ UNCHANGED relay
            /\ received' = [received EXCEPT ![w][f] = @ + 1]
        BY <1>1, <3>3 DEF SendToClient
      <4>2. f \in Event
        BY <3>0, <4>1
      <4>3. InSeq(e, watchCh[w]) => e = f \/ InSeq(e, Tail(watchCh[w]))
        BY <3>0, InTail
      <4> HIDE DEF f
      <4>4. received[w][e] > 0 \/ e = f => received'[w][e] > 0
        BY <1>1, <3>0, <4>1, <4>2
      <4> QED BY <4>1, <4>3, <4>4 DEF Reached
    <3> QED BY <1>4, <3>1, <3>2, <3>3
  <2>3. \A loc \in DOMAIN watch[w].rvs : OwedFrom(w, loc) \subseteq Event
    BY OwedQueued DEF TInv
  <2>4. Complete(w)' <=> Complete(w)
    BY <2>1 DEF Complete, Missed, OwedFrom
  <2>5. Collected(w) => Collected(w)'
    BY <2>1, <2>2, <2>3 DEF Collected, OwedFrom
  <2> QED BY <2>1, <2>4, <2>5 DEF SeenIsQueued, NotOpened, Indexed
<1> QED BY <1>2, <1>3, <1>4 DEF Relay

(* Only EnqueueEvent says what it enqueues.                                *)
LEMMA EnqueuingStays ==
  ASSUME [Next]_vars, ~AppendEvent, \A e \in Event : ~NotifyWatcher(e)
  PROVE  UNCHANGED <<queued, version, enqueuing>>
<1>1. ASSUME NEW w \in Watches, Watch(w) \/ RejectRequest(w) \/ CallWatch(w) \/ Relay(w)
      PROVE  UNCHANGED <<queued, version, enqueuing>>
  BY <1>1 DEF Watch, RejectRequest, CallWatch, getEventIndexSinceResourceVersion,
     getEventsFromIndex, OpenWatchChan, Relay, SendDownstream, ReceiveUpstream, StopRelay
<1>2. ASSUME NEW w \in Watches,
             SendToClient(w) \/ RequestDone(w) \/ EncodingFails(w) \/ stopWatch(w)
      PROVE  UNCHANGED <<queued, version, enqueuing>>
  BY <1>2 DEF SendToClient, RequestDone, EncodingFails, stopWatch
<1>3. ASSUME NEW e \in Event, SendOnWatchChan(e) PROVE UNCHANGED <<queued, version, enqueuing>>
  BY <1>3 DEF SendOnWatchChan
<1>4. UNCHANGED vars => UNCHANGED <<queued, version, enqueuing>>
  BY DEF vars
<1> QED BY <1>1, <1>2, <1>3, <1>4 DEF Next

(* The next entry of a location is the next; those before stay.            *)
LEMMA NextInLine ==
  ASSUME TInv, TInv', InLine, [Next]_vars
  PROVE  InLine' /\ VersionsStand /\ \A loc \in Locations : queued[loc] <= queued'[loc]
<1>1. /\ queued \in [Locations -> 1..MaxEvents] /\ queued' \in [Locations -> 1..MaxEvents]
      /\ enqueuing \in Event \cup {None}
  BY DEF TInv, TypeOK
<1>2. ASSUME NEW e \in Event, NotifyWatcher(e)
      PROVE  InLine' /\ VersionsStand /\ UNCHANGED queued
  <2>1. enqueuing' = e /\ e.pos = queued[e.loc] + 1 /\ UNCHANGED queued
    BY <1>2 DEF NotifyWatcher
  <2>2. queued[e.loc] \in Nat
    BY <1>1, EntryOf
  <2>3. VersionsStand
    BY <1>2, <2>1, <2>2, NotifyVersion DEF VersionsStand
  <2> QED BY <2>1, <2>3 DEF InLine
<1>3. CASE AppendEvent
  <2>1. /\ enqueuing \in Event /\ enqueuing.pos = queued[enqueuing.loc] + 1 /\ enqueuing' = None
        /\ queued' = [queued EXCEPT ![enqueuing.loc] = enqueuing.pos]
    BY <1>1, <1>3 DEF AppendEvent, InLine
  <2>2. \A loc \in Locations : queued[loc] <= queued'[loc]
    BY <1>1, <2>1 DEF Event
  <2> QED BY <1>3, <2>1, <2>2 DEF InLine, AppendEvent, VersionsStand
<1>4. CASE UNCHANGED <<queued, version, enqueuing>>
  BY <1>1, <1>4 DEF InLine, VersionsStand
<1>5. UNCHANGED queued => \A loc \in Locations : queued[loc] <= queued'[loc]
  BY <1>1
<1> QED BY <1>2, <1>3, <1>4, <1>5, EnqueuingStays

(* Every step keeps what a watch call has found.                           *)
LEMMA NextRInv ==
  ASSUME TInv, TInv', InLine, RInv, [Next]_vars
  PROVE  RInv'
<1> SUFFICES ASSUME NEW w \in Watches
             PROVE  /\ SeenIsQueued(w)' /\ NotOpened(w)'
                    /\ Complete(w)' => Indexed(w)' /\ Collected(w)'
  BY DEF RInv
<1>1. SeenIsQueued(w) /\ NotOpened(w) /\ (Complete(w) => Indexed(w) /\ Collected(w))
  BY DEF RInv
<1>2. /\ watch \in [Watches -> WatchType] /\ relay \in [Watches -> RelayType]
      /\ watchCh \in [Watches -> Seq(Event)] /\ received \in [Watches -> [Event -> Nat]]
      /\ queued \in [Locations -> 1..MaxEvents]
  BY DEF TInv, TypeOK, WatchType, RelayType
<1>3. TypeOK /\ TypeOK'
  BY DEF TInv
<1>4. ASSUME NEW v \in Watches, v # w,
             \/ Watch(v) \/ RejectRequest(v) \/ CallWatch(v)
             \/ Relay(v) \/ SendToClient(v) \/ RequestDone(v) \/ EncodingFails(v) \/ stopWatch(v)
      PROVE  /\ watch'[w] = watch[w] /\ relay'[w] = relay[w] /\ watchCh'[w] = watchCh[w]
             /\ received'[w] = received[w] /\ UNCHANGED queued
  BY <1>4, OthersFrame
<1>5. ASSUME NEW e \in Event, NotifyWatcher(e) \/ SendOnWatchChan(e)
      PROVE  UNCHANGED <<queued, watch, relay, watchCh, received>>
  BY <1>5 DEF NotifyWatcher, SendOnWatchChan
<1>6. AppendEvent \/ UNCHANGED vars => UNCHANGED <<watch, relay, watchCh, received>>
  BY DEF AppendEvent, vars
<1>7. \A loc \in Locations : queued[loc] \in Nat
  BY <1>2
<1>8. VersionsStand /\ \A loc \in Locations : queued[loc] <= queued'[loc]
  BY NextInLine
<1>9. CASE /\ watch'[w] = watch[w] /\ relay'[w] = relay[w] /\ watchCh'[w] = watchCh[w]
           /\ received'[w] = received[w]
  BY <1>1, <1>3, <1>8, <1>9, ReplayStands
<1>10. CASE Watch(w) \/ RejectRequest(w) \/ CallWatch(w)
  BY <1>1, <1>8, <1>10, WatchReplay
<1>11. CASE Relay(w) \/ SendToClient(w) \/ RequestDone(w) \/ EncodingFails(w) \/ stopWatch(w)
  BY <1>1, <1>11, ServeReplay
<1> QED BY <1>4, <1>5, <1>6, <1>9, <1>10, <1>11 DEF Next

(* A watch whose client is behind in every location it names brings all    *)
(* that was queued when it was called, wherever the client resumes and     *)
(* however many events come in while the queues are read without a lock.   *)
THEOREM ReplayIsComplete == Spec => []ReplayComplete
<1>1. Init => TInv /\ InLine /\ RInv
  BY InitTInv, InitRInv DEF Init, InLine
<1>2. TInv /\ InLine /\ RInv /\ [Next]_vars => (TInv /\ InLine /\ RInv)'
  BY NextTInv, NextInLine, NextRInv
<1>3. TInv /\ RInv => ReplayComplete
  <2> SUFFICES ASSUME TInv, RInv, NEW w \in Watches, watch[w].pc = "serving",
                      Missed(w) = DOMAIN watch[w].rvs,
                      NEW loc \in Missed(w), NEW e \in OwedFrom(w, loc)
               PROVE  OnItsWay(e, w)
    BY DEF ReplayComplete
  <2> QED BY DEF RInv, Complete, Collected, Reached, OnItsWay
<1> QED BY <1>1, <1>2, <1>3, PTL DEF Spec

-----------------------------------------------------------------------------
(* Duplicates.  How often an event is in a sequence.                       *)
Places(e, s) == {i \in DOMAIN s : s[i] = e}
Count(e, s) == Cardinality(Places(e, s))

(* A sequence has an event finitely often.                                 *)
LEMMA PlacesFinite ==
  ASSUME NEW s \in Seq(Event), NEW e
  PROVE  IsFiniteSet(Places(e, s)) /\ Count(e, s) \in Nat
<1>1. IsFiniteSet(1..Len(s)) /\ Places(e, s) \in SUBSET (1..Len(s))
  BY FS_Interval DEF Places
<1>2. IsFiniteSet(Places(e, s))
  BY <1>1, FS_Subset
<1> QED BY <1>2, FS_CardinalityType DEF Count

(* Nothing is in the empty sequence.                                       *)
LEMMA CountEmpty ==
  ASSUME NEW e
  PROVE  Count(e, <<>>) = 0
<1>1. Places(e, <<>>) = {}
  BY DEF Places
<1> QED BY <1>1, FS_EmptySet DEF Count

(* One event is once in its sequence.                                      *)
LEMMA CountOne ==
  ASSUME NEW e \in Event, NEW f \in Event
  PROVE  Count(e, <<f>>) = IF e = f THEN 1 ELSE 0
<1>1. Places(e, <<f>>) = IF e = f THEN {1} ELSE {}
  BY DEF Places
<1> QED BY <1>1, FS_EmptySet, FS_Singleton DEF Count

(* An event more.                                                          *)
LEMMA CountAppend ==
  ASSUME NEW s \in Seq(Event), NEW e \in Event, NEW f \in Event
  PROVE  Count(e, Append(s, f)) = Count(e, s) + (IF e = f THEN 1 ELSE 0)
<1>1. Places(e, Append(s, f)) = IF e = f THEN Places(e, s) \cup {Len(s) + 1} ELSE Places(e, s)
  BY DEF Places
<1>2. IsFiniteSet(Places(e, s)) /\ Count(e, s) \in Nat
  BY PlacesFinite
<1>3. Len(s) + 1 \notin Places(e, s)
  BY DEF Places
<1>4. Cardinality(Places(e, s) \cup {Len(s) + 1}) = Cardinality(Places(e, s)) + 1
  BY <1>2, <1>3, FS_AddElement
<1> QED BY <1>1, <1>2, <1>4 DEF Count

(* An event less.                                                          *)
LEMMA CountTail ==
  ASSUME NEW s \in Seq(Event), s # <<>>, NEW e \in Event
  PROVE  Count(e, s) = Count(e, Tail(s)) + (IF e = Head(s) THEN 1 ELSE 0)
<1> DEFINE rest == {i \in Places(e, s) : i # 1}
           back == [i \in Places(e, Tail(s)) |-> i + 1]
<1>1. Tail(s) \in Seq(Event) /\ Len(Tail(s)) = Len(s) - 1 /\ Len(s) \in Nat
      /\ \A i \in 1..(Len(s) - 1) : Tail(s)[i] = s[i + 1]
      /\ 1 \in DOMAIN s /\ Head(s) = s[1]
  OBVIOUS
<1>2. back \in Bijection(Places(e, Tail(s)), rest)
  <2>1. \A i \in Places(e, Tail(s)) : i \in 1..(Len(s) - 1) /\ i + 1 \in rest
    BY <1>1 DEF Places
  <2>2. \A j \in rest : j - 1 \in Places(e, Tail(s)) /\ back[j - 1] = j
    BY <1>1 DEF Places
  <2>3. back \in [Places(e, Tail(s)) -> rest]
    BY <2>1
  <2>4. \A a, b \in Places(e, Tail(s)) : back[a] = back[b] => a = b
    BY <2>1
  <2> HIDE DEF back, rest
  <2> QED BY <2>2, <2>3, <2>4, Fun_IsBij
<1>3. IsFiniteSet(Places(e, Tail(s)))
  BY <1>1, PlacesFinite
<1>4. IsFiniteSet(rest) /\ Cardinality(rest) = Count(e, Tail(s)) /\ Count(e, Tail(s)) \in Nat
  <2> HIDE DEF back, rest
  <2>1. ExistsBijection(Places(e, Tail(s)), rest)
    BY <1>2 DEF ExistsBijection
  <2> QED BY <1>1, <1>3, <2>1, FS_Bijection, PlacesFinite DEF Count
<1>5. Places(e, s) = IF e = Head(s) THEN rest \cup {1} ELSE rest
  BY <1>1 DEF Places
<1>6. 1 \notin rest
  OBVIOUS
<1> HIDE DEF rest
<1>7. Cardinality(rest \cup {1}) = Cardinality(rest) + 1
  BY <1>4, <1>6, FS_AddElement
<1> QED BY <1>4, <1>5, <1>7 DEF Count

(* The entries from a place on are different from each other.              *)
LEMMA CountSince ==
  ASSUME TypeOK, NEW s \in Seq(Event), NEW loc \in Locations, NEW first \in 1..(MaxEvents + 1),
         NEW e \in Event
  PROVE  /\ e.loc # loc => Count(e, s \o EventsSince(loc, first)) = Count(e, s)
         /\ e.loc = loc /\ Count(e, s) = 0 => Count(e, s \o EventsSince(loc, first)) <= 1
         /\ e.loc = loc /\ e.pos > queued[loc] =>
              Count(e, s \o EventsSince(loc, first)) = Count(e, s)
<1> DEFINE u == EventsSince(loc, first)
<1>1. u \in Seq(Event)
  BY EventsTyped
<1>2. /\ DOMAIN u = 1..(queued[loc] - first + 1) /\ queued[loc] \in Nat
      /\ \A i \in DOMAIN u : u[i].loc = loc /\ u[i].pos = first + i - 1
  BY DEF EventsSince, Entry, TypeOK
<1> HIDE DEF u
<1>3. s \o u \in Seq(Event) /\ Len(s) \in Nat /\ DOMAIN s = 1..Len(s) /\ Len(s \o u) = Len(s) + Len(u)
      /\ Len(u) \in Nat /\ DOMAIN u = 1..Len(u)
      /\ (\A i \in DOMAIN s : (s \o u)[i] = s[i])
      /\ (\A i \in 1..Len(u) : (s \o u)[Len(s) + i] = u[i])
  BY <1>1
<1>4. \A i \in DOMAIN (s \o u) : i \in DOMAIN s \/ (i - Len(s) \in DOMAIN u /\ (s \o u)[i] = u[i - Len(s)])
  BY <1>3
<1>5. ASSUME \A i \in DOMAIN u : u[i] # e
      PROVE  Count(e, s \o u) = Count(e, s)
  <2>1. Places(e, s \o u) = Places(e, s)
    BY <1>3, <1>4, <1>5 DEF Places
  <2> QED BY <2>1 DEF Count
<1>6. e.loc # loc \/ e.pos > queued[loc] => \A i \in DOMAIN u : u[i] # e
  <2>1. \A i \in DOMAIN u : u[i].pos <= queued[loc]
    BY <1>2
  <2>2. e.pos \in Nat /\ \A i \in DOMAIN u : first + i - 1 \in Nat
    BY <1>2 DEF Event
  <2> QED BY <1>2, <2>1, <2>2
<1>7. ASSUME Count(e, s) = 0 PROVE Count(e, s \o u) <= 1
  <2>1. Places(e, s) = {}
    BY <1>7, PlacesFinite, FS_EmptySet DEF Count
  <2>2. \A i, j \in Places(e, s \o u) : i = j
    <3> SUFFICES ASSUME NEW i \in Places(e, s \o u), NEW j \in Places(e, s \o u) PROVE i = j
      OBVIOUS
    <3>1. /\ i - Len(s) \in DOMAIN u /\ u[i - Len(s)] = e
          /\ j - Len(s) \in DOMAIN u /\ u[j - Len(s)] = e
          /\ i \in Nat /\ j \in Nat
      BY <1>3, <1>4, <2>1 DEF Places
    <3>2. e.pos = first + (i - Len(s)) - 1 /\ e.pos = first + (j - Len(s)) - 1
      BY <1>2, <3>1
    <3>3. first \in Nat /\ e.pos \in Nat /\ Len(s) \in Nat
      BY <1>2, <1>3 DEF Event
    <3> QED BY ONLY <3>1, <3>2, <3>3
  <2>3. CASE Places(e, s \o u) = {}
    BY <2>3, FS_EmptySet DEF Count
  <2>4. CASE Places(e, s \o u) # {}
    <3>1. PICK i \in Places(e, s \o u) : TRUE
      BY <2>4
    <3>2. Places(e, s \o u) = {i}
      BY <2>2, <3>1
    <3>3. Cardinality({i}) = 1
      BY FS_Singleton
    <3> QED BY <3>2, <3>3 DEF Count
  <2> QED BY <2>3, <2>4
<1> QED BY <1>5, <1>6, <1>7 DEF u

(* How often an event was sent to the client or is on its way to it, past  *)
(* the goroutine that delivers it.                                         *)
Total(w, e) == received[w][e] + Count(e, watchCh[w]) + Count(e, relay[w].pending)

Unopened(w) == relay[w].pc = "none"
OnlyWatch(w) == \A v \in Watches \ {w} : Unopened(v)

(* Before it is opened, a watch has no more than what the second loop has  *)
(* fetched.                                                                *)
Fresh ==
  \A w \in Watches : \A e \in Event :
    /\ Unopened(w) => received[w][e] = 0 /\ watchCh[w] = <<>>
    /\ watch[w].pc \in {"idle", "index"} => Count(e, relay[w].pending) = 0
    /\ watch[w].pc = "collect" /\ e.loc \in watch[w].todo => Count(e, relay[w].pending) = 0

(* An event gets its delivery goroutine once, when it is enqueued, and     *)
(* only if a watch was opened before.                                      *)
Handed == \A e \in Event : delivery[e] # "none" => e.pos <= queued[e.loc] \/ enqueuing = e
NobodyToHand ==
  (\A w \in Watches : Unopened(w)) => watchChan = None /\ \A e \in Event : delivery[e] = "none"

(* An event comes from the queue or from its goroutine, and from both only *)
(* when another watch caused the goroutine.                                *)
FromQueue ==
  \A w \in Watches : \A e \in Event :
    Total(w, e) > 0 /\ delivery[e] = "none" => e.pos <= queued[e.loc]
AtMostTwice ==
  \A w \in Watches : \A e \in Event :
    Total(w, e) <= 2 /\ (delivery[e] # "done" => Total(w, e) <= 1)
AtMostOnce ==
  \A w \in Watches : OnlyWatch(w) => \A e \in Event :
    Total(w, e) <= 1 /\ (delivery[e] \notin {"none", "done"} => Total(w, e) = 0)

(* How often a watch gets an event.                                        *)
CInv == Fresh /\ Handed /\ NobodyToHand /\ FromQueue /\ AtMostTwice /\ AtMostOnce

(* An event is counted in three places.                                    *)
LEMMA TotalTyped ==
  ASSUME TypeOK, NEW w \in Watches, NEW e \in Event
  PROVE  /\ received[w][e] \in Nat /\ Count(e, watchCh[w]) \in Nat /\ Count(e, relay[w].pending) \in Nat
         /\ relay[w].pending \in Seq(Event) /\ watchCh[w] \in Seq(Event)
         /\ Total(w, e) \in Nat
<1>1. relay[w].pending \in Seq(Event) /\ watchCh[w] \in Seq(Event) /\ received[w][e] \in Nat
  BY DEF TypeOK
<1>2. Count(e, watchCh[w]) \in Nat /\ Count(e, relay[w].pending) \in Nat
  BY <1>1, PlacesFinite
<1> QED BY <1>1, <1>2 DEF Total

(* No watch has been sent anything yet.                                    *)
LEMMA InitCInv == Init => CInv
<1> SUFFICES ASSUME Init PROVE CInv
  OBVIOUS
<1>1. /\ \A w \in Watches : /\ relay[w].pending = <<>> /\ relay[w].pc = "none" /\ watchCh[w] = <<>>
                            /\ watch[w].pc = "idle"
                            /\ \A e \in Event : received[w][e] = 0
      /\ \A e \in Event : delivery[e] = "none"
      /\ watchChan = None
  BY DEF Init, NotCalled
<1>2. \A w \in Watches : \A e \in Event : Total(w, e) = 0
  BY <1>1, CountEmpty DEF Total
<1> QED BY <1>1, <1>2, CountEmpty
        DEF CInv, Fresh, Handed, NobodyToHand, FromQueue, AtMostTwice, AtMostOnce, Unopened

(* What a step does to one event of one watch: it moves it on, takes it    *)
(* from its goroutine, or finds it in the queue.                           *)
Moves(w, e) == Total(w, e)' <= Total(w, e)
Takes(w, e) ==
  /\ ~Unopened(w) /\ delivery[e] = w /\ delivery'[e] = "done"
  /\ Total(w, e)' = Total(w, e) + 1
Fetches(w, e) ==
  /\ watch[w].pc = "collect" /\ e.loc \in watch[w].todo
  /\ Total(w, e)' <= 1 /\ (Total(w, e)' > 0 => e.pos <= queued[e.loc])
  /\ UNCHANGED <<delivery, queued>>

(* A watch whose places stay the same.                                     *)
LEMMA SameTotal ==
  ASSUME TypeOK, NEW w \in Watches, NEW e \in Event, relay'[w].pending = relay[w].pending,
         watchCh'[w] = watchCh[w], received'[w] = received[w]
  PROVE  Moves(w, e)
<1>1. Total(w, e)' = Total(w, e)
  BY DEF Total
<1> QED BY <1>1, TotalTyped DEF Moves

(* The three are all that happens.                                         *)
LEMMA TotalStep ==
  ASSUME TInv, RInv, CInv, [Next]_vars, NEW w \in Watches, NEW e \in Event
  PROVE  Moves(w, e) \/ Takes(w, e) \/ Fetches(w, e)
<1>1. /\ watch \in [Watches -> WatchType] /\ relay \in [Watches -> RelayType]
      /\ watchCh \in [Watches -> Seq(Event)] /\ received \in [Watches -> [Event -> Nat]]
      /\ delivery \in [Event -> {"none", "started", "blocked", "done"} \cup Watches]
      /\ TypeOK
  BY DEF TInv, TypeOK, WatchType, RelayType
<1>2. /\ received[w][e] \in Nat /\ Count(e, watchCh[w]) \in Nat /\ Count(e, relay[w].pending) \in Nat
      /\ relay[w].pending \in Seq(Event) /\ watchCh[w] \in Seq(Event)
  BY <1>1, TotalTyped
<1>3. CASE relay'[w].pending = relay[w].pending /\ watchCh'[w] = watchCh[w] /\ received'[w] = received[w]
  BY <1>1, <1>3, SameTotal
<1>4. ASSUME NEW loc \in Locations, getEventsFromIndex(w, loc)
      PROVE  Moves(w, e) \/ Fetches(w, e)
  <2> DEFINE first == watch[w].start[loc]
  <2>1. /\ watch[w].pc = "collect" /\ loc \in watch[w].todo /\ first \in 1..(MaxEvents + 1)
        /\ relay'[w].pending = relay[w].pending \o EventsSince(loc, first)
        /\ UNCHANGED <<queued, delivery, watchCh, received>>
    BY <1>1, <1>4 DEF getEventsFromIndex, WatchType, RelayType
  <2>2. Total(w, e)' = received[w][e] + Count(e, watchCh[w]) + Count(e, relay'[w].pending)
    BY <2>1 DEF Total
  <2>3. queued[loc] \in Nat /\ e.pos \in Nat
    <3>1. queued \in [Locations -> 1..MaxEvents]
      BY <1>1 DEF TypeOK
    <3> QED BY <3>1 DEF Event
  <2>4. /\ e.loc # loc => Count(e, relay'[w].pending) = Count(e, relay[w].pending)
        /\ e.loc = loc /\ Count(e, relay[w].pending) = 0 => Count(e, relay'[w].pending) <= 1
        /\ e.loc = loc /\ e.pos > queued[loc] => Count(e, relay'[w].pending) = Count(e, relay[w].pending)
    <3> HIDE DEF first
    <3> QED BY <1>1, <1>2, <2>1, CountSince
  <2>5. CASE e.loc # loc
    BY <1>2, <2>2, <2>4, <2>5 DEF Moves, Total
  <2>6. CASE e.loc = loc
    <3>1. Count(e, relay[w].pending) = 0 /\ received[w][e] = 0 /\ Count(e, watchCh[w]) = 0
      <4>1. Unopened(w)
        BY <2>1 DEF RInv, NotOpened, Unopened
      <4> QED BY <2>1, <2>6, <4>1, CountEmpty DEF CInv, Fresh
    <3>2. Total(w, e)' = Count(e, relay'[w].pending) /\ Count(e, relay'[w].pending) \in Nat
      <4>1. EventsSince(loc, first) \in Seq(Event)
        BY <1>1, <2>1, EventsTyped
      <4>2. relay'[w].pending \in Seq(Event)
        BY <1>2, <2>1, <4>1
      <4>3. Count(e, relay'[w].pending) \in Nat
        BY <4>2, PlacesFinite
      <4> QED BY <2>2, <3>1, <4>3
    <3>3. Total(w, e)' <= 1 /\ (e.pos > queued[loc] => Total(w, e)' = 0)
      BY <2>4, <2>6, <3>1, <3>2
    <3> QED BY <2>1, <2>3, <2>6, <3>2, <3>3 DEF Fetches
  <2> QED BY <2>5, <2>6
<1>5. CASE SendDownstream(w)
  <2> DEFINE f == Head(relay[w].pending)
  <2>1. /\ watchCh'[w] = Append(watchCh[w], f) /\ relay'[w].pending = Tail(relay[w].pending)
        /\ relay[w].pending # <<>> /\ UNCHANGED received
    BY <1>1, <1>5 DEF SendDownstream, RelayType
  <2>2. f \in Event
    BY <1>2, <2>1
  <2>3. Count(e, relay[w].pending) = Count(e, relay'[w].pending) + (IF e = f THEN 1 ELSE 0)
    BY <1>2, <2>1, CountTail
  <2> HIDE DEF f
  <2>4. Count(e, watchCh'[w]) = Count(e, watchCh[w]) + (IF e = f THEN 1 ELSE 0)
    BY <1>2, <2>1, <2>2, CountAppend
  <2>5. Count(e, relay'[w].pending) \in Nat
    <3>1. relay'[w].pending \in Seq(Event)
      BY <1>2, <2>1
    <3> QED BY <3>1, PlacesFinite
  <2>6. Total(w, e)' = received[w][e] + Count(e, watchCh'[w]) + Count(e, relay'[w].pending)
    BY <2>1 DEF Total
  <2> QED BY <1>2, <2>3, <2>4, <2>5, <2>6 DEF Moves, Total
<1>6. ASSUME NEW f \in Event, ReceiveUpstream(w, f)
      PROVE  Moves(w, e) \/ Takes(w, e)
  <2>1. /\ relay[w].pc = "running" /\ relay[w].pending = <<>> /\ delivery[f] = w
        /\ relay'[w].pending = <<f>> /\ delivery'[f] = "done"
        /\ UNCHANGED <<watchCh, received>>
    BY <1>1, <1>6 DEF ReceiveUpstream, RelayType
  <2>2. Count(e, relay[w].pending) = 0
    BY <2>1, CountEmpty
  <2>3. Count(e, relay'[w].pending) = IF e = f THEN 1 ELSE 0
    BY <2>1, CountOne
  <2>4. Total(w, e)' = received[w][e] + Count(e, watchCh[w]) + Count(e, relay'[w].pending)
    BY <2>1 DEF Total
  <2> QED BY <1>2, <2>1, <2>2, <2>3, <2>4 DEF Moves, Takes, Total, Unopened
<1>7. CASE SendToClient(w) \/ EncodingFails(w)
  <2> DEFINE f == Head(watchCh[w])
  <2>1. /\ watchCh[w] # <<>> /\ watchCh'[w] = Tail(watchCh[w]) /\ relay'[w] = relay[w]
        /\ received'[w] = received[w] \/ received' = [received EXCEPT ![w][f] = @ + 1]
    BY <1>1, <1>7 DEF SendToClient, EncodingFails
  <2>2. f \in Event
    BY <1>2, <2>1
  <2>3. Count(e, watchCh[w]) = Count(e, watchCh'[w]) + (IF e = f THEN 1 ELSE 0)
    BY <1>2, <2>1, CountTail
  <2> HIDE DEF f
  <2>4. received'[w][e] <= received[w][e] + (IF e = f THEN 1 ELSE 0)
    BY <1>1, <1>2, <2>1, <2>2
  <2>5. Count(e, watchCh'[w]) \in Nat /\ received'[w][e] \in Nat
    <3>1. watchCh'[w] \in Seq(Event)
      BY <1>2, <2>1
    <3>2. received'[w][e] = received[w][e] \/ received'[w][e] = received[w][e] + 1
      BY <1>1, <2>1, <2>2
    <3>3. Count(e, watchCh'[w]) \in Nat
      BY <3>1, PlacesFinite
    <3>4. received'[w][e] \in Nat
      BY <1>2, <3>2
    <3> QED BY <3>3, <3>4
  <2>6. Total(w, e)' = received'[w][e] + Count(e, watchCh'[w]) + Count(e, relay[w].pending)
    BY <2>1 DEF Total
  <2>7. Total(w, e) = received[w][e] + Count(e, watchCh[w]) + Count(e, relay[w].pending)
    BY DEF Total
  <2>8. Total(w, e)' <= Total(w, e)
    <3>1. \A a, b, x, y, p, k \in Int :
            a = b + k /\ x <= y + k => x + b + p <= y + a + p
      OBVIOUS
    <3>2. /\ (IF e = f THEN 1 ELSE 0) \in Int /\ Count(e, watchCh[w]) \in Int
          /\ received[w][e] \in Int /\ Count(e, relay[w].pending) \in Int
      BY <1>2
    <3>3. Count(e, watchCh'[w]) \in Int /\ received'[w][e] \in Int
      BY <2>5
    <3> QED BY <2>3, <2>4, <2>6, <2>7, <3>1, <3>2, <3>3
  <2> QED BY <2>8 DEF Moves
<1>8. ASSUME NEW v \in Watches, v # w, CallWatch(v) \/ Relay(v) \/ SendToClient(v) \/ EncodingFails(v)
      PROVE  relay'[w].pending = relay[w].pending /\ watchCh'[w] = watchCh[w] /\ received'[w] = received[w]
  BY <1>8, OthersFrame
<1>9. ASSUME NEW v \in Watches,
             \/ Watch(v) \/ RejectRequest(v) \/ RequestDone(v)
             \/ \E loc \in Locations : getEventIndexSinceResourceVersion(v, loc)
      PROVE  UNCHANGED <<relay, watchCh, received>>
  BY <1>9 DEF Watch, RejectRequest, RequestDone, getEventIndexSinceResourceVersion
<1>11. ASSUME NEW v \in Watches, stopWatch(v) \/ OpenWatchChan(v) \/ StopRelay(v)
       PROVE  relay'[w].pending = relay[w].pending /\ UNCHANGED <<watchCh, received>>
  <2>1. PICK pc \in {"stopping", "running", "stopped"} :
          relay' = [relay EXCEPT ![v].pc = pc] /\ UNCHANGED <<watchCh, received>>
    BY <1>11 DEF stopWatch, OpenWatchChan, StopRelay
  <2>2. CASE v = w
    BY <1>1, <2>1, <2>2 DEF RelayType
  <2>3. CASE v # w
    BY <1>1, <2>1, <2>3
  <2> QED BY <2>2, <2>3
<1>10. ASSUME \/ \E f \in Event : NotifyWatcher(f) \/ SendOnWatchChan(f)
              \/ AppendEvent \/ UNCHANGED vars
       PROVE  UNCHANGED <<relay, watchCh, received>>
  BY <1>10 DEF NotifyWatcher, SendOnWatchChan, AppendEvent, vars
<1> QED BY <1>3, <1>4, <1>5, <1>6, <1>7, <1>8, <1>9, <1>10, <1>11 DEF Next, CallWatch, Relay

(* A relay that was started is never one that was not, and what the        *)
(* delivery goroutine of an event may do.                                  *)
LEMMA DeliveryStep ==
  ASSUME TInv, InLine, Handed, [Next]_vars, NEW e \in Event
  PROVE  /\ delivery[e] = "done" => delivery'[e] = "done"
         /\ delivery[e] # "none" => delivery'[e] # "none"
         /\ delivery[e] = "none" /\ delivery'[e] # "none" =>
              /\ watchChan # None /\ e.pos = queued[e.loc] + 1 /\ enqueuing' = e
         /\ delivery'[e] # delivery[e] =>
              UNCHANGED <<queued, watch, watchChan>> /\ \A w \in Watches : Unopened(w)' = Unopened(w)
<1>1. /\ delivery \in [Event -> {"none", "started", "blocked", "done"} \cup Watches]
      /\ relay \in [Watches -> RelayType] /\ queued \in [Locations -> 1..MaxEvents]
      /\ enqueuing \in Event \cup {None} /\ watchChan \in Watches \cup {None}
  BY DEF TInv, TypeOK, RelayType
<1>2. \A f \in Event : f.loc \in Locations /\ f.pos \in Nat /\ queued[f.loc] \in Nat
  BY <1>1 DEF Event
<1>3. ASSUME NEW f \in Event, NotifyWatcher(f)
      PROVE  /\ delivery[f] = "none" /\ UNCHANGED <<queued, watch, watchChan, relay>>
             /\ delivery' = [delivery EXCEPT ![f] = IF watchChan = None THEN "none" ELSE "started"]
             /\ f.pos = queued[f.loc] + 1 /\ enqueuing' = f
  <2>1. enqueuing = None /\ f.pos = queued[f.loc] + 1
    BY <1>3 DEF NotifyWatcher
  <2>2. delivery[f] = "none"
    BY <1>2, <2>1, NameAssumption DEF Handed
  <2> QED BY <1>3, <2>1, <2>2 DEF NotifyWatcher, Notify
<1>4. ASSUME NEW f \in Event, SendOnWatchChan(f)
      PROVE  /\ delivery[f] = "started" /\ UNCHANGED <<queued, watch, watchChan, relay>>
             /\ delivery' = [delivery EXCEPT ![f] = IF watchChan = None THEN "blocked" ELSE watchChan]
  BY <1>4 DEF SendOnWatchChan
<1>5. ASSUME NEW w \in Watches, NEW f \in Event, ReceiveUpstream(w, f)
      PROVE  /\ delivery[f] \in Watches /\ UNCHANGED <<queued, watch, watchChan>>
             /\ delivery' = [delivery EXCEPT ![f] = "done"]
             /\ \A v \in Watches : Unopened(v)' = Unopened(v)
  <2>1. \A v \in Watches : relay'[v].pc = relay[v].pc
    <3>1. relay' = [relay EXCEPT ![w].pending = <<f>>]
      BY <1>5 DEF ReceiveUpstream
    <3> QED BY <1>1, <3>1 DEF RelayType
  <2> QED BY <1>5, <2>1 DEF ReceiveUpstream, Unopened
<1>6. \/ UNCHANGED delivery
      \/ \E f \in Event : NotifyWatcher(f) \/ SendOnWatchChan(f)
      \/ \E w \in Watches : \E f \in Event : ReceiveUpstream(w, f)
  <2>1. ASSUME NEW w \in Watches, Watch(w) \/ RejectRequest(w) \/ CallWatch(w)
        PROVE  UNCHANGED delivery
    BY <2>1 DEF Watch, RejectRequest, CallWatch, getEventIndexSinceResourceVersion,
       getEventsFromIndex, OpenWatchChan
  <2>2. ASSUME NEW w \in Watches, SendDownstream(w) \/ StopRelay(w)
        PROVE  UNCHANGED delivery
    BY <2>2 DEF SendDownstream, StopRelay
  <2>3. ASSUME NEW w \in Watches,
               SendToClient(w) \/ RequestDone(w) \/ EncodingFails(w) \/ stopWatch(w)
        PROVE  UNCHANGED delivery
    BY <2>3 DEF SendToClient, RequestDone, EncodingFails, stopWatch
  <2>4. AppendEvent \/ UNCHANGED vars => UNCHANGED delivery
    BY DEF AppendEvent, vars
  <2> QED BY <2>1, <2>2, <2>3, <2>4 DEF Next, Relay
<1> QED BY <1>1, <1>3, <1>4, <1>5, <1>6, NameAssumption DEF Unopened

(* A relay that was started stays started; it was the fate of the last.    *)
LEMMA OpenedStays ==
  ASSUME TInv, [Next]_vars, NEW w \in Watches
  PROVE  /\ Unopened(w)' => Unopened(w)
         /\ watchChan' # watchChan /\ watchChan' # None => \E v \in Watches : ~Unopened(v)'
<1>1. relay \in [Watches -> RelayType]
  BY DEF TInv, TypeOK, RelayType
<1>2. ASSUME NEW v \in Watches, NEW pc \in {"running", "stopping", "stopped"},
             relay' = [relay EXCEPT ![v].pc = pc]
      PROVE  (Unopened(w)' => Unopened(w)) /\ ~Unopened(v)'
  BY <1>1, <1>2 DEF Unopened, RelayType
<1>3. ASSUME NEW v \in Watches, OpenWatchChan(v) \/ StopRelay(v) \/ stopWatch(v)
      PROVE  (Unopened(w)' => Unopened(w)) /\ ~Unopened(v)'
  BY <1>2, <1>3 DEF OpenWatchChan, StopRelay, stopWatch
<1>4. ASSUME NEW v \in Watches,
             \/ \E loc \in Locations : getEventsFromIndex(v, loc)
             \/ SendDownstream(v) \/ \E e \in Event : ReceiveUpstream(v, e)
      PROVE  Unopened(w)' <=> Unopened(w)
  <2>1. PICK pending : relay' = [relay EXCEPT ![v].pending = pending]
    BY <1>4 DEF getEventsFromIndex, SendDownstream, ReceiveUpstream
  <2> QED BY <1>1, <2>1 DEF Unopened, RelayType
<1>5. ASSUME NEW v \in Watches,
             \/ \E loc \in Locations : getEventsFromIndex(v, loc) \/ getEventIndexSinceResourceVersion(v, loc)
             \/ SendDownstream(v) \/ (\E e \in Event : ReceiveUpstream(v, e)) \/ stopWatch(v)
             \/ Watch(v) \/ RejectRequest(v) \/ SendToClient(v) \/ RequestDone(v) \/ EncodingFails(v)
      PROVE  UNCHANGED watchChan
  <2>1. CASE \/ \E loc \in Locations :
                  getEventsFromIndex(v, loc) \/ getEventIndexSinceResourceVersion(v, loc)
             \/ SendDownstream(v) \/ (\E e \in Event : ReceiveUpstream(v, e)) \/ stopWatch(v)
    BY <2>1 DEF getEventsFromIndex, getEventIndexSinceResourceVersion, SendDownstream,
       ReceiveUpstream, stopWatch
  <2>2. CASE \/ Watch(v) \/ RejectRequest(v) \/ SendToClient(v) \/ RequestDone(v)
             \/ EncodingFails(v)
    BY <2>2 DEF Watch, RejectRequest, SendToClient, RequestDone, EncodingFails
  <2> QED BY <1>5, <2>1, <2>2
<1>6. ASSUME NEW v \in Watches,
             \/ \E loc \in Locations : getEventIndexSinceResourceVersion(v, loc)
             \/ Watch(v) \/ RejectRequest(v) \/ SendToClient(v) \/ RequestDone(v) \/ EncodingFails(v)
      PROVE  UNCHANGED relay
  BY <1>6 DEF getEventIndexSinceResourceVersion,
     Watch, RejectRequest, SendToClient, RequestDone, EncodingFails
<1>7. ASSUME \/ \E e \in Event : NotifyWatcher(e) \/ SendOnWatchChan(e)
             \/ AppendEvent \/ UNCHANGED vars
      PROVE  UNCHANGED <<relay, watchChan>>
  BY <1>7 DEF NotifyWatcher, SendOnWatchChan, AppendEvent, vars
<1> QED BY <1>3, <1>4, <1>5, <1>6, <1>7 DEF Next, CallWatch, Relay, Unopened

(* The next entry of a location is queued when it is enqueued; none is     *)
(* taken back.                                                             *)
LEMMA HandedStep ==
  ASSUME TInv, TInv', InLine, Handed, [Next]_vars
  PROVE  Handed'
<1> SUFFICES ASSUME NEW e \in Event, delivery'[e] # "none"
             PROVE  e.pos <= queued'[e.loc] \/ enqueuing' = e
  BY DEF Handed
<1>1. /\ queued \in [Locations -> 1..MaxEvents] /\ queued' \in [Locations -> 1..MaxEvents]
      /\ e.loc \in Locations /\ e.pos \in Nat
  <2>1. queued \in [Locations -> 1..MaxEvents] /\ queued' \in [Locations -> 1..MaxEvents]
    BY DEF TInv, TypeOK
  <2> QED BY <2>1 DEF Event
<1>2. queued[e.loc] <= queued'[e.loc] /\ queued[e.loc] \in Nat /\ queued'[e.loc] \in Nat
  BY <1>1, NextInLine
<1>3. CASE delivery[e] = "none"
  BY <1>3, DeliveryStep
<1>4. CASE e.pos <= queued[e.loc]
  BY <1>1, <1>2, <1>4
<1>5. CASE enqueuing = e
  <2>1. enqueuing # None
    BY <1>5, NameAssumption
  <2>2. \A f \in Event : ~NotifyWatcher(f)
    BY <2>1 DEF NotifyWatcher
  <2>3. CASE AppendEvent
    <3>1. queued' = [queued EXCEPT ![e.loc] = e.pos]
      BY <1>5, <2>3 DEF AppendEvent
    <3> QED BY <1>1, <3>1
  <2>4. CASE ~AppendEvent
    BY <1>5, <2>2, <2>4, EnqueuingStays
  <2> QED BY <2>3, <2>4
<1> QED BY <1>3, <1>4, <1>5 DEF Handed


(* No event is anywhere before it was enqueued.                            *)
LEMMA NextFresh ==
  ASSUME TInv, RInv, CInv, [Next]_vars
  PROVE  Fresh'
<1> SUFFICES ASSUME NEW w \in Watches, NEW e \in Event
             PROVE  /\ Unopened(w)' => received'[w][e] = 0 /\ watchCh'[w] = <<>>
                    /\ watch'[w].pc \in {"idle", "index"} => Count(e, relay'[w].pending) = 0
                    /\ watch'[w].pc = "collect" /\ e.loc \in watch'[w].todo =>
                         Count(e, relay'[w].pending) = 0
  BY DEF Fresh, Count, Places
<1>1. /\ watch \in [Watches -> WatchType] /\ relay \in [Watches -> RelayType]
      /\ received \in [Watches -> [Event -> Nat]]
      /\ TypeOK
  BY DEF TInv, TypeOK, WatchType, RelayType
<1>2. /\ Unopened(w) => received[w][e] = 0 /\ watchCh[w] = <<>>
      /\ watch[w].pc \in {"idle", "index"} => Count(e, relay[w].pending) = 0
      /\ watch[w].pc = "collect" /\ e.loc \in watch[w].todo => Count(e, relay[w].pending) = 0
      /\ watch[w].pc \in {"idle", "index", "collect", "open"} => Unopened(w)
  BY DEF CInv, Fresh, RInv, NotOpened, Unopened
<1>3. Unopened(w)' => Unopened(w)
  BY OpenedStays
<1>4. CASE watch'[w] = watch[w] /\ relay'[w] = relay[w] /\ watchCh'[w] = watchCh[w] /\ received'[w] = received[w]
  BY <1>2, <1>4 DEF Unopened
<1>5. CASE Watch(w) \/ RejectRequest(w)
  <2>1. watch[w].pc = "idle" /\ UNCHANGED <<relay, watchCh, received>>
    BY <1>5 DEF Watch, RejectRequest
  <2> QED BY <1>2, <2>1 DEF Unopened
<1>6. ASSUME NEW loc \in Locations, getEventIndexSinceResourceVersion(w, loc)
      PROVE  watch[w].pc = "index" /\ UNCHANGED <<relay, watchCh, received>>
  BY <1>6 DEF getEventIndexSinceResourceVersion
<1>7. ASSUME NEW loc \in Locations, getEventsFromIndex(w, loc)
      PROVE  /\ Unopened(w)' => received'[w][e] = 0 /\ watchCh'[w] = <<>>
             /\ watch'[w].pc \in {"idle", "index"} => Count(e, relay'[w].pending) = 0
             /\ watch'[w].pc = "collect" /\ e.loc \in watch'[w].todo =>
                  Count(e, relay'[w].pending) = 0
  <2>1. /\ watch[w].pc = "collect" /\ watch[w].start[loc] \in 1..(MaxEvents + 1)
        /\ watch'[w].pc = IF watch[w].todo = {loc} THEN "open" ELSE "collect"
        /\ watch'[w].todo = watch[w].todo \ {loc}
        /\ relay'[w].pending = relay[w].pending \o EventsSince(loc, watch[w].start[loc])
        /\ UNCHANGED <<watchCh, received>> /\ relay[w].pending \in Seq(Event)
    BY <1>1, <1>7 DEF getEventsFromIndex, WatchType, RelayType
  <2>2. e.loc # loc => Count(e, relay'[w].pending) = Count(e, relay[w].pending)
    BY <1>1, <2>1, CountSince
  <2> QED BY <1>2, <1>3, <2>1, <2>2
<1>8. CASE OpenWatchChan(w)
  <2>1. relay'[w].pc = "running" /\ watch'[w].pc = "serving"
    BY <1>1, <1>8 DEF OpenWatchChan, WatchType, RelayType
  <2> QED BY <2>1 DEF Unopened
<1>9. CASE Relay(w) \/ SendToClient(w) \/ RequestDone(w) \/ EncodingFails(w) \/ stopWatch(w)
  <2>1. CASE ~Unopened(w)
    <3>1. watch'[w].pc \notin {"idle", "index", "collect"}
      BY <1>1, <1>2, <1>9, <2>1 DEF Relay, SendDownstream, ReceiveUpstream, StopRelay, SendToClient,
         RequestDone, EncodingFails, stopWatch, WatchType
    <3> QED BY <1>3, <2>1, <3>1
  <2>2. CASE Unopened(w)
    <3>1. ~Relay(w) /\ ~stopWatch(w)
      BY <2>2 DEF Relay, SendDownstream, ReceiveUpstream, StopRelay, stopWatch, Unopened
    <3>2. ~SendToClient(w) /\ ~EncodingFails(w)
      BY <1>2, <2>2 DEF SendToClient, EncodingFails
    <3>3. RequestDone(w)
      BY <1>9, <3>1, <3>2
    <3>4. watch' = [watch EXCEPT ![w].pc = "stop"] /\ UNCHANGED <<relay, watchCh, received>>
      BY <3>3 DEF RequestDone
    <3>5. watch'[w].pc = "stop"
      BY <1>1, <3>4 DEF WatchType
    <3> QED BY <1>2, <2>2, <3>4, <3>5
  <2> QED BY <2>1, <2>2
<1>10. ASSUME NEW v \in Watches, v # w,
              \/ Watch(v) \/ RejectRequest(v) \/ CallWatch(v)
              \/ Relay(v) \/ SendToClient(v) \/ RequestDone(v) \/ EncodingFails(v) \/ stopWatch(v)
       PROVE  watch'[w] = watch[w] /\ relay'[w] = relay[w] /\ watchCh'[w] = watchCh[w]
              /\ received'[w] = received[w]
  BY <1>10, OthersFrame
<1>11. ASSUME \/ \E f \in Event : NotifyWatcher(f) \/ SendOnWatchChan(f)
              \/ AppendEvent \/ UNCHANGED vars
       PROVE  UNCHANGED <<watch, relay, watchCh, received>>
  BY <1>11 DEF NotifyWatcher, SendOnWatchChan, AppendEvent, vars
<1>12. (\E loc \in Locations : getEventIndexSinceResourceVersion(w, loc)) =>
         watch[w].pc = "index" /\ UNCHANGED <<relay, watchCh, received>>
  BY <1>6
<1> QED BY <1>2, <1>3, <1>4, <1>5, <1>7, <1>8, <1>9, <1>10, <1>11, <1>12 DEF Next, CallWatch

(* The first delivery goroutine belongs to a watch that was opened.        *)
LEMMA NextNobodyToHand ==
  ASSUME TInv, InLine, CInv, [Next]_vars
  PROVE  NobodyToHand'
<1> SUFFICES ASSUME \A w \in Watches : Unopened(w)'
             PROVE  watchChan' = None /\ \A e \in Event : delivery'[e] = "none"
  BY DEF NobodyToHand, Unopened
<1>1. watchChan = None /\ \A e \in Event : delivery[e] = "none"
  BY OpenedStays DEF CInv, NobodyToHand
<1>2. watchChan' = None
  <2>1. CASE Watches = {}
    BY <1>1, <2>1 DEF Next, NotifyWatcher, SendOnWatchChan, AppendEvent, vars
  <2>2. CASE Watches # {}
    BY <1>1, <2>2, OpenedStays
  <2> QED BY <2>1, <2>2
<1>3. \A e \in Event : delivery'[e] = "none"
  BY <1>1, DeliveryStep DEF CInv
<1> QED BY <1>2, <1>3

(* The count after a step is a number.                                     *)
LEMMA TotalTypedNext ==
  ASSUME TypeOK', NEW w \in Watches, NEW e \in Event
  PROVE  Total(w, e)' \in Nat
<1>1. received'[w][e] \in Nat /\ watchCh'[w] \in Seq(Event) /\ relay'[w].pending \in Seq(Event)
  BY DEF TypeOK
<1>2. Count(e, watchCh'[w]) \in Nat /\ Count(e, relay'[w].pending) \in Nat
  BY <1>1, PlacesFinite
<1>3. Total(w, e)' = received'[w][e] + Count(e, watchCh'[w]) + Count(e, relay'[w].pending)
  BY DEF Total, Count, Places
<1> QED BY <1>1, <1>2, <1>3

(* What a watch has got was queued.                                        *)
LEMMA NextFromQueue ==
  ASSUME TInv, TInv', InLine, RInv, CInv, [Next]_vars
  PROVE  FromQueue'
<1> SUFFICES ASSUME NEW w \in Watches, NEW e \in Event, Total(w, e)' > 0, delivery'[e] = "none"
             PROVE  e.pos <= queued'[e.loc]
  BY DEF FromQueue, Total, Count, Places
<1>1. queued[e.loc] <= queued'[e.loc] /\ queued[e.loc] \in Nat /\ queued'[e.loc] \in Nat /\ e.pos \in Nat
  <2>1. e.loc \in Locations /\ e.pos \in Nat
    BY DEF Event
  <2>2. queued \in [Locations -> 1..MaxEvents] /\ queued' \in [Locations -> 1..MaxEvents]
    BY DEF TInv, TypeOK
  <2> QED BY <2>1, <2>2, NextInLine
<1>2. delivery[e] = "none"
  BY DeliveryStep DEF CInv
<1>3. Total(w, e) \in Nat /\ Total(w, e)' \in Nat
  BY TotalTyped, TotalTypedNext DEF TInv
<1>4. CASE Moves(w, e)
  BY <1>1, <1>2, <1>3, <1>4 DEF Moves, CInv, FromQueue
<1>5. CASE Takes(w, e)
  BY <1>5 DEF Takes
<1>6. CASE Fetches(w, e)
  BY <1>1, <1>6 DEF Fetches
<1> QED BY <1>4, <1>5, <1>6, TotalStep

(* No watch gets an event a third time.                                    *)
LEMMA NextAtMostTwice ==
  ASSUME TInv, TInv', InLine, RInv, CInv, [Next]_vars
  PROVE  AtMostTwice'
<1> SUFFICES ASSUME NEW w \in Watches, NEW e \in Event
             PROVE  Total(w, e)' <= 2 /\ (delivery'[e] # "done" => Total(w, e)' <= 1)
  BY DEF AtMostTwice, Total, Count, Places
<1>1. Total(w, e) \in Nat /\ Total(w, e)' \in Nat
  BY TotalTyped, TotalTypedNext DEF TInv
<1>2. Total(w, e) <= 2 /\ (delivery[e] # "done" => Total(w, e) <= 1)
  BY DEF CInv, AtMostTwice
<1>3. delivery'[e] # "done" => delivery[e] # "done"
  BY DeliveryStep DEF CInv
<1>4. CASE Moves(w, e)
  BY <1>1, <1>2, <1>3, <1>4 DEF Moves
<1>5. CASE Takes(w, e)
  BY <1>1, <1>2, <1>5, NameAssumption DEF Takes
<1>6. CASE Fetches(w, e)
  BY <1>1, <1>6 DEF Fetches
<1> QED BY <1>4, <1>5, <1>6, TotalStep

(* The only watch of its queue gets an event once.                         *)
LEMMA NextAtMostOnce ==
  ASSUME TInv, TInv', InLine, RInv, CInv, [Next]_vars
  PROVE  AtMostOnce'
<1> SUFFICES ASSUME NEW w \in Watches, OnlyWatch(w)', NEW e \in Event
             PROVE  /\ Total(w, e)' <= 1
                    /\ delivery'[e] \notin {"none", "done"} => Total(w, e)' = 0
  BY DEF AtMostOnce, Total, Count, Places
<1>1. Total(w, e) \in Nat /\ Total(w, e)' \in Nat
  BY TotalTyped, TotalTypedNext DEF TInv
<1>2. OnlyWatch(w)
  BY OpenedStays DEF OnlyWatch, Unopened
<1>3. Total(w, e) <= 1 /\ (delivery[e] \notin {"none", "done"} => Total(w, e) = 0)
  BY <1>2 DEF CInv, AtMostOnce
<1>4. CASE Moves(w, e)
  <2>1. ASSUME delivery'[e] \notin {"none", "done"} PROVE Total(w, e) = 0
    <3>1. CASE delivery[e] = "none"
      <4>1. e.pos = queued[e.loc] + 1
        BY <2>1, <3>1, DeliveryStep DEF CInv
      <4>2. Total(w, e) > 0 => e.pos <= queued[e.loc]
        BY <3>1 DEF CInv, FromQueue
      <4>3. queued[e.loc] \in Nat
        <5>1. e.loc \in Locations /\ queued \in [Locations -> 1..MaxEvents]
          BY DEF TInv, TypeOK, Event
        <5> QED BY <5>1
      <4> QED BY <1>1, <4>1, <4>2, <4>3
    <3>2. CASE delivery[e] = "done"
      BY <2>1, <3>2, DeliveryStep DEF CInv
    <3> QED BY <1>3, <3>1, <3>2
  <2> QED BY <1>1, <1>3, <1>4, <2>1 DEF Moves
<1>5. CASE Takes(w, e)
  BY <1>1, <1>3, <1>5, NameAssumption DEF Takes
<1>6. CASE Fetches(w, e)
  <2>1. Unopened(w)
    BY <1>6 DEF Fetches, RInv, NotOpened, Unopened
  <2>2. delivery[e] = "none"
    BY <1>2, <2>1 DEF OnlyWatch, CInv, NobodyToHand
  <2> QED BY <1>6, <2>2 DEF Fetches
<1> QED BY <1>4, <1>5, <1>6, TotalStep

(* The counting is kept by every step.                                     *)
LEMMA NextCInv ==
  ASSUME TInv, InLine, RInv, CInv, [Next]_vars
  PROVE  CInv'
<1>1. TInv'
  BY NextTInv
<1>2. Fresh' /\ NobodyToHand'
  BY NextFresh, NextNobodyToHand
<1>3. Handed'
  BY <1>1, HandedStep DEF CInv
<1>4. FromQueue' /\ AtMostTwice' /\ AtMostOnce'
  BY <1>1, NextFromQueue, NextAtMostTwice, NextAtMostOnce
<1> QED BY <1>2, <1>3, <1>4 DEF CInv

(* A client is never sent an event more than twice, and it is sent one     *)
(* twice only if another watch of its queue was opened: its own watch      *)
(* alone cannot both replay an event and have it delivered.                *)
THEOREM TwiceNeedsAnotherWatch == Spec => []TwiceOnlyAcrossWatches
<1>1. Init => TInv /\ InLine /\ RInv /\ CInv
  BY InitTInv, InitRInv, InitCInv DEF Init, InLine
<1>2. TInv /\ InLine /\ RInv /\ CInv /\ [Next]_vars => (TInv /\ InLine /\ RInv /\ CInv)'
  BY NextTInv, NextInLine, NextRInv, NextCInv
<1>3. TInv /\ CInv => TwiceOnlyAcrossWatches
  <2> SUFFICES ASSUME TInv, CInv, NEW w \in Watches, NEW e \in Event, received[w][e] > 1
               PROVE  received[w][e] = 2 /\ \E v \in Watches \ {w} : relay[v].pc # "none"
    BY DEF TwiceOnlyAcrossWatches
  <2>1. /\ received[w][e] \in Nat /\ Count(e, watchCh[w]) \in Nat /\ Count(e, relay[w].pending) \in Nat
    BY TotalTyped DEF TInv
  <2>2. Total(w, e) >= received[w][e]
    BY <2>1 DEF Total
  <2>3. Total(w, e) <= 2 /\ (OnlyWatch(w) => Total(w, e) <= 1) /\ Total(w, e) \in Nat
    BY TotalTyped DEF TInv, CInv, AtMostTwice, AtMostOnce
  <2> QED BY <2>1, <2>2, <2>3 DEF OnlyWatch, Unopened
<1> QED BY <1>1, <1>2, <1>3, PTL DEF Spec

=============================================================================
