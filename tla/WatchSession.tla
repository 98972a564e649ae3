---------------------------- MODULE WatchSession ----------------------------
(***************************************************************************)
(* Watch calls on the event queue of one client: NodeEventQueue            *)
(* (distributor/cache/eventqueue.go), the HTTP handler serverWatch that    *)
(* calls it (service-api/endpoints/installer.go), the goroutine that relays*)
(* events to the handler and the goroutines that hand it new ones.         *)
(*                                                                         *)
(* The queue of a location has the entries 1..queued[loc]; the first is the*)
(* bookmark of the registration.  An event that NodeStore enqueues twice   *)
(* (CreateNode of a node it has, UpdateNode of one it has not) is two      *)
(* entries with one resource version.  The ring they are kept in is        *)
(* EventQueue's subject and does not wrap here.                            *)
(***************************************************************************)
EXTENDS Integers, FiniteSetsExt, Sequences

(* Definitions named after what is wrong with them are deliberately wrong  *)
(* variants of the definition that follows them; none is part of the       *)
(* specification.                                                          *)

CONSTANTS
  Locations,
  Watches,           \* calls of serverWatch
  ResumePoints,      \* resource version maps that clients watch from
  MaxEvents,         \* bound on the entries of a location's queue
  WatchChannelSize,
  None               \* nil

Event == [loc : Locations, pos : 1..MaxEvents]
Entry(loc, pos) == [loc |-> loc, pos |-> pos]

ASSUME BoundAssumption == MaxEvents \in Nat \ {0} /\ WatchChannelSize \in Nat

ASSUME ResumeAssumption == ResumePoints \subseteq UNION {[L -> 0..MaxEvents] : L \in SUBSET Locations}

(* No call and no event is taken for another value.                        *)
ASSUME NameAssumption ==
  /\ None \notin Watches \cup Event
  /\ Watches \cap {"none", "started", "blocked", "done"} = {}

VARIABLES
  queued,     \* location -> entries of its queue
  version,    \* entry -> resource version of its event
  enqueuing,  \* the event that EnqueueEvent, holding enqueueLock, has yet to append
  watchChan,  \* the watch whose channel eq.watchChan is
  delivery,   \* event -> its delivery goroutine, if it has one, and the channel it is at
  watch,      \* watch -> where its handler is
  relay,      \* watch -> the goroutine started by Watch, and what it has to send
  watchCh,    \* watch -> the buffered channel between relay and handler
  received    \* watch -> event -> times it was sent to the client

vars == <<queued, version, enqueuing, watchChan, delivery, watch, relay, watchCh, received>>

NotCalled == [pc |-> "idle", rvs |-> <<>>, todo |-> {}, start |-> [loc \in Locations |-> 1],
              seen |-> [loc \in Locations |-> 0]]

Init ==
  /\ queued = [loc \in Locations |-> 1]
  /\ version = [e \in Event |-> IF e.pos = 1 THEN 1 ELSE 0]
  /\ enqueuing = None
  /\ watchChan = None
  /\ delivery = [e \in Event |-> "none"]
  /\ watch = [w \in Watches |-> NotCalled]
  /\ relay = [w \in Watches |-> [pc |-> "none", pending |-> <<>>]]
  /\ watchCh = [w \in Watches |-> <<>>]
  /\ received = [w \in Watches |-> [e \in Event |-> 0]]

-----------------------------------------------------------------------------
(* EnqueueEvent: a delivery goroutine first, when somebody watches, the    *)
(* queue of the location afterwards.                                       *)

(* The next event is newer than those before, or the last one again.       *)
EnqueuedOnce(loc) ==
  queued[loc] > 1 /\ version[Entry(loc, queued[loc] - 1)] # version[Entry(loc, queued[loc])]
NextVersions(loc) ==
  LET last == version[Entry(loc, queued[loc])] IN
  {last + 1} \cup {rv \in {last} : EnqueuedOnce(loc)}

NotifyAlways(e) == "started"
Notify(e) == IF watchChan = None THEN "none" ELSE "started"

NotifyWatcher(e) ==
  /\ enqueuing = None
  /\ e.pos = queued[e.loc] + 1
  /\ \E rv \in NextVersions(e.loc) : version' = [version EXCEPT ![e] = rv]
  /\ enqueuing' = e
  /\ delivery' = [delivery EXCEPT ![e] = Notify(e)]
  /\ UNCHANGED <<queued, watchChan, watch, relay, watchCh, received>>

AppendEvent ==
  /\ enqueuing # None
  /\ queued' = [queued EXCEPT ![enqueuing.loc] = enqueuing.pos]
  /\ enqueuing' = None
  /\ UNCHANGED <<version, watchChan, delivery, watch, relay, watchCh, received>>

(* The goroutine looks eq.watchChan up when it runs; a send on a nil       *)
(* channel blocks for good.                                                *)
SendOnWatchChan(e) ==
  /\ delivery[e] = "started"
  /\ delivery' = [delivery EXCEPT ![e] = IF watchChan = None THEN "blocked" ELSE watchChan]
  /\ UNCHANGED <<queued, version, enqueuing, watchChan, watch, relay, watchCh, received>>

-----------------------------------------------------------------------------
(* Watch.  No lock is held: the queue is read location by location, in the *)
(* order of a Go map, and eq.watchChan is set when that is over.           *)

Watch(w) ==
  /\ watch[w].pc = "idle"
  /\ \E rvs \in ResumePoints :
       watch' = [watch EXCEPT ![w] = [NotCalled EXCEPT
                   !.pc = IF watchChan # None THEN "stop" ELSE
                          IF rvs = <<>> THEN "collect" ELSE "index",
                   !.rvs = rvs,
                   !.todo = IF rvs = <<>> THEN Locations ELSE DOMAIN rvs,
                   !.seen = queued]]
  /\ UNCHANGED <<queued, version, enqueuing, watchChan, delivery, relay, watchCh, received>>

(* A request without readable resource versions ends like a failed Watch.  *)
RejectRequest(w) ==
  /\ watch[w].pc = "idle"
  /\ watch' = [watch EXCEPT ![w].pc = "stop"]
  /\ UNCHANGED <<queued, version, enqueuing, watchChan, delivery, relay, watchCh, received>>

Newer(rv, loc) == {pos \in 1..queued[loc] : version[Entry(loc, pos)] > rv}
TooOld(rv, loc) == version[Entry(loc, 1)] > rv
AtEnd(rv, loc) == Newer(rv, loc) = {}

(* getAllEventsSinceResourceVersion, first loop.  A location without newer *)
(* events ends the search for all of them.                                 *)
ResumeAfterNext(rv, loc) == Min(Newer(rv, loc)) + 1
ResumeAfter(rv, loc) == Min(Newer(rv, loc))

getEventIndexSinceResourceVersion(w, loc) ==
  LET rv == watch[w].rvs[loc]
      more == watch[w].todo \ {loc} IN
  /\ watch[w].pc = "index" /\ loc \in watch[w].todo
  /\ watch' = [watch EXCEPT
        ![w].pc = IF TooOld(rv, loc) THEN "stop" ELSE
                  IF AtEnd(rv, loc) THEN "open" ELSE
                  IF more = {} THEN "collect" ELSE "index",
        ![w].start[loc] = IF AtEnd(rv, loc) THEN @ ELSE ResumeAfter(rv, loc),
        ![w].todo = IF ~TooOld(rv, loc) /\ ~AtEnd(rv, loc) /\ more = {}
                    THEN Locations ELSE more]
  /\ UNCHANGED <<queued, version, enqueuing, watchChan, delivery, relay, watchCh, received>>

EventsSinceAndNext(loc, first) ==
  [i \in 1..(queued[loc] - first + 2) |-> Entry(loc, first + i - 1)]
EventsSince(loc, first) ==
  [i \in 1..(queued[loc] - first + 1) |-> Entry(loc, first + i - 1)]

(* The second loop.                                                        *)
getEventsFromIndex(w, loc) ==
  /\ watch[w].pc = "collect" /\ loc \in watch[w].todo
  /\ relay' = [relay EXCEPT ![w].pending = @ \o EventsSince(loc, watch[w].start[loc])]
  /\ watch' = [watch EXCEPT ![w].todo = @ \ {loc},
                            ![w].pc = IF watch[w].todo = {loc} THEN "open" ELSE "collect"]
  /\ UNCHANGED <<queued, version, enqueuing, watchChan, delivery, watchCh, received>>

OpenWatchChan(w) ==
  /\ watch[w].pc = "open"
  /\ watchChan' = w
  /\ relay' = [relay EXCEPT ![w].pc = "running"]
  /\ watch' = [watch EXCEPT ![w].pc = "serving"]
  /\ UNCHANGED <<queued, version, enqueuing, delivery, watchCh, received>>

-----------------------------------------------------------------------------
(* The relay goroutine: the events found in the queue, then what comes in  *)
(* until it is told to stop, which it looks at between two events only.    *)

NeverRoom(w) == Len(watchCh[w]) > WatchChannelSize
RoomForOne(w) == watchCh[w] = <<>>
HasRoom(w) == Len(watchCh[w]) < WatchChannelSize

SendDownstream(w) ==
  /\ relay[w].pc = "running" /\ relay[w].pending # <<>>
  /\ HasRoom(w)
  /\ watchCh' = [watchCh EXCEPT ![w] = Append(@, Head(relay[w].pending))]
  /\ relay' = [relay EXCEPT ![w].pending = Tail(@)]
  /\ UNCHANGED <<queued, version, enqueuing, watchChan, delivery, watch, received>>

ReceiveUpstream(w, e) ==
  /\ relay[w].pc = "running" /\ relay[w].pending = <<>>
  /\ delivery[e] = w
  /\ relay' = [relay EXCEPT ![w].pending = <<e>>]
  /\ delivery' = [delivery EXCEPT ![e] = "done"]
  /\ UNCHANGED <<queued, version, enqueuing, watchChan, watch, watchCh, received>>

KeptAfterStop(w) == watchChan
Cleared(w) == None

StopRelay(w) ==
  /\ relay[w].pc = "stopping"
  /\ watchChan' = Cleared(w)
  /\ relay' = [relay EXCEPT ![w].pc = "stopped"]
  /\ UNCHANGED <<queued, version, enqueuing, delivery, watch, watchCh, received>>

-----------------------------------------------------------------------------
(* The handler.  It leaves when Watch fails, when the request is done or   *)
(* when an event cannot be encoded, and always through stopWatch, a send   *)
(* on an unbuffered channel.                                               *)

SendToClient(w) ==
  /\ watch[w].pc = "serving" /\ watchCh[w] # <<>>
  /\ received' = [received EXCEPT ![w][Head(watchCh[w])] = @ + 1]
  /\ watchCh' = [watchCh EXCEPT ![w] = Tail(@)]
  /\ UNCHANGED <<queued, version, enqueuing, watchChan, delivery, watch, relay>>

RequestDone(w) ==
  /\ watch[w].pc = "serving"
  /\ watch' = [watch EXCEPT ![w].pc = "stop"]
  /\ UNCHANGED <<queued, version, enqueuing, watchChan, delivery, relay, watchCh, received>>

EncodingFails(w) ==
  /\ watch[w].pc = "serving" /\ watchCh[w] # <<>>
  /\ watch' = [watch EXCEPT ![w].pc = "stop"]
  /\ watchCh' = [watchCh EXCEPT ![w] = Tail(@)]
  /\ UNCHANGED <<queued, version, enqueuing, watchChan, delivery, relay, received>>

stopWatch(w) ==
  /\ watch[w].pc = "stop"
  /\ relay[w].pc = "running" /\ relay[w].pending = <<>>
  /\ watch' = [watch EXCEPT ![w].pc = "returned"]
  /\ relay' = [relay EXCEPT ![w].pc = "stopping"]
  /\ UNCHANGED <<queued, version, enqueuing, watchChan, delivery, watchCh, received>>

-----------------------------------------------------------------------------
CallWatch(w) ==
  \/ \E loc \in Locations : getEventIndexSinceResourceVersion(w, loc) \/ getEventsFromIndex(w, loc)
  \/ OpenWatchChan(w)

Relay(w) ==
  \/ SendDownstream(w)
  \/ \E e \in Event : ReceiveUpstream(w, e)
  \/ StopRelay(w)

Next ==
  \/ \E e \in Event : NotifyWatcher(e) \/ SendOnWatchChan(e)
  \/ AppendEvent
  \/ \E w \in Watches :
       \/ Watch(w) \/ RejectRequest(w) \/ CallWatch(w)
       \/ Relay(w)
       \/ SendToClient(w) \/ RequestDone(w) \/ EncodingFails(w)
       \/ stopWatch(w)

Spec == Init /\ [][Next]_vars

(* Goroutines run when they can.  The relay may always find an event in    *)
(* its select; Go picks among ready cases at random, so that a stop that   *)
(* stays offered is taken.                                                 *)
FairSpec ==
  /\ Spec
  /\ WF_vars(AppendEvent)
  /\ \A e \in Event : WF_vars(SendOnWatchChan(e))
  /\ \A w \in Watches :
       /\ WF_vars(CallWatch(w)) /\ WF_vars(Relay(w)) /\ WF_vars(SendToClient(w))
       /\ SF_vars(stopWatch(w))

-----------------------------------------------------------------------------
(* Every variable has its type.                                            *)
TypeOK ==
  /\ queued \in [Locations -> 1..MaxEvents]
  /\ version \in [Event -> 0..MaxEvents]
  /\ enqueuing \in Event \cup {None}
  /\ watchChan \in Watches \cup {None}
  /\ delivery \in [Event -> {"none", "started", "blocked", "done"} \cup Watches]
  /\ watch \in [Watches ->
                 [pc : {"idle", "index", "collect", "open", "serving", "stop", "returned"},
                  rvs : ResumePoints \cup {<<>>}, todo : SUBSET Locations,
                  start : [Locations -> 1..(MaxEvents + 1)], seen : [Locations -> 0..MaxEvents]]]
  /\ relay \in [Watches -> [pc : {"none", "running", "stopping", "stopped"}, pending : Seq(Event)]]
  /\ watchCh \in [Watches -> Seq(Event)]
  /\ received \in [Watches -> [Event -> Nat]]

InSeq(e, s) == \E i \in DOMAIN s : s[i] = e

(* An event that has reached the client of w or is still on its way to it. *)
OnItsWay(e, w) ==
  \/ received[w][e] > 0
  \/ InSeq(e, watchCh[w]) \/ InSeq(e, relay[w].pending)
  \/ delivery[e] \in {"started", w}

OwedFrom(w, loc) ==
  {Entry(loc, pos) : pos \in {p \in 1..watch[w].seen[loc] :
                                 version[Entry(loc, p)] > watch[w].rvs[loc]}}
Missed(w) == {loc \in DOMAIN watch[w].rvs : OwedFrom(w, loc) # {}}

(* "get events already in queues": a watch brings every event that was     *)
(* queued when it was called and that is newer than what the client has.   *)
QueuedEventsReplayed ==
  \A w \in Watches : watch[w].pc = "serving" =>
    \A loc \in Missed(w) : \A e \in OwedFrom(w, loc) : OnItsWay(e, w)

(* The replay is complete when every location the client watches has       *)
(* newer events.                                                           *)
ReplayComplete ==
  \A w \in Watches : watch[w].pc = "serving" /\ Missed(w) = DOMAIN watch[w].rvs =>
    \A loc \in Missed(w) : \A e \in OwedFrom(w, loc) : OnItsWay(e, w)

(* A client is sent an entry of its queue twice only when another watch had*)
(* been opened: delivery goroutines of one watch may run into the next.    *)
(* So an undisturbed watch sends an event as often as it was enqueued.     *)
TwiceOnlyAcrossWatches ==
  \A w \in Watches : \A e \in Event :
    received[w][e] > 1 => /\ received[w][e] = 2
                          /\ \E v \in Watches \ {w} : relay[v].pc # "none"

(* "currently only support one watcher per node event queue".              *)
OneWatcher == \A v, w \in Watches : relay[v].pc = "running" /\ relay[w].pc = "running" => v = w

(* "Signal the distributor to stop the watch for this client on exit": a   *)
(* handler that is leaving gets the signal through.                        *)
StopIsSignalled == \A w \in Watches : watch[w].pc = "stop" ~> watch[w].pc = "returned"

(* It does when its relay is running and the channel has room.             *)
RunningWatchStops ==
  \A w \in Watches :
    (watch[w].pc = "stop" /\ relay[w].pc = "running") ~> watch[w].pc = "returned"

(* What waits for a client that keeps watching reaches it: the relay and   *)
(* the handler never block each other while both are at work.              *)
Backlog(w) ==
  \/ watchCh[w] # <<>> \/ relay[w].pending # <<>>
  \/ \E e \in Event : delivery[e] = w
BacklogIsSent ==
  \A w \in Watches :
    (watch[w].pc = "serving" /\ Backlog(w)) ~> (watch[w].pc # "serving" \/ ~Backlog(w))

(* A watch that ended leaves the queue to the next one.                    *)
WatchIsRenewable == \A w \in Watches : watch[w].pc = "returned" ~> watchChan # w
=============================================================================
