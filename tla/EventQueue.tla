----------------------------- MODULE EventQueue -----------------------------
(***************************************************************************)
(* The circular event queue a client's NodeEventQueue keeps for one        *)
(* location (nodeEventQueueByLoc in distributor/cache/eventqueue.go).      *)
(*                                                                         *)
(* Every operation runs under eqLock and is one action, but                *)
(* getAllEventsSinceResourceVersion reads a queue in two of them: it looks *)
(* an index up, lets go of the lock, and fetches the events from that      *)
(* index later, while ProcessEvents keeps enqueueing and may overwrite.    *)
(***************************************************************************)
EXTENDS Integers, Sequences

CONSTANTS
  Length,      \* LengthOfNodeEventQueue
  NodeIds,     \* the nodes events are about
  MaxRV,       \* bound on the resource versions region managers hand out
  MaxEvents    \* bound on the events enqueued in a behaviour

ASSUME LengthAssumption == Length \in Nat \ {0}
ASSUME BoundAssumption == MaxRV \in Nat /\ MaxEvents \in Nat

(* Definitions named after what is wrong with them (FullOneLate) are        *)
(* deliberately wrong variants of the definition that follows them; none   *)
(* is part of the specification.                                           *)

Event == [id : NodeIds, rv : 0..MaxRV]
NoEvent == [rv |-> -1]
NoRV == -1

VARIABLES
  circularEventQueue,  \* slot -> event, Length slots
  startPos,            \* position of the oldest retained event
  endPos,              \* position of the next event
  reader,              \* the read in progress: where it is and what it holds
  answer,              \* what the last read returned
  history              \* every event ever enqueued (auxiliary)

queueVars == <<circularEventQueue, startPos, endPos>>
vars == <<circularEventQueue, startPos, endPos, reader, answer, history>>

Slot(pos) == circularEventQueue[pos % Length]

Idle == [pc |-> "idle", rv |-> NoRV, index |-> 0]
Answer(kind, rv, events) == [kind |-> kind, rv |-> rv, events |-> events]

newNodeQueueByLoc ==
  /\ circularEventQueue = [i \in 0..(Length - 1) |-> NoEvent]
  /\ startPos = 0
  /\ endPos = 0

Init ==
  /\ newNodeQueueByLoc
  /\ reader = Idle
  /\ answer = Answer("none", NoRV, <<>>)
  /\ history = <<>>

(* A region manager numbers the changes of a resource partition, and one   *)
(* aggregator goroutine hands a region's events on, so a location's events *)
(* reach its queue in resource version order.                              *)
InOrder(e) == endPos > startPos => Slot(endPos - 1).rv <= e.rv

FullOneLate == endPos = startPos + Length + 1
Full == endPos = startPos + Length

enqueueEvent(e) ==
  /\ endPos < MaxEvents
  /\ InOrder(e)
  /\ startPos' = IF Full THEN startPos + 1 ELSE startPos
  /\ circularEventQueue' = [circularEventQueue EXCEPT ![endPos % Length] = e]
  /\ endPos' = endPos + 1
  /\ history' = Append(history, e)
  /\ UNCHANGED <<reader, answer>>

(* sort.Search over the window: a position at which "newer than rv" turns  *)
(* from false to true.                                                     *)
SearchNotOlder(rv) ==
  {index \in startPos..endPos :
     /\ index > startPos => Slot(index - 1).rv < rv
     /\ index < endPos => Slot(index).rv >= rv}
SearchResults(rv) ==
  {index \in startPos..endPos :
     /\ index > startPos => Slot(index - 1).rv <= rv
     /\ index < endPos => Slot(index).rv > rv}

getEventIndexSinceResourceVersion(rv) ==
  /\ reader.pc = "idle"
  /\ UNCHANGED <<queueVars, history>>
  /\ IF endPos - startPos = 0 \/ Slot(startPos).rv > rv
     THEN /\ answer' = Answer("refused", rv, <<>>)
          /\ UNCHANGED reader
     ELSE \E index \in SearchResults(rv) :
            IF index = endPos
            THEN /\ answer' = Answer("end", rv, <<>>)
                 /\ UNCHANGED reader
            ELSE /\ reader' = [pc |-> "found", rv |-> rv, index |-> index]
                 /\ UNCHANGED answer

(* For a location the client named no resource version for, startPos is    *)
(* read without the lock and passed on as the index.                       *)
readStartPos ==
  /\ reader.pc = "idle"
  /\ reader' = [pc |-> "found", rv |-> NoRV, index |-> startPos]
  /\ UNCHANGED <<queueVars, answer, history>>

EventsAfter(index) == [i \in 1..(endPos - index) |-> Slot(index + i)]
EventsFrom(index) == [i \in 1..(endPos - index) |-> Slot(index + i - 1)]

OutOfRangeAhead(index) == startPos = endPos \/ index > endPos
OutOfRange(index) == startPos = endPos \/ startPos > index \/ index > endPos

getEventsFromIndex ==
  /\ reader.pc = "found"
  /\ answer' = IF OutOfRange(reader.index)
               THEN Answer("refused", reader.rv, <<>>)
               ELSE Answer("events", reader.rv, EventsFrom(reader.index))
  /\ reader' = Idle
  /\ UNCHANGED <<queueVars, history>>

Next ==
  \/ \E e \in Event : enqueueEvent(e)
  \/ \E rv \in 0..MaxRV : getEventIndexSinceResourceVersion(rv)
  \/ readStartPos
  \/ getEventsFromIndex

Spec == Init /\ [][Next]_vars
-----------------------------------------------------------------------------
(* Every position, slot and pending read has its type: the queue's two     *)
(* counters only ever count events (eventqueue.go:36-44).                  *)
TypeOK ==
  /\ circularEventQueue \in [0..(Length - 1) -> Event \cup {NoEvent}]
  /\ startPos \in Nat
  /\ endPos \in Nat
  /\ reader \in [pc : {"idle", "found"}, rv : {NoRV} \cup 0..MaxRV, index : Nat]
  /\ answer \in [kind : {"none", "events", "end", "refused"},
                 rv : {NoRV} \cup 0..MaxRV, events : Seq(Event)]
  /\ history \in Seq(Event)

(* The window between startPos and endPos never outgrows the slots, and    *)
(* the queue throws an event away only when it is full.                    *)
WindowBounded ==
  /\ startPos <= endPos
  /\ endPos <= startPos + Length
  /\ startPos > 0 => endPos = startPos + Length

(* Wrapping around never damages a retained event: every position of the   *)
(* window still holds the event that was enqueued at it.                   *)
WindowHoldsTheLatest ==
  /\ endPos = Len(history)
  /\ \A pos \in startPos..(endPos - 1) : Slot(pos) = history[pos + 1]

(* Everything enqueued so far is in resource version order.                *)
HistorySorted ==
  \A i, j \in 1..Len(history) : i <= j => history[i].rv <= history[j].rv

(* An index that was looked up before the lock was released still splits   *)
(* all that was ever enqueued at the asked version when it is used, the    *)
(* events that were overwritten or added in between included.              *)
LookupStaysValid ==
  (reader.pc = "found" /\ reader.rv # NoRV) =>
     /\ reader.index < endPos
     /\ \A i \in 1..reader.index : history[i].rv <= reader.rv
     /\ \A i \in (reader.index + 1)..Len(history) : history[i].rv > reader.rv

(* The queue implements the log it stands for: the lookup and the fetch    *)
(* read as one atomic step, no event newer than the asked version is ever  *)
(* left out, and a refusal means that one may have been.                   *)
Log == INSTANCE BoundedEventLog WITH log <- history, RVs <- 0..MaxRV
ImplementsLog == Log!LogSpec
=============================================================================
