-------------------------- MODULE EventQueueProofs --------------------------
(* What EventQueue keeps true for every length of the queue, every set of  *)
(* nodes and every bound, proved with TLAPS.                               *)
EXTENDS EventQueue, TLAPS

(* An index taken from startPos is left behind when the window moves on.   *)
StartReadBehind ==
  (reader.pc = "found" /\ reader.rv = NoRV) => reader.index <= startPos

IInv ==
  /\ TypeOK
  /\ WindowBounded
  /\ WindowHoldsTheLatest
  /\ HistorySorted
  /\ LookupStaysValid
  /\ StartReadBehind

(* Two positions less than Length apart never share a slot: what makes the *)
(* write of enqueueEvent at endPos % Length harmless to the window.        *)
LEMMA ModInRange ==
  ASSUME NEW a \in Nat
  PROVE  a % Length \in 0..(Length - 1)
BY LengthAssumption

(* Positions less than Length apart have slots of their own.               *)
LEMMA SlotsDistinct ==
  ASSUME NEW a \in Nat, NEW b \in Nat, a < b, b < a + Length
  PROVE  (a % Length) # (b % Length)
<1> DEFINE qa == a \div Length
           qb == b \div Length
<1>1. a = Length * qa + (a % Length) /\ b = Length * qb + (b % Length)
  BY LengthAssumption
<1>2. qa \in Nat /\ qb \in Nat
  BY LengthAssumption
<1>3. SUFFICES ASSUME (a % Length) = (b % Length) PROVE FALSE
  OBVIOUS
<1>4. b - a = Length * qb - Length * qa
  BY <1>1, <1>2, <1>3, ModInRange, LengthAssumption
<1> HIDE DEF qa, qb
<1>5. b - a = Length * (qb - qa)
  BY <1>2, <1>4, LengthAssumption
<1>6. CASE qb <= qa
  BY <1>2, <1>5, <1>6, LengthAssumption
<1>7. CASE qb >= qa + 1
  <2>1. Length * (qb - qa) >= Length
    BY <1>2, <1>7, LengthAssumption
  <2> QED BY <2>1, <1>5, LengthAssumption
<1> QED BY <1>2, <1>6, <1>7

(* A new queue satisfies the invariant.                                    *)
LEMMA InitIInv == Init => IInv
<1> SUFFICES ASSUME Init PROVE IInv
  OBVIOUS
<1> USE LengthAssumption, BoundAssumption DEF Init, newNodeQueueByLoc, Idle, Answer, NoRV
<1>1. TypeOK
  BY DEF TypeOK
<1>2. WindowBounded /\ WindowHoldsTheLatest
  BY DEF WindowBounded, WindowHoldsTheLatest
<1>3. HistorySorted /\ LookupStaysValid /\ StartReadBehind
  BY DEF HistorySorted, LookupStaysValid, StartReadBehind
<1> QED BY <1>1, <1>2, <1>3 DEF IInv

(* The resource versions in the history are numbers.                       *)
LEMMA HistoryTyped ==
  ASSUME TypeOK
  PROVE  \A i \in 1..Len(history) : history[i].rv \in Int
<1>1. \A i \in 1..Len(history) : history[i] \in Event
  BY DEF TypeOK
<1> QED BY <1>1, BoundAssumption DEF Event

(* Once something was enqueued the window is never empty again, and its    *)
(* last slot holds the last event enqueued (enqueueEvent never shrinks the *)
(* window by more than it grows it).                                       *)
LEMMA LastEvent ==
  ASSUME TypeOK, WindowBounded, WindowHoldsTheLatest, endPos > 0
  PROVE  /\ endPos > startPos
         /\ Slot(endPos - 1) = history[endPos]
         /\ history[endPos] \in Event
<1>1. endPos > startPos
  BY LengthAssumption DEF TypeOK, WindowBounded
<1>2. endPos - 1 \in startPos..(endPos - 1)
  BY <1>1 DEF TypeOK
<1>3. Slot(endPos - 1) = history[endPos - 1 + 1]
  BY <1>2 DEF WindowHoldsTheLatest
<1>4. endPos - 1 + 1 = endPos /\ endPos \in 1..Len(history)
  BY <1>1 DEF TypeOK, WindowHoldsTheLatest
<1> QED BY <1>1, <1>3, <1>4 DEF TypeOK

(* enqueueEvent keeps the invariant: it wraps around without damaging what *)
(* it retains, keeps the history in order and leaves a pending lookup valid.*)
LEMMA EnqueueIInv ==
  ASSUME IInv, NEW e \in Event, enqueueEvent(e)
  PROVE  IInv'
<1> USE LengthAssumption DEF IInv
<1>1. /\ endPos' = endPos + 1
      /\ history' = Append(history, e)
      /\ UNCHANGED <<reader, answer>>
      /\ startPos' = IF endPos = startPos + Length THEN startPos + 1 ELSE startPos
      /\ circularEventQueue' = [circularEventQueue EXCEPT ![endPos % Length] = e]
  BY DEF enqueueEvent, Full
<1>a. /\ startPos \in Nat /\ endPos \in Nat /\ Len(history) = endPos
      /\ history \in Seq(Event) /\ e.rv \in Int
      /\ \A i \in 1..endPos : history[i].rv \in Int
  BY HistoryTyped, BoundAssumption DEF TypeOK, WindowHoldsTheLatest, Event
<1>2. endPos % Length \in 0..(Length - 1)
  BY ModInRange DEF TypeOK
<1>3. TypeOK'
  <2>1. circularEventQueue' \in [0..(Length - 1) -> Event \cup {NoEvent}]
    BY <1>1, <1>2 DEF TypeOK
  <2>2. startPos' \in Nat /\ endPos' \in Nat /\ history' \in Seq(Event)
    BY <1>1 DEF TypeOK
  <2> QED BY <1>1, <2>1, <2>2 DEF TypeOK
<1>4. WindowBounded'
  BY <1>1 DEF TypeOK, WindowBounded
<1>5. /\ Len(history') = endPos + 1
      /\ history'[endPos + 1] = e
      /\ \A i \in 1..endPos : history'[i] = history[i]
  BY <1>1, <1>a
<1>6. WindowHoldsTheLatest'
  <2> SUFFICES ASSUME NEW pos \in (startPos')..endPos
               PROVE  circularEventQueue'[pos % Length] = history'[pos + 1]
    <3>1. endPos' - 1 = endPos /\ endPos' = Len(history')
      BY <1>1, <1>5, <1>a
    <3> QED BY <3>1 DEF WindowHoldsTheLatest, Slot
  <2>1. CASE pos = endPos
    BY <1>1, <1>2, <1>5, <2>1 DEF TypeOK
  <2>2. CASE pos # endPos
    <3>1. pos \in Nat /\ pos < endPos /\ pos >= startPos /\ endPos < pos + Length
      BY <1>1, <2>2 DEF TypeOK, WindowBounded
    <3>2. (pos % Length) # (endPos % Length)
      BY <3>1, SlotsDistinct DEF TypeOK
    <3>3. circularEventQueue'[pos % Length] = circularEventQueue[pos % Length]
      BY <1>1, <3>1, <3>2, ModInRange DEF TypeOK
    <3>4. circularEventQueue[pos % Length] = history[pos + 1]
      BY <3>1 DEF WindowHoldsTheLatest, Slot, TypeOK
    <3>5. history'[pos + 1] = history[pos + 1]
      <4>1. pos + 1 \in 1..endPos
        BY <3>1, <1>a
      <4> QED BY <4>1, <1>5
    <3> QED BY <3>3, <3>4, <3>5
  <2> QED BY <2>1, <2>2
<1>7. \A i \in 1..endPos : history[i].rv <= e.rv
  <2>1. SUFFICES ASSUME NEW i \in 1..endPos PROVE history[i].rv <= e.rv
    OBVIOUS
  <2>2. endPos > 0 /\ endPos = Len(history)
    BY <2>1, <1>a
  <2>3. history[endPos].rv <= e.rv
    BY <2>2, LastEvent DEF enqueueEvent, InOrder
  <2>4. history[i].rv <= history[endPos].rv
    BY <2>1, <2>2, <1>a DEF HistorySorted
  <2> QED BY <2>1, <2>2, <2>3, <2>4, <1>a
<1>8. HistorySorted'
  <2> SUFFICES ASSUME NEW i \in 1..(endPos + 1), NEW j \in 1..(endPos + 1), i <= j
               PROVE  history'[i].rv <= history'[j].rv
    BY <1>5 DEF HistorySorted
  <2>1. CASE i = endPos + 1
    BY <1>5, <1>a, <2>1
  <2>2. CASE i # endPos + 1 /\ j = endPos + 1
    BY <1>5, <1>7, <1>a, <2>2
  <2>3. CASE j # endPos + 1
    <3>1. i \in 1..endPos /\ j \in 1..endPos
      BY <2>3, <1>a
    <3>2. history[i].rv <= history[j].rv
      BY <3>1, <1>a DEF HistorySorted
    <3> QED BY <3>1, <3>2, <1>5
  <2> QED BY <2>1, <2>2, <2>3
<1>9. LookupStaysValid'
  <2> SUFFICES ASSUME reader.pc = "found", reader.rv # NoRV
               PROVE  /\ reader.index < endPos + 1
                      /\ \A i \in 1..reader.index : history'[i].rv <= reader.rv
                      /\ \A i \in (reader.index + 1)..(endPos + 1) : history'[i].rv > reader.rv
    BY <1>1, <1>5 DEF LookupStaysValid
  <2>1. /\ reader.index \in Nat
        /\ reader.index < endPos
        /\ \A i \in 1..reader.index : history[i].rv <= reader.rv
        /\ \A i \in (reader.index + 1)..endPos : history[i].rv > reader.rv
    BY DEF LookupStaysValid, WindowHoldsTheLatest, TypeOK
  <2>2. reader.rv \in Int
    BY BoundAssumption DEF TypeOK, NoRV
  <2>3. e.rv > reader.rv
    BY <1>7, <1>a, <2>1, <2>2
  <2>4. ASSUME NEW i \in 1..reader.index PROVE history'[i].rv <= reader.rv
    <3>1. i \in 1..endPos
      BY <2>1, <1>a
    <3> QED BY <3>1, <2>1, <1>5
  <2>5. ASSUME NEW i \in (reader.index + 1)..(endPos + 1) PROVE history'[i].rv > reader.rv
    <3>1. CASE i = endPos + 1
      BY <3>1, <1>5, <2>3
    <3>2. CASE i # endPos + 1
      <4>1. i \in (reader.index + 1)..endPos /\ i \in 1..endPos
        BY <3>2, <2>1, <1>a
      <4> QED BY <4>1, <2>1, <1>5
    <3> QED BY <3>1, <3>2
  <2> QED BY <2>1, <2>4, <2>5, <1>a
<1>10. StartReadBehind'
  BY <1>1, <1>a DEF StartReadBehind, TypeOK
<1> QED BY <1>3, <1>4, <1>6, <1>8, <1>9, <1>10

(* An index getEventIndexSinceResourceVersion returns splits everything    *)
(* ever enqueued at the asked version, dropped events included.            *)
LEMMA SearchSplitsHistory ==
  ASSUME IInv, NEW rv \in 0..MaxRV, Slot(startPos).rv <= rv,
         NEW index \in SearchResults(rv), endPos > startPos
  PROVE  /\ \A i \in 1..index : history[i].rv <= rv
         /\ \A i \in (index + 1)..endPos : history[i].rv > rv
<1> USE DEF IInv
<1>1. /\ startPos \in Nat /\ endPos \in Nat /\ index \in startPos..endPos
      /\ index \in Nat
      /\ index > startPos => Slot(index - 1).rv <= rv
      /\ index < endPos => Slot(index).rv > rv
  BY DEF SearchResults, TypeOK
<1>2. \A i \in 1..endPos : history[i].rv \in Int
  BY HistoryTyped DEF WindowHoldsTheLatest
<1>3. \A pos \in startPos..(endPos - 1) : Slot(pos).rv = history[pos + 1].rv
  BY DEF WindowHoldsTheLatest
<1>4. \A i, j \in 1..endPos : i <= j => history[i].rv <= history[j].rv
  BY DEF HistorySorted, WindowHoldsTheLatest
<1>5. index > startPos
  <2>1. SUFFICES ASSUME index = startPos PROVE FALSE
    BY <1>1
  <2>2. Slot(startPos).rv > rv /\ Slot(startPos).rv \in Int
    BY <1>1, <1>2, <1>3, <2>1
  <2> QED BY <2>2
<1>6. history[index].rv <= rv
  BY <1>1, <1>3, <1>5
<1>7. ASSUME NEW i \in 1..index PROVE history[i].rv <= rv
  BY <1>1, <1>2, <1>4, <1>5, <1>6, <1>7
<1>8. ASSUME NEW i \in (index + 1)..endPos PROVE history[i].rv > rv
  <2>1. history[index + 1].rv > rv
    BY <1>1, <1>3, <1>8
  <2> QED BY <1>1, <1>2, <1>4, <1>8, <2>1
<1> QED BY <1>7, <1>8

(* Looking an index up changes nothing but the reader and the answer; the  *)
(* index it leaves with the reader is one the fetch may use.               *)
LEMMA LookupIInv ==
  ASSUME IInv, NEW rv \in 0..MaxRV, getEventIndexSinceResourceVersion(rv)
  PROVE  IInv'
<1> USE DEF IInv
<1>1. UNCHANGED <<circularEventQueue, startPos, endPos, history>>
  BY DEF getEventIndexSinceResourceVersion, queueVars
<1>2. WindowBounded' /\ WindowHoldsTheLatest' /\ HistorySorted'
  BY <1>1 DEF WindowBounded, WindowHoldsTheLatest, HistorySorted, Slot
<1>3. CASE /\ UNCHANGED reader
           /\ \E kind \in {"refused", "end"} : answer' = Answer(kind, rv, <<>>)
  <2>1. TypeOK'
    BY <1>1, <1>3 DEF TypeOK, Answer
  <2>2. LookupStaysValid'
    BY <1>1, <1>3 DEF LookupStaysValid
  <2>3. StartReadBehind'
    BY <1>1, <1>3 DEF StartReadBehind
  <2> QED BY <1>2, <2>1, <2>2, <2>3
<1>4. CASE \E index \in SearchResults(rv) :
             /\ endPos - startPos # 0 /\ ~(Slot(startPos).rv > rv)
             /\ index # endPos
             /\ reader' = [pc |-> "found", rv |-> rv, index |-> index]
             /\ UNCHANGED answer
  <2>1. PICK index \in SearchResults(rv) :
             /\ endPos - startPos # 0 /\ ~(Slot(startPos).rv > rv)
             /\ index # endPos
             /\ reader' = [pc |-> "found", rv |-> rv, index |-> index]
             /\ UNCHANGED answer
    BY <1>4
  <2>2. endPos > startPos /\ index \in Nat /\ index < endPos
    BY <2>1 DEF SearchResults, TypeOK, WindowBounded
  <2>3. Slot(startPos).rv <= rv
    <3>1. Slot(startPos) = history[startPos + 1] /\ startPos + 1 \in 1..Len(history)
      BY <2>2 DEF TypeOK, WindowHoldsTheLatest
    <3>2. Slot(startPos) \in Event
      BY <3>1 DEF TypeOK
    <3> QED BY <2>1, <3>2, BoundAssumption DEF Event
  <2>4. TypeOK'
    BY <1>1, <2>1, <2>2 DEF TypeOK
  <2>5. LookupStaysValid'
    BY <1>1, <2>1, <2>2, <2>3, SearchSplitsHistory DEF LookupStaysValid, WindowHoldsTheLatest
  <2>6. StartReadBehind'
    BY <1>1, <2>1 DEF StartReadBehind, NoRV
  <2> QED BY <1>2, <2>4, <2>5, <2>6
<1> QED BY <1>3, <1>4 DEF getEventIndexSinceResourceVersion

(* Reading startPos without the lock only moves the reader.                *)
LEMMA ReadStartIInv ==
  ASSUME IInv, readStartPos
  PROVE  IInv'
<1> USE DEF IInv, readStartPos, queueVars
<1>1. TypeOK'
  BY DEF TypeOK, NoRV
<1>2. WindowBounded' /\ WindowHoldsTheLatest' /\ HistorySorted' /\ LookupStaysValid'
  BY DEF WindowBounded, WindowHoldsTheLatest, HistorySorted, LookupStaysValid, Slot, NoRV
<1>3. StartReadBehind'
  BY DEF StartReadBehind, TypeOK
<1> QED BY <1>1, <1>2, <1>3

(* What getEventsFromIndex returns is the end of all that was enqueued.    *)
LEMMA FetchReturnsHistory ==
  ASSUME IInv, ~OutOfRange(reader.index)
  PROVE  /\ EventsFrom(reader.index) = SubSeq(history, reader.index + 1, Len(history))
         /\ EventsFrom(reader.index) \in Seq(Event)
<1> USE DEF IInv
<1> DEFINE index == reader.index
<1>1. /\ index \in Nat /\ endPos \in Nat /\ startPos \in Nat
      /\ startPos <= index /\ index <= endPos /\ endPos = Len(history)
  BY DEF OutOfRange, TypeOK, WindowHoldsTheLatest
<1>2. \A i \in 1..(endPos - index) : Slot(index + i - 1) = history[index + i]
  BY <1>1 DEF WindowHoldsTheLatest
<1>3. EventsFrom(index) = [i \in 1..(endPos - index) |-> history[index + i]]
  BY <1>2 DEF EventsFrom
<1>4. SubSeq(history, index + 1, endPos) = [i \in 1..(endPos - index) |-> history[index + i]]
  BY <1>1 DEF TypeOK
<1>5. \A i \in 1..(endPos - index) : history[index + i] \in Event
  BY <1>1 DEF TypeOK
<1>6. EventsFrom(index) \in [1..(endPos - index) -> Event]
  BY <1>3, <1>5
<1>7. endPos - index \in Nat
  BY <1>1
<1> HIDE DEF index
<1>8. EventsFrom(index) \in Seq(Event)
  BY <1>6, <1>7
<1> QED BY <1>1, <1>3, <1>4, <1>8 DEF index

(* Fetching leaves the queue alone and ends the read.                      *)
LEMMA FetchIInv ==
  ASSUME IInv, getEventsFromIndex
  PROVE  IInv'
<1> USE DEF IInv
<1>1. /\ UNCHANGED <<circularEventQueue, startPos, endPos, history>>
      /\ reader' = Idle
  BY DEF getEventsFromIndex, queueVars
<1>2. /\ WindowBounded' /\ WindowHoldsTheLatest' /\ HistorySorted'
      /\ LookupStaysValid' /\ StartReadBehind'
  BY <1>1 DEF WindowBounded, WindowHoldsTheLatest, HistorySorted, LookupStaysValid,
              StartReadBehind, Slot, Idle
<1>3. answer' \in [kind : {"none", "events", "end", "refused"},
                  rv : {NoRV} \cup 0..MaxRV, events : Seq(Event)]
  <2>1. CASE OutOfRange(reader.index)
    BY <2>1 DEF getEventsFromIndex, Answer, TypeOK
  <2>2. CASE ~OutOfRange(reader.index)
    BY <2>2, FetchReturnsHistory DEF getEventsFromIndex, Answer, TypeOK
  <2> QED BY <2>1, <2>2
<1>4. TypeOK'
  BY <1>1, <1>3 DEF TypeOK, Idle, NoRV
<1> QED BY <1>2, <1>4

(* The invariant is kept by every step.                                    *)
LEMMA NextIInv == IInv /\ [Next]_vars => IInv'
<1>1. ASSUME IInv, Next PROVE IInv'
  BY <1>1, EnqueueIInv, LookupIInv, ReadStartIInv, FetchIInv DEF Next
<1>2. ASSUME IInv, UNCHANGED vars PROVE IInv'
  BY <1>2 DEF IInv, TypeOK, WindowBounded, WindowHoldsTheLatest, HistorySorted,
              LookupStaysValid, StartReadBehind, Slot, vars
<1> QED BY <1>1, <1>2

(* The inductive invariant holds: types, window, contents, and what is     *)
(* known of an index that was looked up before the lock was released.      *)
THEOREM Invariant == Spec => []IInv
BY InitIInv, NextIInv, PTL DEF Spec

(* The queue's counters, slots and reads keep their types                  *)
(* (eventqueue.go:36-44).                                                  *)
THEOREM Typing == Spec => []TypeOK
<1>1. IInv => TypeOK
  BY DEF IInv
<1> QED BY <1>1, Invariant, PTL

(* enqueueEvent never lets the window outgrow the slots and drops an event *)
(* only when the queue is full (eventqueue.go:59-62).                      *)
THEOREM Window == Spec => []WindowBounded
<1>1. IInv => WindowBounded
  BY DEF IInv
<1> QED BY <1>1, Invariant, PTL

(* Wrapping around never damages a retained event (eventqueue.go:64).      *)
THEOREM Contents == Spec => []WindowHoldsTheLatest
<1>1. IInv => WindowHoldsTheLatest
  BY DEF IInv
<1> QED BY <1>1, Invariant, PTL

(* An index looked up under one critical section is still right in a later *)
(* one (eventqueue.go:211 and 228).                                        *)
THEOREM Lookup == Spec => []LookupStaysValid
<1>1. IInv => LookupStaysValid
  BY DEF IInv
<1> QED BY <1>1, Invariant, PTL
-----------------------------------------------------------------------------
(* The refinement: every step of the queue is a step of the log or leaves  *)
(* log and answer alone.                                                   *)

(* The oldest position of the abstract log is the window's first.          *)
LEMMA OldestIsStart ==
  ASSUME IInv, endPos > startPos
  PROVE  /\ Log!Oldest = startPos + 1
         /\ history # <<>>
         /\ history[Log!Oldest] = Slot(startPos)
<1> USE LengthAssumption DEF IInv
<1>1. startPos \in Nat /\ endPos \in Nat /\ endPos = Len(history)
  BY DEF TypeOK, WindowHoldsTheLatest
<1>2. Log!Oldest = startPos + 1
  BY <1>1 DEF Log!Oldest, WindowBounded
<1>3. Slot(startPos) = history[startPos + 1]
  BY <1>1 DEF WindowHoldsTheLatest
<1> QED BY <1>1, <1>2, <1>3

(* enqueueEvent appends to the log.                                        *)
LEMMA EnqueueRefines ==
  ASSUME IInv, NEW e \in Event, enqueueEvent(e)
  PROVE  Log!LogAppend
<1> USE DEF IInv
<1>1. history' = Append(history, e) /\ UNCHANGED answer
  BY DEF enqueueEvent
<1>2. history \in Seq(Event)
  BY DEF TypeOK
<1>3. /\ Len(history') = Len(history) + 1
      /\ history'[Len(history) + 1] = e
      /\ \A i \in 1..Len(history) : history'[i] = history[i]
  BY <1>1, <1>2
<1>4. SubSeq(history', 1, Len(history)) = history
  BY <1>1, <1>2
<1>5. HistorySorted'
  BY EnqueueIInv
<1>6. \A i \in 1..Len(history) : history[i].rv <= history'[Len(history) + 1].rv
  <2> SUFFICES ASSUME NEW i \in 1..Len(history)
               PROVE  history[i].rv <= history'[Len(history) + 1].rv
    OBVIOUS
  <2>1. i \in 1..Len(history') /\ Len(history) + 1 \in 1..Len(history') /\ i <= Len(history) + 1
    BY <1>2, <1>3
  <2>2. history'[i].rv <= history'[Len(history) + 1].rv
    BY <1>5, <2>1 DEF HistorySorted
  <2> QED BY <1>3, <2>2
<1> QED BY <1>1, <1>3, <1>4, <1>6 DEF Log!LogAppend

(* Looking an index up ends in an error, or is nothing the log knows of.   *)
LEMMA LookupRefines ==
  ASSUME IInv, NEW rv \in 0..MaxRV, getEventIndexSinceResourceVersion(rv)
  PROVE  [Log!LogNext]_(Log!logVars)
<1> USE DEF IInv
<1>1. UNCHANGED history
  BY DEF getEventIndexSinceResourceVersion
<1>2. startPos \in Nat /\ endPos \in Nat /\ endPos = Len(history) /\ startPos <= endPos
  BY DEF TypeOK, WindowHoldsTheLatest, WindowBounded
<1>3. CASE /\ endPos - startPos = 0 \/ Slot(startPos).rv > rv
           /\ answer' = Answer("refused", rv, <<>>)
  <2>1. history = <<>> \/ history[Log!Oldest].rv > rv
    <3>1. CASE endPos = startPos
      <4>1. startPos = 0
        BY <1>2, <3>1, LengthAssumption DEF WindowBounded
      <4>2. history \in Seq(Event) /\ Len(history) = 0
        BY <1>2, <3>1, <4>1 DEF TypeOK
      <4> QED BY <4>2
    <3>2. CASE endPos > startPos
      <4>1. Slot(startPos).rv > rv
        BY <1>2, <1>3, <3>2
      <4> QED BY <3>2, <4>1, OldestIsStart
    <3> QED BY <1>2, <3>1, <3>2
  <2>2. Log!Refuse(rv)
    BY <1>1, <1>3, <2>1 DEF Log!Refuse, Answer
  <2> QED BY <2>2 DEF Log!LogNext
<1>4. CASE /\ ~(endPos - startPos = 0 \/ Slot(startPos).rv > rv)
           /\ \E index \in SearchResults(rv) :
                IF index = endPos
                THEN /\ answer' = Answer("end", rv, <<>>)
                     /\ UNCHANGED reader
                ELSE /\ reader' = [pc |-> "found", rv |-> rv, index |-> index]
                     /\ UNCHANGED answer
  <2>1. PICK index \in SearchResults(rv) :
                IF index = endPos
                THEN /\ answer' = Answer("end", rv, <<>>)
                     /\ UNCHANGED reader
                ELSE /\ reader' = [pc |-> "found", rv |-> rv, index |-> index]
                     /\ UNCHANGED answer
    BY <1>4
  <2>2. CASE index # endPos
    BY <1>1, <2>1, <2>2 DEF Log!logVars
  <2>3. CASE index = endPos
    <3>1. endPos > startPos
      BY <1>2, <1>4
    <3>2. Slot(startPos) = history[startPos + 1] /\ startPos + 1 \in 1..Len(history)
      BY <1>2, <3>1 DEF WindowHoldsTheLatest
    <3>3. Slot(startPos).rv <= rv
      BY <1>4, <3>2, HistoryTyped
    <3>4. Log!SplitsAt(rv, Len(history))
      BY <1>2, <2>3, <3>1, <3>3, SearchSplitsHistory DEF Log!SplitsAt
    <3>5. Log!AnswerUpToDate(rv)
      BY <1>1, <2>1, <2>3, <3>4 DEF Log!AnswerUpToDate, Answer
    <3> QED BY <3>5 DEF Log!LogNext
  <2> QED BY <2>2, <2>3
<1> QED BY <1>3, <1>4 DEF getEventIndexSinceResourceVersion

(* Reading from the index answers with the log since the version.          *)
LEMMA FetchRefines ==
  ASSUME IInv, getEventsFromIndex
  PROVE  Log!LogNext
<1> USE DEF IInv
<1> DEFINE index == reader.index
           rv == reader.rv
<1>1. reader.pc = "found" /\ UNCHANGED history
  BY DEF getEventsFromIndex
<1>2. /\ startPos \in Nat /\ endPos \in Nat /\ index \in Nat
      /\ endPos = Len(history) /\ startPos <= endPos
      /\ rv = NoRV \/ rv \in 0..MaxRV
  BY DEF TypeOK, WindowHoldsTheLatest, WindowBounded
<1>3. CASE OutOfRange(index)
  <2>1. answer' = Answer("refused", rv, <<>>)
    BY <1>3 DEF getEventsFromIndex
  <2>2. CASE rv = NoRV
    BY <1>1, <2>1, <2>2 DEF Log!LogNext, Log!Refuse, Answer
  <2>3. CASE rv # NoRV
    <3>1. /\ index < endPos
          /\ \A i \in (index + 1)..Len(history) : history[i].rv > rv
      BY <1>1, <2>3 DEF LookupStaysValid
    <3>2. endPos > startPos
      BY <1>2, <3>1, LengthAssumption DEF WindowBounded
    <3>3. startPos > index
      BY <1>2, <1>3, <3>1, <3>2 DEF OutOfRange
    <3>4. history[Log!Oldest].rv > rv
      <4>1. Log!Oldest = startPos + 1
        BY <3>2, OldestIsStart
      <4>2. startPos + 1 \in (index + 1)..Len(history)
        BY <1>2, <3>2, <3>3
      <4> QED BY <3>1, <4>1, <4>2
    <3>5. Log!Refuse(rv)
      BY <1>1, <2>1, <3>4 DEF Log!Refuse, Answer
    <3> QED BY <1>2, <2>3, <3>5 DEF Log!LogNext
  <2> QED BY <2>2, <2>3
<1>4. CASE ~OutOfRange(index)
  <2>1. answer' = Answer("events", rv, SubSeq(history, index + 1, Len(history)))
    BY <1>4, FetchReturnsHistory DEF getEventsFromIndex
  <2>2. endPos > startPos /\ startPos <= index /\ index <= endPos
    BY <1>2, <1>4 DEF OutOfRange
  <2>3. CASE rv = NoRV
    <3>1. index = startPos
      BY <1>1, <1>2, <2>2, <2>3 DEF StartReadBehind
    <3>2. Log!Retained = SubSeq(history, index + 1, Len(history)) /\ history # <<>>
      BY <2>2, <3>1, OldestIsStart DEF Log!Retained
    <3>3. Log!AnswerAll
      BY <1>1, <2>1, <2>3, <3>2 DEF Log!AnswerAll, Answer
    <3> QED BY <3>3 DEF Log!LogNext
  <2>4. CASE rv # NoRV
    <3>1. /\ index < endPos
          /\ \A i \in 1..index : history[i].rv <= rv
          /\ \A i \in (index + 1)..Len(history) : history[i].rv > rv
      BY <1>1, <2>4 DEF LookupStaysValid
    <3>2. index \in 0..(Len(history) - 1) /\ Log!SplitsAt(rv, index)
      BY <1>2, <3>1 DEF Log!SplitsAt
    <3>3. Log!AnswerNews(rv)
      BY <1>1, <2>1, <3>2 DEF Log!AnswerNews, Answer
    <3> QED BY <1>2, <2>4, <3>3 DEF Log!LogNext
  <2> QED BY <2>3, <2>4
<1> QED BY <1>3, <1>4

(* The two critical sections of a read look like one atomic read of the    *)
(* log that leaves no newer event out (eventqueue.go:68-109, 205-242).     *)
THEOREM Refinement == Spec => ImplementsLog
<1>1. Init => Log!LogInit
  BY DEF Init, Log!LogInit, Answer
<1>2. IInv /\ [Next]_vars => [Log!LogNext]_(Log!logVars)
  <2> SUFFICES ASSUME IInv, [Next]_vars PROVE [Log!LogNext]_(Log!logVars)
    OBVIOUS
  <2>1. CASE \E e \in Event : enqueueEvent(e)
    BY <2>1, EnqueueRefines DEF Log!LogNext
  <2>2. CASE \E rv \in 0..MaxRV : getEventIndexSinceResourceVersion(rv)
    BY <2>2, LookupRefines
  <2>3. CASE readStartPos
    BY <2>3 DEF readStartPos, Log!logVars
  <2>4. CASE getEventsFromIndex
    BY <2>4, FetchRefines
  <2>5. CASE UNCHANGED vars
    BY <2>5 DEF vars, Log!logVars
  <2> QED BY <2>1, <2>2, <2>3, <2>4, <2>5 DEF Next
<1> QED BY <1>1, <1>2, Invariant, PTL DEF Spec, ImplementsLog, Log!LogSpec
=============================================================================
