--------------------------- MODULE BoundedEventLog ---------------------------
(***************************************************************************)
(* What the event queue of one location promises to its two callers, the   *)
(* distributor that enqueues and the watch that reads: a log to which      *)
(* events are appended in resource version order, of which only the last   *)
(* Length events are retained.  A read since a resource version is atomic  *)
(* and is answered from the whole log or refused, and it may be refused    *)
(* only when the retained events cannot show that nothing is missing.      *)
(***************************************************************************)
EXTENDS Integers, Sequences

CONSTANTS
  Length,   \* how many events are retained
  RVs,      \* the resource versions readers ask for
  NoRV      \* a read that names no resource version

VARIABLES
  log,      \* every event ever appended
  answer    \* the answer of the last read

logVars == <<log, answer>>

Oldest == IF Len(log) > Length THEN Len(log) - Length + 1 ELSE 1

Retained == SubSeq(log, Oldest, Len(log))

LogInit ==
  /\ log = <<>>
  /\ answer = [kind |-> "none", rv |-> NoRV, events |-> <<>>]

LogAppend ==
  /\ Len(log') = Len(log) + 1
  /\ SubSeq(log', 1, Len(log)) = log
  /\ \A i \in 1..Len(log) : log[i].rv <= log'[Len(log) + 1].rv
  /\ UNCHANGED answer

(* Position k splits the log at rv: everything up to k is known to the     *)
(* reader, everything after k is news.                                     *)
SplitsAt(rv, k) ==
  /\ \A i \in 1..k : log[i].rv <= rv
  /\ \A i \in (k + 1)..Len(log) : log[i].rv > rv

AnswerNews(rv) ==
  /\ \E k \in 0..(Len(log) - 1) :
       /\ SplitsAt(rv, k)
       /\ answer' = [kind |-> "events", rv |-> rv, events |-> SubSeq(log, k + 1, Len(log))]
  /\ UNCHANGED log

AnswerUpToDate(rv) ==
  /\ SplitsAt(rv, Len(log))
  /\ answer' = [kind |-> "end", rv |-> rv, events |-> <<>>]
  /\ UNCHANGED log

AnswerAll ==
  /\ log # <<>>
  /\ answer' = [kind |-> "events", rv |-> NoRV, events |-> Retained]
  /\ UNCHANGED log

Refuse(rv) ==
  /\ rv = NoRV \/ log = <<>> \/ log[Oldest].rv > rv
  /\ answer' = [kind |-> "refused", rv |-> rv, events |-> <<>>]
  /\ UNCHANGED log

LogNext ==
  \/ LogAppend
  \/ AnswerAll
  \/ Refuse(NoRV)
  \/ \E rv \in RVs : AnswerNews(rv) \/ AnswerUpToDate(rv) \/ Refuse(rv)

LogSpec == LogInit /\ [][LogNext]_logVars
==============================================================================
