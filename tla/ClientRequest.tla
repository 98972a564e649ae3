---------------------------- MODULE ClientRequest ----------------------------
(***************************************************************************)
(* A request of the client SDK to the service (clientSdk/rest/request.go): *)
(* how it is put together, its attempts, and what becomes of the answer.   *)
(* ServiceAPI has the other side.  Connections break, answers are cut and  *)
(* the client's timeout strikes at any time; something between client and  *)
(* service may refuse a request for now (Retry-After).                     *)
(***************************************************************************)
EXTENDS Integers, Sequences

CONSTANTS
  MaxRetries,   \* 10 in the code
  Limits,       \* values of the limit parameter of a list, 0 when not given
  MaxClients,   \* bound on the clients the service knows
  MaxRV,        \* bound on the versions of a location
  None          \* nil

ASSUME RequestAssumption ==
  /\ MaxRetries \in Nat \ {0} /\ MaxClients \in Nat /\ MaxRV \in Nat
  /\ Limits \subseteq Nat
  /\ None \notin Nat

(* Definitions named after what is wrong with them are deliberately wrong  *)
(* variants of the definition that follows them; none is part of the       *)
(* specification.                                                          *)

VARIABLE call   \* the request being made

Ids == 1..MaxClients
Operations == {"register", "list", "watch"}

(* An answer's body is a sequence of JSON documents.                       *)
Answer(code, retryAfter, body) == [code |-> code, retryAfter |-> retryAfter, body |-> body]
NoAnswer == Answer(0, FALSE, <<>>)

NewRequest(op) ==
  [op |-> op, verb |-> IF op = "list" THEN "GET" ELSE "POST",
   name |-> None, limit |-> 0, rvs |-> None, err |-> FALSE]

(* The setters.  An error sticks, and later setters do nothing.            *)
Name(request, name) ==
  IF request.err THEN request ELSE
  IF name = None THEN [request EXCEPT !.err = TRUE] ELSE [request EXCEPT !.name = name]
Param(request, limit) == IF request.err THEN request ELSE [request EXCEPT !.limit = limit]
Body(request, rvs) == IF request.err THEN request ELSE [request EXCEPT !.rvs = rvs]

NoCall == [pc |-> "none", request |-> NewRequest("list"), retries |-> 0, atStart |-> TRUE,
           whole |-> TRUE, answer |-> NoAnswer, err |-> FALSE]

RequestInit == call = NoCall

(* DoRaw does not look at the error of the request, Watch does.            *)
Begin(request) ==
  call' = [NoCall EXCEPT
             !.request = request,
             !.pc = IF request.op = "watch" /\ request.err THEN "over" ELSE "do",
             !.err = request.op = "watch" /\ request.err]

-----------------------------------------------------------------------------
(* One attempt.  Sending a body leaves its reader at the end; what the     *)
(* service reads is what was left of it.                                   *)

HasBody(request) == request.verb = "POST"

Send ==
  /\ call.pc = "do"
  /\ call' = [call EXCEPT !.pc = "sent", !.whole = call.atStart,
                          !.atStart = ~HasBody(call.request)]

checkWait(answer) == answer.retryAfter /\ (answer.code = 429 \/ answer.code >= 500)

(* doRequest, once an attempt is over: another one, with the body from its *)
(* beginning, or the end.  It does not wait in between.                    *)
AtTheEnd(request) == ~HasBody(request)
SoughtBack(request) == TRUE

Finished(answer) == [call EXCEPT !.pc = "over", !.answer = answer]
Failed == [call EXCEPT !.pc = "over", !.err = TRUE]
Another == [call EXCEPT !.pc = "do", !.retries = @ + 1, !.atStart = SoughtBack(call.request)]

OneAttemptMore(answer) ==
  IF checkWait(answer) /\ call.retries < MaxRetries THEN Another ELSE Finished(answer)
AfterAttempt(answer) ==
  IF checkWait(answer) /\ call.retries + 1 < MaxRetries THEN Another ELSE Finished(answer)

(* A connection reset by the peer is made an answer that asks to come back *)
(* later, for a GET only: writes "are not idempotent".                     *)
ArtificialAnswer == Answer(500, TRUE, <<>>)
RetriedAlways(failure) == failure = "reset"
Retried(failure) == failure = "reset" /\ call.request.verb = "GET"

doRequestFails(failure) == IF Retried(failure) THEN AfterAttempt(ArtificialAnswer) ELSE Failed

(* IsProbableEOF, IsTimeout: a watch that ends before it began is an empty *)
(* one, not an error.                                                      *)
EmptyWatch == Answer(0, FALSE, <<>>)
WatchFails(failure) ==
  IF failure \in {"reset", "eof", "timeout"} THEN Finished(EmptyWatch) ELSE Failed

BeingAnswered == call.pc \in {"sent", "answered"}
InProgress == call.pc \in {"sent", "unanswered", "answered"}

Fails(failure) ==
  call' = IF call.request.op = "watch" THEN WatchFails(failure) ELSE doRequestFails(failure)

(* The timeout of the HTTP client is that of every call; a reset, a        *)
(* connection that ends, any other error.                                  *)
Timeout == InProgress /\ Fails("timeout")
ConnectionFails == InProgress /\ \E failure \in {"reset", "eof", "refused"} : Fails(failure)

(* Between client and service: not now.                                    *)
TurnedAway ==
  /\ call.pc = "sent"
  /\ \E code \in {429, 503} :
       call' = [call EXCEPT !.pc = "answered", !.answer = Answer(code, TRUE, <<>>)]

(* The answer arrives.  Its status code matters to doRequest for a retry   *)
(* only; Watch takes nothing but 200.  A body that cannot be read to its   *)
(* end is an error.                                                        *)
Receive ==
  /\ call.pc = "answered"
  /\ \/ call' = IF call.request.op # "watch" THEN AfterAttempt(call.answer) ELSE
                IF call.answer.code = 200 THEN Finished(call.answer) ELSE Failed
     \/ /\ call.request.op # "watch" /\ ~checkWait(call.answer)
        /\ call.answer.body # <<>>
        /\ call' = Failed

RequestStep == Send \/ Receive
RequestFault == Timeout \/ ConnectionFails \/ TurnedAway

(* Every variable has its type.                                            *)
Requests == [op : Operations, verb : {"GET", "POST"}, name : Ids \cup {None},
             limit : Limits \cup {0}, rvs : 0..MaxRV \cup {None}, err : BOOLEAN]
Answers(Documents) == [code : Nat, retryAfter : BOOLEAN, body : Seq(Documents)]

RequestTypeOK(Documents) ==
  call \in [pc : {"none", "do", "sent", "unanswered", "answered", "over"},
            request : Requests, retries : 0..(MaxRetries - 1), atStart : BOOLEAN,
            whole : BOOLEAN, answer : Answers(Documents), err : BOOLEAN]
=============================================================================
