-------------------------- MODULE AtomicAllocation --------------------------
(***************************************************************************)
(* What registration promises to clients and to the operator: stores are   *)
(* granted in one step, all that a request needs or none, to a client that *)
(* has none, and are never taken back or given to a second client; and the *)
(* client's list calls see either nothing or everything it was granted.    *)
(***************************************************************************)
EXTENDS Integers, FiniteSets

CONSTANTS
  Stores, Hashes, StoreOf, Clients, Requests, ClientOf,
  RequestedHostNum, MinimalRequestHostNum, None

VARIABLES
  kept,     \* positions at which a node is kept
  owner,    \* store -> the client it is granted to, or None
  visible   \* client -> the stores its list calls read

allocVars == <<kept, owner, visible>>

HostsIn(S) == {h \in kept : StoreOf[h] \in S}
Granted(c) == {s \in Stores : owner[s] = c}

AllocInit ==
  /\ kept = {}
  /\ owner = [s \in Stores |-> None]
  /\ visible = [c \in Clients |-> {}]

(* Nodes come and do not go.                                               *)
Keep ==
  /\ \E h \in Hashes : kept' = kept \cup {h}
  /\ UNCHANGED <<owner, visible>>

(* Free stores that hold hosts, enough of them, and none too many.         *)
Serves(q, S) ==
  /\ S \subseteq Granted(None)
  /\ \A s \in S : HostsIn({s}) # {}
  /\ Cardinality(HostsIn(S)) >= RequestedHostNum[q]
  /\ \E last \in S : Cardinality(HostsIn(S \ {last})) < RequestedHostNum[q]

Grant(q) ==
  /\ RequestedHostNum[q] > MinimalRequestHostNum
  /\ Granted(ClientOf[q]) = {}
  /\ \E S \in SUBSET Stores :
       /\ Serves(q, S)
       /\ owner' = [s \in Stores |-> IF s \in S THEN ClientOf[q] ELSE owner[s]]
  /\ UNCHANGED <<kept, visible>>

Publish(c) ==
  /\ visible[c] = {} /\ Granted(c) # {}
  /\ visible' = [visible EXCEPT ![c] = Granted(c)]
  /\ UNCHANGED <<kept, owner>>

AllocNext ==
  \/ Keep
  \/ \E q \in Requests : Grant(q)
  \/ \E c \in Clients : Publish(c)

AllocSpec == AllocInit /\ [][AllocNext]_allocVars
=============================================================================
