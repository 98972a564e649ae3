------------------------------ MODULE MCClient ------------------------------
EXTENDS ClientSession

CONSTANTS n1, n2

MCFirstNodes == <<n1>>
MCKeyFunc == [obj \in Objects |-> IF obj.node \in Nodes THEN obj.node ELSE NoKey]
MCObjects == [node : Nodes, rv : 1..MaxRV] \cup {[node |-> None, rv |-> 1]}
MCIndexFunc == [name \in IndexNames |-> [obj \in Objects |-> {obj.rv, 1}]]
MCIndexValues == 1..MaxRV
MCLists == UNION {[1..k -> [node : Nodes \cup {None}, rv : {1}] \cup [node : {n1}, rv : {2}]] :
                  k \in {0, 2}}

(* Besides the client's session, a program that uses a store, with or      *)
(* without indices, for itself.                                            *)
UsesStoreOnly == pc = "done" /\ sw = NoWatcher

MCInit ==
  /\ RequestInit /\ ServiceInit
  /\ \/ NewStore /\ SessionInit
     \/ /\ StoreInit
        /\ pc = "done" /\ id = None /\ listed = {} /\ rvs = None /\ sw = NoWatcher

MCNext ==
  \/ ~UsesStoreOnly /\ Next
  \/ UsesStoreOnly /\ StoreNext /\ UNCHANGED <<call, serviceVars, sessionVars>>

MCSpec == MCInit /\ [][MCNext]_vars /\ Fairness
=============================================================================
