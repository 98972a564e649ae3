----------------------------- MODULE ClientCache -----------------------------
(***************************************************************************)
(* The store a client keeps its nodes in (clientSdk/tools/cache): cache,   *)
(* which finds the key of an object, and threadSafeMap, which holds the    *)
(* objects and their indices.  Every operation of threadSafeMap holds its  *)
(* lock from beginning to end, so that each is one step.                   *)
(***************************************************************************)
EXTENDS Integers, Sequences

CONSTANTS
  Objects, Keys,
  KeyFunc,       \* object -> its key, NoKey when the key function fails
  IndexNames, IndexValues,
  IndexFunc,     \* index name -> object -> the values it is found under
  NoObject, NoKey

ASSUME CacheAssumption ==
  /\ KeyFunc \in [Objects -> Keys \cup {NoKey}]
  /\ IndexFunc \in [IndexNames -> [Objects -> SUBSET IndexValues]]
  /\ NoObject \notin Objects
  /\ NoKey \notin Keys

(* Definitions named after what is wrong with them are deliberately wrong  *)
(* variants of the definition that follows them; none is part of the       *)
(* specification.                                                          *)

VARIABLES
  items,     \* key -> object, NoObject without one
  indexers,  \* names of the index functions of the store
  indices    \* index name -> value -> keys

storeVars == <<items, indexers, indices>>

Empty == [key \in Keys |-> NoObject]
NoIndices == [name \in IndexNames |-> [value \in IndexValues |-> {}]]

NewIndexer(names) ==
  /\ items = Empty
  /\ indexers = names
  /\ indices = NoIndices

NewStore == NewIndexer({})

StoredKeys(stored) == {key \in Keys : stored[key] # NoObject}
Found(name, obj, value) == obj # NoObject /\ value \in IndexFunc[name][obj]

-----------------------------------------------------------------------------
(* A key leaves the values of the old object and enters those of the new.  *)
(* Values nobody has any more keep their (empty) set.                      *)

updateIndicesOfNew(old, new, key) ==
  [name \in IndexNames |-> [value \in IndexValues |->
     indices[name][value] \cup {k \in {key} : name \in indexers /\ Found(name, new, value)}]]

updateIndices(old, new, key) ==
  [name \in IndexNames |-> [value \in IndexValues |->
     IF name \notin indexers THEN indices[name][value] ELSE
     (indices[name][value] \ {k \in {key} : Found(name, old, value)})
       \cup {k \in {key} : Found(name, new, value)}]]

deleteFromIndices(obj, key) == updateIndices(obj, NoObject, key)

(* An object without a key is refused, and the caller told.                *)

Put(obj) ==
  LET key == KeyFunc[obj] IN
  /\ IF key = NoKey THEN UNCHANGED <<items, indices>> ELSE
     /\ items' = [items EXCEPT ![key] = obj]
     /\ indices' = updateIndices(items[key], obj, key)
  /\ UNCHANGED indexers

Add(obj) == Put(obj)
Update(obj) == Put(obj)

Delete(obj) ==
  LET key == KeyFunc[obj] IN
  /\ IF key = NoKey \/ key \notin StoredKeys(items) THEN UNCHANGED <<items, indices>> ELSE
     /\ items' = [items EXCEPT ![key] = NoObject]
     /\ indices' = deleteFromIndices(items[key], key)
  /\ UNCHANGED indexers

(* Replace takes a list, of which the last object of a key counts; a list  *)
(* with an object without key changes nothing.                             *)
LastWith(list, key) ==
  LET at == {i \in DOMAIN list : /\ KeyFunc[list[i]] = key
                                 /\ \A j \in DOMAIN list : j > i => KeyFunc[list[j]] # key} IN
  IF at = {} THEN NoObject ELSE list[CHOOSE i \in at : TRUE]

Replace(list) ==
  /\ IF \E i \in DOMAIN list : KeyFunc[list[i]] = NoKey THEN UNCHANGED <<items, indices>> ELSE
     LET new == [key \in Keys |-> LastWith(list, key)] IN
     /\ items' = new
     /\ indices' = [name \in IndexNames |-> [value \in IndexValues |->
                      {key \in Keys : name \in indexers /\ Found(name, new[key], value)}]]
  /\ UNCHANGED indexers

(* "If you call this after you already have data in the store, the results *)
(* are undefined": the code refuses, as it does a name already taken.      *)
AcceptedIndexers(names) == StoredKeys(items) = {} /\ names \cap indexers = {}

AddIndexers(names) ==
  /\ indexers' = IF AcceptedIndexers(names) THEN indexers \cup names ELSE indexers
  /\ UNCHANGED <<items, indices>>

-----------------------------------------------------------------------------
(* What readers get.                                                       *)

List == {items[key] : key \in StoredKeys(items)}
IndexKeys(name, value) == indices[name][value]
ByIndex(name, value) == {items[key] : key \in IndexKeys(name, value)}
Index(name, obj) ==
  UNION {ByIndex(name, value) : value \in IndexFunc[name][obj]}

-----------------------------------------------------------------------------
CONSTANT Lists   \* what Replace is called with

ASSUME ListsAssumption == Lists \subseteq Seq(Objects)

StoreInit == \E names \in SUBSET IndexNames : NewIndexer(names)

StoreNext ==
  \/ \E obj \in Objects : Add(obj) \/ Update(obj) \/ Delete(obj)
  \/ \E list \in Lists : Replace(list)
  \/ \E names \in SUBSET IndexNames : AddIndexers(names)

StoreSpec == StoreInit /\ [][StoreNext]_storeVars

(* Every variable has its type.                                            *)
StoreTypeOK ==
  /\ items \in [Keys -> Objects \cup {NoObject}]
  /\ indexers \subseteq IndexNames
  /\ indices \in [IndexNames -> [IndexValues -> SUBSET Keys]]

(* A lookup by index gives exactly the stored objects with that value,     *)
(* whatever was added, replaced, changed or deleted before: no key of an   *)
(* object that is gone or has another value now, and none missing.         *)
IndexMatchesItems ==
  \A name \in indexers : \A value \in IndexValues :
    IndexKeys(name, value) = {key \in Keys : Found(name, items[key], value)}

(* Index finds an object's like in the store, and only objects that are in *)
(* the store.                                                              *)
IndexedIsStored ==
  \A name \in indexers : \A obj \in Objects :
    Index(name, obj) = {o \in List : IndexFunc[name][o] \cap IndexFunc[name][obj] # {}}
=============================================================================
