--------------------------- MODULE StoreUsersProofs ---------------------------
(***************************************************************************)
(* Theorems about those who use the memory backend, for every value of the *)
(* constants: any number of kinds, keys and clients, any log and channel   *)
(* size.                                                                   *)
(*                                                                         *)
(* The informer's cache is a snapshot of the store, for any restriction to *)
(* namespaces and names.  These theorems are about informers without a     *)
(* label selector and with a transform that accepts every object; with     *)
(* either one they are false.                                              *)
(*                                                                         *)
(* The client's Patch and DeleteAllOf, which make several calls of the     *)
(* store, do what a single call would: among other writers a patch changes *)
(* what it names, and only versions that were listed are deleted.          *)
(***************************************************************************)
EXTENDS CacheSync, StoreClient, MemoryStoreProofs

-----------------------------------------------------------------------------
(* No label selector, and a transform that accepts every object.           *)
PlainInformer == Selector = {} /\ Rejected = {}

CacheMap == [Keys -> Object \cup {NoObject}]

LEMMA PlainMatches ==
    ASSUME PlainInformer, NEW obj
    PROVE  (matchesSelectors(obj) <=> obj.key \in AllowedKeys) /\ Transformable(obj)
  BY Zenon DEF PlainInformer, matchesSelectors, Transformable

(* Adding an object that is not older than the cached one, nor different   *)
(* at the same resourceVersion, stores it if it is visible.                *)
LEMMA AddStores ==
    ASSUME PlainInformer, NEW c \in CacheMap, NEW obj \in Object,
           obj.key \notin AllowedKeys => c[obj.key] = NoObject,
           c[obj.key] \in {NoObject, obj} \/ obj.rv > c[obj.key].rv
    PROVE  add(c, obj).objects = [c EXCEPT ![obj.key] = Visible(obj)]
<1>1. obj.key \in Keys /\ obj.rv \in Nat /\ obj # NoObject
  BY NoObjectAssumption, Zenon DEF Object
<1>2. add(c, obj).objects =
        IF ~matchesSelectors(obj) \/ ~Fresh(obj, c[obj.key]) THEN c ELSE [c EXCEPT ![obj.key] = obj]
  BY PlainMatches, Zenon DEF add, Effect
<1>3. Visible(obj) = IF obj.key \in AllowedKeys THEN obj ELSE NoObject
  BY <1>1, PlainMatches, Zenon DEF Visible
<1>4. \A v : c[obj.key] = v => c = [c EXCEPT ![obj.key] = v]
  BY Zenon DEF CacheMap
<1>5. CASE obj.key \notin AllowedKeys
  BY <1>2, <1>3, <1>4, <1>5, PlainMatches, Zenon
<1>6. CASE obj.key \in AllowedKeys /\ c[obj.key] = obj
  <2>1. [c EXCEPT ![obj.key] = Visible(obj)] = c
    BY <1>3, <1>4, <1>6, Zenon
  <2>2. [c EXCEPT ![obj.key] = obj] = c
    BY <1>4, <1>6, Zenon
  <2> QED BY <1>2, <2>1, <2>2, Zenon
<1>7. CASE obj.key \in AllowedKeys /\ c[obj.key] # obj
  <2>1. Fresh(obj, c[obj.key])
    BY <1>7, Zenon DEF Fresh
  <2> QED BY <1>2, <1>3, <1>7, <2>1, PlainMatches, Zenon
<1> QED
  BY <1>5, <1>6, <1>7, Zenon

(* Dispatching an event newer than the cached object gives its key what    *)
(* the event says.                                                         *)
LEMMA DispatchStores ==
    ASSUME PlainInformer, NEW c \in CacheMap, NEW event \in Event,
           event.obj.key \notin AllowedKeys => c[event.obj.key] = NoObject,
           c[event.obj.key] = NoObject \/ event.obj.rv > c[event.obj.key].rv
    PROVE  Dispatch(c, event).objects = [c EXCEPT ![event.obj.key] = Visible(Outcome(event))]
<1> DEFINE obj == event.obj
           old == c[obj.key]
<1>1. /\ obj \in Object /\ obj.key \in Keys /\ obj # NoObject
      /\ event.type \in {"ADDED", "MODIFIED", "DELETED"}
  BY NoObjectAssumption, Zenon DEF Object, Event
<1>2. \A v : c[obj.key] = v => c = [c EXCEPT ![obj.key] = v]
  BY <1>1, Zenon DEF CacheMap
<1>3. CASE event.type = "ADDED"
  <2>1. Dispatch(c, event) = add(c, obj) BY <1>3, Zenon DEF Dispatch
  <2>2. Outcome(event) = obj BY <1>3, Zenon DEF Outcome
  <2> QED BY <1>1, <2>1, <2>2, AddStores
<1>4. CASE event.type = "MODIFIED"
  <2>1. Dispatch(c, event) = update(c, obj) BY <1>4, Zenon DEF Dispatch
  <2>2. Outcome(event) = obj BY <1>4, Zenon DEF Outcome
  <2>3. Fresh(obj, old) BY Zenon DEF Fresh
  <2>4. CASE obj.key \in AllowedKeys
    <3>1. matchesSelectors(obj) /\ Transformable(obj) BY <2>4, PlainMatches, Zenon
    <3>2. update(c, obj).objects = [c EXCEPT ![obj.key] = obj] BY <2>3, <3>1, Zenon DEF update, Effect
    <3>3. Visible(obj) = obj BY <1>1, <3>1, Zenon DEF Visible
    <3> QED BY <2>1, <2>2, <3>2, <3>3, Zenon
  <2>5. CASE obj.key \notin AllowedKeys
    <3>1. ~matchesSelectors(obj) /\ old = NoObject BY <2>5, PlainMatches, Zenon
    <3>2. update(c, obj).objects = c BY <3>1, Zenon DEF update, Effect
    <3>3. Visible(obj) = NoObject BY <3>1, Zenon DEF Visible
    <3> QED BY <1>2, <2>1, <2>2, <3>1, <3>2, <3>3, Zenon
  <2> QED BY <2>4, <2>5, Zenon
<1>5. CASE event.type = "DELETED"
  <2>1. Dispatch(c, event) = delete(c, obj) BY <1>5, Zenon DEF Dispatch
  <2>2. Visible(Outcome(event)) = NoObject BY <1>5, Zenon DEF Outcome, Visible
  <2>3. CASE old = NoObject
    <3>1. delete(c, obj).objects = c BY <2>3, Zenon DEF delete, Effect
    <3> QED BY <1>2, <2>1, <2>2, <2>3, <3>1, Zenon
  <2>4. CASE old # NoObject
    <3>1. delete(c, obj).objects = [c EXCEPT ![obj.key] = NoObject] BY <2>4, Zenon DEF delete, Effect
    <3> QED BY <2>1, <2>2, <3>1, Zenon
  <2> QED BY <2>3, <2>4, Zenon
<1> QED
  BY <1>1, <1>3, <1>4, <1>5, Zenon

(* Replacing the cache by a list, one object for each key, leaves what of  *)
(* it is visible.                                                          *)
LEMMA ReplaceStores ==
    ASSUME PlainInformer, NEW c, NEW state \in CacheMap,
           \A key \in Keys : state[key] # NoObject => state[key].key = key
    PROVE  replaceAll(c, {state[key] : key \in Keys} \ {NoObject}).objects =
             [key \in Keys |-> Visible(state[key])]
<1> DEFINE items == {state[key] : key \in Keys} \ {NoObject}
<1>1. \A obj \in items, key \in Keys : obj.key = key <=> obj = state[key]
  BY Zenon
<1>2. \A key \in Keys : state[key] \in items <=> state[key] # NoObject
  BY Zenon
<1> HIDE DEF items
<1>3. replaceAll(c, items).objects =
        [key \in Keys |->
           IF \E obj \in items : obj.key = key /\ matchesSelectors(obj) /\ Transformable(obj)
           THEN CHOOSE obj \in items : obj.key = key ELSE NoObject]
  BY Zenon DEF replaceAll, Effect
<1>4. ASSUME NEW key \in Keys, state[key] # NoObject
      PROVE  (CHOOSE obj \in items : obj.key = key) = state[key]
  <2>1. state[key] \in items /\ state[key].key = key BY <1>2, <1>4, Zenon
  <2>2. (CHOOSE obj \in items : obj.key = key) \in items /\ (CHOOSE obj \in items : obj.key = key).key = key
    BY <2>1, Zenon
  <2> QED BY <1>1, <2>2, Zenon
<1>5. ASSUME NEW key \in Keys
      PROVE  (IF \E obj \in items : obj.key = key /\ matchesSelectors(obj) /\ Transformable(obj)
              THEN CHOOSE obj \in items : obj.key = key ELSE NoObject) = Visible(state[key])
  <2>1. CASE state[key] = NoObject
    <3>1. ~\E obj \in items : obj.key = key BY <1>1, <1>2, <2>1, Zenon
    <3> QED BY <2>1, <3>1, Zenon DEF Visible
  <2>2. CASE state[key] # NoObject
    <3>1. (\E obj \in items : obj.key = key /\ matchesSelectors(obj) /\ Transformable(obj))
            <=> matchesSelectors(state[key])
      BY <1>1, <1>2, <2>2, PlainMatches, Zenon
    <3> QED BY <1>4, <2>2, <3>1, Zenon DEF Visible
  <2> QED BY <2>1, <2>2, Zenon
<1> QED
  BY <1>3, <1>5, Zenon DEF items
-----------------------------------------------------------------------------
(***************************************************************************)
(* The inductive invariant of the loop.  The cache, the list still to be   *)
(* applied and the watch each stand for a revision of the history h:       *)
(* lastRV for the cache and for the consumer's position in the watch, the  *)
(* list's own revision for the list, which while it is being added object  *)
(* by object holds what the cache lacks.                                   *)
(***************************************************************************)
States(h, rv) == [key \in Keys |-> StateIn(h, InformerKind, key, rv)]

Items(state) == {state[key] : key \in Keys} \ {NoObject}

Shows(c, state) == \A key \in Keys : c[key] = Visible(state[key])

Fills(c, items, state) ==
    /\ items \subseteq Items(state)
    /\ \A key \in Keys : c[key] = Visible(state[key]) \/ (c[key] = NoObject /\ state[key] \in items)

Follows(v, rv) ==
    v.stage \in {"open", "stopping"} /\ v.gvk = InformerKind /\ v.sel = {} /\ v.cursor = rv

SyncTypeOK ==
    /\ pc \in {"list", "fill", "watch", "relist", "events", "stopping"}
    /\ lastRV \in 0..revision
    /\ listing \in [items : SUBSET Object, rv : 0..revision]
    /\ cached \in CacheMap

SyncOK ==
    /\ SyncTypeOK
    /\ pc = "list" => cached = NoObjects
    /\ pc = "fill" => Fills(cached, listing.items, States(history, listing.rv))
    /\ pc = "relist" => listing.items = Items(States(history, listing.rv))
    /\ pc \notin {"list", "fill"} => Shows(cached, States(history, lastRV))
    /\ pc = "events" => Follows(watch[Watcher], lastRV)

SyncInv == BackendInv /\ SyncOK

(* The states of the past are a map the cache could hold.                  *)
LEMMA StatesType ==
    ASSUME StoreInv, NEW rv \in 0..revision
    PROVE  /\ States(history, rv) \in CacheMap
           /\ \A key \in Keys : States(history, rv)[key] # NoObject => States(history, rv)[key].key = key
           /\ Items(States(history, rv)) \subseteq Object
<1>1. \A key \in Keys : LET st == StateIn(history, InformerKind, key, rv)
                       IN  st \in Object \cup {NoObject} /\ (st # NoObject => st.key = key)
  BY StateType, Zenon
<1>2. States(history, rv) \in CacheMap
  BY <1>1, Zenon DEF States, CacheMap
<1> QED
  BY <1>1, <1>2, Zenon DEF States, Items, CacheMap

(* Steps of the composed system are steps of the store.                    *)
LEMMA SyncIsStoreStep ==
    ASSUME SyncInv, [SyncNext]_syncVars
    PROVE  [Next]_vars
<1>1. InformerKind \in Kinds /\ Watcher \in Watchers /\ Selector \in SUBSET Labels
  BY InformerAssumption, SelectorAssumption, Zenon
<1>2. lastRV \in 0..revision /\ revision \in Nat
  BY Zenon DEF SyncInv, SyncOK, SyncTypeOK, BackendInv, StoreInv, TypeOK, LogTypeOK
<1>3. CASE Writers
  <2>1. AcceptedWrites BY <1>3, Zenon DEF Writers
  <2>2. Mutate BY <1>2, <2>1 DEF AcceptedWrites, Mutate
  <2> QED BY <2>2, Zenon DEF Next
<1>4. CASE OpenWatch
  BY <1>1, <1>2, <1>4, Zenon DEF OpenWatch, Next, Consume
<1>5. CASE HandleEvent
  BY <1>1, <1>5, Zenon DEF HandleEvent, Next, Consume
<1>6. CASE StopWatch
  BY <1>1, <1>6, Zenon DEF StopWatch, Next, Consume
<1>7. CASE Reconnect
  BY <1>1, <1>7, Zenon DEF Reconnect, Next, Consume
<1>8. CASE InitialList \/ InitialAdd \/ InitialSynced \/ RelistFetch \/ RelistApply \/ UNCHANGED syncVars
  BY <1>8, Zenon DEF InitialList, InitialAdd, InitialSynced, RelistFetch, RelistApply, syncVars
<1> QED
  BY <1>3, <1>4, <1>5, <1>6, <1>7, <1>8, Zenon DEF SyncNext, Informer

(* A write changes no state of the past, and moves no consumer.            *)
LEMMA WriterStep ==
    ASSUME SyncInv, Writers
    PROVE  SyncOK'
<1>1. PICK gvk \in Kinds, key \in Keys : \E type, obj, call : Mutation(gvk, key, type, obj, call)
  <2>1. revision \in Nat BY Zenon DEF SyncInv, BackendInv, StoreInv, TypeOK, LogTypeOK
  <2>2. Mutate BY <2>1 DEF Writers, AcceptedWrites, Mutate
  <2> QED BY <2>2, MutateMutates, Zenon DEF SyncInv, BackendInv, StoreInv
<1>2. PICK type, obj, call : Mutation(gvk, key, type, obj, call)
  BY <1>1, Zenon
<1>3. /\ revision \in Nat /\ revision' = revision + 1
      /\ DOMAIN history = 1..revision /\ DOMAIN history' = 1..(revision + 1)
      /\ \A i \in 1..revision : history'[i] = history[i]
  BY <1>2, MutationEffect, Zenon DEF SyncInv, BackendInv
<1>4. \A rv \in 0..revision : States(history', rv) = States(history, rv)
  <2>1. \A rv \in 0..revision, k \in Keys :
          StateIn(history', InformerKind, k, rv) = StateIn(history, InformerKind, k, rv)
    <3>1. DOMAIN history \subseteq DOMAIN history' /\ DOMAIN history' \subseteq Nat \ {0}
      BY <1>3
    <3> QED BY <1>3, <3>1, StateFrozen
  <2> QED BY <2>1, Zenon DEF States
<1>5. pc' = pc /\ lastRV' = lastRV /\ listing' = listing /\ cached' = cached
  BY Zenon DEF Writers, informerVars
<1>6. \A rv : Follows(watch[Watcher], rv) => Follows(watch'[Watcher], rv)
  <2>1. Subscription' = Subscription
    BY <1>2, EmitSubscription, Zenon DEF Mutation, Commit, SyncInv, BackendInv, StoreInv, TypeOK
  <2>2. Subscription'[Watcher] = Subscription[Watcher] /\ Watcher \in Watchers
    BY <2>1, InformerAssumption, Zenon
  <2> QED BY <2>2, Zenon DEF Subscription, Follows
<1>7. SyncTypeOK'
  <2>1. 0..revision \subseteq 0..revision' BY <1>3
  <2> QED BY <1>5, <2>1, Zenon DEF SyncInv, SyncOK, SyncTypeOK
<1>8. lastRV \in 0..revision /\ listing.rv \in 0..revision
  BY Zenon DEF SyncInv, SyncOK, SyncTypeOK
<1> QED
  BY <1>4, <1>5, <1>6, <1>7, <1>8, Zenon DEF SyncInv, SyncOK

(* What a list holds is the state of the store at the list's revision.     *)
LEMMA ListIsState ==
    ASSUME PlainInformer, StoreInv
    PROVE  /\ List(InformerKind, Selector).items = Items(States(history, revision))
           /\ List(InformerKind, Selector).rv = revision
           /\ List(InformerKind, Selector) \in [items : SUBSET Object, rv : 0..revision]
<1>1. \A key \in Keys : States(history, revision)[key] = objects[InformerKind][key]
  BY StateNow, InformerAssumption, Zenon DEF States
<1>2. List(InformerKind, Selector).items = {objects[InformerKind][key] : key \in Keys} \ {NoObject}
  BY Zenon DEF List, PlainInformer, Matches
<1>3. List(InformerKind, Selector).items = Items(States(history, revision))
  BY <1>1, <1>2, Zenon DEF Items
<1>4. revision \in 0..revision
  BY HistoryFacts
<1>5. Items(States(history, revision)) \subseteq Object
  BY <1>4, StatesType, Zenon
<1> QED
  BY <1>3, <1>4, <1>5, Zenon DEF List

(* The steps that fetch a list and leave the cache alone.                  *)
LEMMA FetchStep ==
    ASSUME PlainInformer, SyncInv, InitialList \/ RelistFetch
    PROVE  SyncOK'
<1>1. /\ listing' = List(InformerKind, Selector) /\ UNCHANGED <<revision, history, watch, lastRV, cached>>
      /\ (pc = "list" /\ pc' = "fill") \/ (pc = "watch" /\ pc' = "relist")
  BY Zenon DEF InitialList, RelistFetch, vars, logVars, watchVars
<1>2. /\ listing'.items = Items(States(history, revision)) /\ listing'.rv = revision
      /\ listing' \in [items : SUBSET Object, rv : 0..revision]
  BY <1>1, ListIsState, Zenon DEF SyncInv, BackendInv
<1>3. SyncTypeOK'
  BY <1>1, <1>2, Zenon DEF SyncInv, SyncOK, SyncTypeOK
<1>4. CASE pc = "list" /\ pc' = "fill"
  <2>1. cached = NoObjects BY <1>4, Zenon DEF SyncInv, SyncOK
  <2>2. Fills(cached, Items(States(history, revision)), States(history, revision))
    <3> DEFINE state == States(history, revision)
    <3> HIDE DEF state
    <3>1. \A key \in Keys : state[key] = NoObject => Visible(state[key]) = NoObject BY Zenon DEF Visible
    <3>2. Fills(cached, Items(state), state) BY <2>1, <3>1, Zenon DEF Fills, Items, NoObjects
    <3> QED BY <3>2, Zenon DEF state
  <2> QED BY <1>1, <1>2, <1>3, <1>4, <2>2, Zenon DEF SyncOK
<1>5. CASE pc = "watch" /\ pc' = "relist"
  <2>1. Shows(cached, States(history, lastRV)) BY <1>5, Zenon DEF SyncInv, SyncOK
  <2> QED BY <1>1, <1>2, <1>3, <1>5, <2>1, Zenon DEF SyncOK
<1> QED
  BY <1>1, <1>4, <1>5, Zenon

(* Adding one listed object.                                               *)
LEMMA AddStep ==
    ASSUME PlainInformer, SyncInv, InitialAdd
    PROVE  SyncOK'
<1>1. PICK obj \in listing.items : /\ listing' = [listing EXCEPT !.items = @ \ {obj}]
                                   /\ cached' = add(cached, obj).objects
  BY Zenon DEF InitialAdd
<1>2. pc = "fill" /\ UNCHANGED <<revision, history, watch, pc, lastRV>>
  BY Zenon DEF InitialAdd, vars, logVars, watchVars
<1>3. /\ listing \in [items : SUBSET Object, rv : 0..revision] /\ cached \in CacheMap
      /\ Fills(cached, listing.items, States(history, listing.rv))
  BY <1>2, Zenon DEF SyncInv, SyncOK, SyncTypeOK
<1>4. /\ listing' \in [items : SUBSET Object, rv : 0..revision]
      /\ listing'.items = listing.items \ {obj} /\ listing'.rv = listing.rv
  BY <1>1, <1>3, Zenon
<1> DEFINE state == States(history, listing.rv)
<1>5. /\ state \in CacheMap
      /\ \A key \in Keys : state[key] # NoObject => state[key].key = key
  BY <1>3, StatesType, Zenon DEF SyncInv, BackendInv
<1> HIDE DEF state
<1>6. obj \in Object /\ obj.key \in Keys /\ obj = state[obj.key] /\ obj # NoObject
  BY <1>3, <1>5 DEF Fills, Items, state, Object
<1>7. cached' = [cached EXCEPT ![obj.key] = Visible(obj)]
  <2>1. cached[obj.key] = Visible(obj) \/ cached[obj.key] = NoObject
    BY <1>3, <1>6, Zenon DEF Fills, state
  <2>2. Visible(obj) = IF obj.key \in AllowedKeys THEN obj ELSE NoObject
    BY <1>6, PlainMatches, Zenon DEF Visible
  <2> QED BY <1>1, <1>3, <1>6, <2>1, <2>2, AddStores, SMTT(20)
<1>8. cached' \in CacheMap
  <2>1. Visible(obj) \in Object \cup {NoObject} BY <1>6, Zenon DEF Visible
  <2> QED BY <1>3, <1>7, <2>1, Zenon DEF CacheMap
<1>9. Fills(cached', listing'.items, state)
  <2>1. listing'.items \subseteq Items(state) BY <1>3, <1>4, Zenon DEF Fills, state
  <2>2. ASSUME NEW key \in Keys
        PROVE  cached'[key] = Visible(state[key]) \/ (cached'[key] = NoObject /\ state[key] \in listing'.items)
    <3>1. CASE key = obj.key
      BY <1>3, <1>6, <1>7, <3>1, Zenon DEF CacheMap
    <3>2. CASE key # obj.key
      <4>1. cached'[key] = cached[key] BY <1>3, <1>7, <3>2, Zenon DEF CacheMap
      <4>2. state[key] # obj BY <1>5, <1>6, <3>2, Zenon
      <4>3. cached[key] = Visible(state[key]) \/ (cached[key] = NoObject /\ state[key] \in listing.items)
        BY <1>3, Zenon DEF Fills, state
      <4> QED BY <1>4, <4>1, <4>2, <4>3, Zenon
    <3> QED BY <3>1, <3>2, Zenon
  <2> QED BY <2>1, <2>2, Zenon DEF Fills
<1>10. SyncTypeOK'
  BY <1>2, <1>4, <1>8, Zenon DEF SyncInv, SyncOK, SyncTypeOK
<1> QED
  BY <1>2, <1>4, <1>9, <1>10, Zenon DEF SyncOK, state

(* The list is in the cache, and its revision becomes lastRV.              *)
LEMMA SyncedStep ==
    ASSUME PlainInformer, SyncInv, InitialSynced \/ RelistApply
    PROVE  SyncOK'
<1> DEFINE state == States(history, listing.rv)
<1>1. /\ lastRV' = listing.rv /\ listing' = NoListing /\ pc' = "watch"
      /\ UNCHANGED <<revision, history, watch>>
      /\ \/ pc = "fill" /\ listing.items = {} /\ cached' = cached
         \/ pc = "relist" /\ cached' = replaceAll(cached, listing.items).objects
  BY Zenon DEF InitialSynced, RelistApply, vars, logVars, watchVars
<1>2. listing.rv \in 0..revision /\ cached \in CacheMap /\ revision \in Nat
  BY HistoryFacts, Zenon DEF SyncInv, BackendInv, SyncOK, SyncTypeOK
<1>3. /\ state \in CacheMap
      /\ \A key \in Keys : state[key] # NoObject => state[key].key = key
  BY <1>2, StatesType, Zenon DEF SyncInv, BackendInv
<1>4. listing' \in [items : SUBSET Object, rv : 0..revision]
  BY <1>1, <1>2 DEF NoListing
<1>5. CASE pc = "fill" /\ listing.items = {} /\ cached' = cached
  <2>1. Shows(cached', state)
    BY <1>5, Zenon DEF SyncInv, SyncOK, Fills, Shows
  <2> QED BY <1>1, <1>2, <1>4, <1>5, <2>1, Zenon DEF SyncOK, SyncTypeOK
<1>6. CASE pc = "relist" /\ cached' = replaceAll(cached, listing.items).objects
  <2>1. listing.items = Items(state)
    BY <1>6, Zenon DEF SyncInv, SyncOK
  <2> HIDE DEF state
  <2>2. cached' = [key \in Keys |-> Visible(state[key])]
    BY <1>3, <1>6, <2>1, ReplaceStores, SMTT(20) DEF Items
  <2>3. cached' \in CacheMap
    <3>1. \A key \in Keys : Visible(state[key]) \in Object \cup {NoObject} BY <1>3, Zenon DEF Visible, CacheMap
    <3> QED BY <2>2, <3>1, Zenon DEF CacheMap
  <2>4. Shows(cached', state)
    BY <2>2, Zenon DEF Shows
  <2> QED BY <1>1, <1>2, <1>4, <2>3, <2>4, Zenon DEF SyncOK, SyncTypeOK, state
<1> QED
  BY <1>1, <1>5, <1>6, Zenon

(* Opening and stopping the watch leave the cache alone.                   *)
LEMMA WatchLoopStep ==
    ASSUME PlainInformer, SyncInv, OpenWatch \/ StopWatch \/ Reconnect
    PROVE  SyncOK'
<1>1. UNCHANGED <<revision, history, lastRV, listing, cached>>
  BY Zenon DEF OpenWatch, StopWatch, Reconnect, WatchFrom, openWatch, StopClose, removeWatcher, logVars
<1>2. /\ pc \in {"watch", "events", "stopping"} /\ pc' \in {"watch", "events", "stopping"}
      /\ pc' = "events" => OpenWatch
  BY Zenon DEF OpenWatch, StopWatch, Reconnect
<1>3. SyncTypeOK' /\ Shows(cached', States(history', lastRV'))
  BY <1>1, <1>2, Zenon DEF SyncInv, SyncOK, SyncTypeOK
<1>4. ASSUME OpenWatch PROVE Follows(watch'[Watcher], lastRV')
  <2>1. Watcher \in Watchers /\ watch \in [Watchers -> memoryWatcher] /\ Selector = {}
    BY InformerAssumption, Zenon DEF PlainInformer, SyncInv, BackendInv, StoreInv, TypeOK, LogTypeOK
  <2>2. \E ch, cap : watch' = [watch EXCEPT ![Watcher] =
                               [stage |-> "open", gvk |-> InformerKind, sel |-> Selector, ch |-> ch,
                                cap |-> cap, closed |-> FALSE, cursor |-> lastRV]]
    BY <1>4, Zenon DEF OpenWatch, WatchFrom, openWatch
  <2> QED BY <1>1, <2>1, <2>2 DEF Follows
<1> QED
  BY <1>2, <1>3, <1>4, Zenon DEF SyncOK

(* The event received is the next of its kind in the history.              *)
LEMMA NextEvent ==
    ASSUME SyncInv, pc = "events", Recv(Watcher)
    PROVE  LET event == Head(watch[Watcher].ch)
           IN  \E i \in Due(InformerKind, lastRV) :
                  /\ event = history[i].event
                  /\ \A j \in Due(InformerKind, lastRV) : ~(j < i)
                  /\ Follows(watch'[Watcher], i)
<1> DEFINE v == watch[Watcher]
           event == Head(v.ch)
<1>1. Follows(v, lastRV) /\ Watcher \in Watchers
  BY InformerAssumption, Zenon DEF SyncInv, SyncOK
<1>2. /\ LogTypeOK /\ LogIsRecentHistory /\ WatchOK /\ v \in memoryWatcher /\ Stream(v)
      /\ v.ch \in Seq(Event)
  BY <1>1, Zenon DEF SyncInv, BackendInv, StoreInv, TypeOK, LogTypeOK, memoryWatcher, WatchOK, WatcherOK, Follows
<1>3. /\ v.ch # <<>>
      /\ watch' = [watch EXCEPT ![Watcher].ch = Tail(@), ![Watcher].cursor = event.obj.rv]
  BY Zenon DEF Recv
<1>4. PICK i \in Due(InformerKind, lastRV) :
        /\ watch'[Watcher].cursor = history[i].revision
        /\ \A j \in Due(InformerKind, lastRV) : j < i => ~Matches({}, history[j].event.obj)
  <2>1. \E i \in Due(v.gvk, v.cursor) :
           /\ watch'[Watcher].cursor = history[i].revision
           /\ \A j \in Due(v.gvk, v.cursor) : j < i => ~Matches(v.sel, history[j].event.obj)
    BY <1>1, <1>2, RecvWatch, Zenon
  <2>2. v.gvk = InformerKind /\ v.cursor = lastRV /\ v.sel = {}
    BY <1>1, Zenon DEF Follows
  <2> HIDE DEF v
  <2> QED BY <2>1, <2>2, Zenon
<1>5. /\ watch'[Watcher].stage = v.stage /\ watch'[Watcher].gvk = v.gvk /\ watch'[Watcher].sel = v.sel
  BY <1>1, <1>2, RecvWatch, Zenon
<1>6. watch'[Watcher].cursor = event.obj.rv
  BY <1>1, <1>2, <1>3, Zenon DEF LogTypeOK, memoryWatcher
<1>7. 1 \in DOMAIN v.ch /\ event = v.ch[1]
  BY <1>2, <1>3
<1>8. PICK k \in Due(InformerKind, lastRV) : event = history[k].event
  BY <1>1, <1>2, <1>7, Zenon DEF Stream, Follows
<1>9. \A j \in Due(InformerKind, lastRV) : history[j].revision = j /\ history[j].event.obj.rv = j
  BY HistoryFacts, Zenon DEF Due, SyncInv, BackendInv
<1>10. k = i
  BY <1>4, <1>6, <1>8, <1>9, Zenon
<1>11. Follows(watch'[Watcher], i)
  BY <1>1, <1>4, <1>5, <1>9, Zenon DEF Follows
<1> QED
  BY <1>4, <1>8, <1>10, <1>11, Zenon DEF Matches

(* Handling it takes the cache to the event's revision.                    *)
LEMMA EventStep ==
    ASSUME PlainInformer, SyncInv, HandleEvent
    PROVE  SyncOK'
<1> DEFINE event == Head(watch[Watcher].ch)
<1>1. /\ pc = "events" /\ Recv(Watcher)
      /\ lastRV' = IF event.obj.rv > lastRV THEN event.obj.rv ELSE lastRV
      /\ cached' = Dispatch(cached, event).objects
      /\ pc' = pc /\ listing' = listing
      /\ UNCHANGED <<revision, history>>
  BY Zenon DEF HandleEvent, Recv, logVars
<1>2. PICK i \in Due(InformerKind, lastRV) :
        /\ event = history[i].event
        /\ \A j \in Due(InformerKind, lastRV) : ~(j < i)
        /\ Follows(watch'[Watcher], i)
  BY <1>1, NextEvent, Zenon
<1> HIDE DEF event
<1>3. /\ lastRV \in 0..revision /\ cached \in CacheMap /\ revision \in Nat
      /\ listing \in [items : SUBSET Object, rv : 0..revision]
      /\ Shows(cached, States(history, lastRV))
  BY <1>1, HistoryFacts, Zenon DEF SyncInv, BackendInv, SyncOK, SyncTypeOK
<1>4. /\ i \in 1..revision /\ i > lastRV /\ event \in Event /\ event.obj.rv = i
      /\ event.obj \in Object /\ event.obj.key \in Keys
  BY <1>2, HistoryFacts, Zenon DEF Due, SyncInv, BackendInv, Object
<1>5. lastRV' = i
  BY <1>1, <1>4, Zenon
<1> DEFINE key == event.obj.key
           st == StateIn(history, InformerKind, key, lastRV)
<1>6. cached[key] = Visible(st)
  BY <1>3, <1>4, Zenon DEF Shows, States
<1>7. st = NoObject \/ (st # NoObject /\ st.key = key /\ st.rv \in Nat /\ st.rv <= lastRV)
  BY <1>3, <1>4, StateType, Zenon DEF SyncInv, BackendInv
<1>8. /\ key \notin AllowedKeys => cached[key] = NoObject
      /\ cached[key] = NoObject \/ event.obj.rv > cached[key].rv
  <2> HIDE DEF st
  <2>1. st # NoObject => (matchesSelectors(st) <=> key \in AllowedKeys) BY <1>7, PlainMatches, Zenon
  <2>2. cached[key] = IF st # NoObject /\ key \in AllowedKeys THEN st ELSE NoObject
    BY <1>6, <2>1, Zenon DEF Visible
  <2>3. st # NoObject => i > st.rv BY <1>3, <1>4, <1>7
  <2> QED BY <1>4, <2>2, <2>3, Zenon
<1>9. cached' = [cached EXCEPT ![key] = Visible(Outcome(event))]
  BY <1>1, <1>3, <1>4, <1>8, DispatchStores, Zenon
<1>10. cached' \in CacheMap
  <2>1. Visible(Outcome(event)) \in Object \cup {NoObject} BY <1>4, Zenon DEF Visible, Outcome
  <2> QED BY <1>3, <1>9, <2>1, Zenon DEF CacheMap
<1>11. Shows(cached', States(history, i))
  <2> SUFFICES ASSUME NEW k \in Keys PROVE cached'[k] = Visible(StateIn(history, InformerKind, k, i))
    BY Zenon DEF Shows, States
  <2>1. StateIn(history, InformerKind, k, i) =
          IF k = key THEN Outcome(event) ELSE StateIn(history, InformerKind, k, lastRV)
    BY <1>2, <1>3, StateNext, Zenon DEF SyncInv, BackendInv
  <2>2. cached[k] = Visible(StateIn(history, InformerKind, k, lastRV))
    BY <1>3, Zenon DEF Shows, States
  <2> QED BY <1>3, <1>4, <1>9, <2>1, <2>2, Zenon DEF CacheMap
<1>12. SyncTypeOK'
  BY <1>1, <1>3, <1>4, <1>5, <1>10, SMTT(20) DEF SyncTypeOK
<1> QED
  BY <1>1, <1>2, <1>5, <1>11, <1>12, Zenon DEF SyncOK

(* SyncInv is inductive.                                                   *)
LEMMA SyncInvariant ==
    ASSUME PlainInformer
    PROVE  SyncSpec => []SyncInv
<1>1. SyncInit => SyncInv
  <2> SUFFICES ASSUME SyncInit PROVE SyncInv
    BY Zenon
  <2>1. BackendInv
    BY NewStoreInv, NewLogWatch, Zenon DEF SyncInit, NewStore, BackendInv
  <2>2. pc = "list" /\ lastRV = 0 /\ listing = NoListing /\ cached = NoObjects /\ revision = 0
    BY Zenon DEF SyncInit, NewStore, NewLog
  <2> QED BY <2>1, <2>2 DEF SyncInv, SyncOK, SyncTypeOK, NoListing, NoObjects, CacheMap
<1>2. SyncInv /\ [SyncNext]_syncVars => SyncInv'
  <2> SUFFICES ASSUME SyncInv, [SyncNext]_syncVars PROVE SyncInv'
    BY Zenon
  <2>1. [Next]_vars
    BY SyncIsStoreStep, Zenon
  <2>2. BackendInv'
    BY <2>1, StoreStep, WatchStep, Zenon DEF SyncInv, BackendInv
  <2>3. CASE UNCHANGED syncVars
    <3>1. UNCHANGED <<revision, history, watch, pc, lastRV, listing, cached>>
      BY <2>3, Zenon DEF syncVars, vars, logVars, watchVars, informerVars
    <3> QED BY <2>2, <3>1, Zenon DEF SyncInv, SyncOK, SyncTypeOK
  <2>4. CASE SyncNext
    BY <2>2, <2>4, WriterStep, FetchStep, AddStep, SyncedStep, WatchLoopStep, EventStep, Zenon
       DEF SyncNext, Informer, SyncInv
  <2> QED BY <2>3, <2>4, Zenon
<1> QED
  BY <1>1, <1>2, PTL DEF SyncSpec

(* At every step of the loop the cache holds exactly the objects of the    *)
(* store at revision lastRV: no event is lost, doubled or applied out of   *)
(* order across overflows of the channel, reconnections, compactions of    *)
(* the log and relists (startInformer, watchInformer, relistInformer).     *)
THEOREM CacheIsSnapshot ==
    ASSUME PlainInformer
    PROVE  SyncSpec => []CacheAtLastRV
<1>1. SyncInv => CacheAtLastRV
  BY StateAtIsStateIn, Zenon DEF SyncInv, SyncOK, Shows, States, CacheAtLastRV
<1> QED
  BY <1>1, SyncInvariant, PTL

(* With nothing left to receive on an open watch the cache is the store:   *)
(* what the run with a label selector refutes holds without one.           *)
THEOREM CaughtUpWithoutSelector ==
    ASSUME PlainInformer
    PROVE  SyncSpec => []CaughtUpCacheIsStore
<1>1. SyncInv => CaughtUpCacheIsStore
  <2> SUFFICES ASSUME SyncInv, pc = "events", watch[Watcher].ch = <<>>, ~watch[Watcher].closed,
                      NEW key \in Keys
               PROVE  cached[key] = Visible(objects[InformerKind][key])
    BY Zenon DEF CaughtUpCacheIsStore
  <2>1. /\ Follows(watch[Watcher], lastRV) /\ lastRV \in 0..revision
        /\ cached[key] = Visible(StateIn(history, InformerKind, key, lastRV))
    BY Zenon DEF SyncInv, SyncOK, SyncTypeOK, Shows, States
  <2>2. Stream(watch[Watcher])
    BY <2>1, InformerAssumption, Zenon DEF SyncInv, BackendInv, WatchOK, WatcherOK, Follows
  <2>3. Due(InformerKind, lastRV) = {}
    <3>1. \A i \in Due(InformerKind, lastRV) : Covered(watch[Watcher], i)
      BY <2>1, <2>2, Zenon DEF Stream, Follows
    <3>2. DOMAIN watch[Watcher].ch = {} BY EmptySeq
    <3> QED BY <2>1, <3>1, <3>2, Zenon DEF Covered, Matches, Follows
  <2>4. StateIn(history, InformerKind, key, revision) = StateIn(history, InformerKind, key, lastRV)
    <3>1. /\ revision \in Nat /\ DOMAIN history = 1..revision
          /\ \A j \in DOMAIN history : history[j].revision = j
      BY HistoryFacts, Zenon DEF SyncInv, BackendInv
    <3>2. \A r \in WritesIn(history, InformerKind, key) : r <= revision => r <= lastRV
      BY <2>1, <2>3, <3>1 DEF WritesIn, Due
    <3>3. /\ DOMAIN history \subseteq Nat /\ revision \in Nat
          /\ lastRV \in Nat /\ lastRV <= revision
      BY <2>1, <3>1
    <3> QED BY <3>2, <3>3, StateSkip, ZenonT(30)
  <2> QED BY <2>1, <2>4, StateNow, InformerAssumption, Zenon DEF SyncInv, BackendInv
<1> QED
  BY <1>1, SyncInvariant, PTL
-----------------------------------------------------------------------------
(***************************************************************************)
(* The clients.  What a call under way relies on is stated over a history  *)
(* h, so that it can be carried from one history to the next.              *)
(***************************************************************************)
PatchType ==
    [spec : Specs \cup {Keep}, status : Statuses \cup {Keep},
     add : SUBSET Labels, remove : SUBSET Labels, rv : Nat]

PatchRequest ==
    [verb : {"Update", "UpdateStatus"}, gvk : Kinds, patch : PatchType, has : SUBSET Labels, in : Object]

DeleteRequest == [verb : {"Delete"}, gvk : Kinds, listed : SUBSET Object, left : SUBSET Object]

(* The document written is the patch applied to a version of the object    *)
(* that is not older than the version the write insists on.                *)
PatchOK(h, q) ==
    /\ q.in.rv # 0
    /\ q.patch.rv # 0 => q.in.rv = q.patch.rv
    /\ \E r \in WritesIn(h, q.gvk, q.in.key) :
          /\ q.in.rv <= r
          /\ \E obj \in Object :
                q.has = obj.labels /\ q.in = Patched(h[r].event.obj, obj, q.patch)

(* The write that follows this version of the object is its delete.        *)
Gone(h, gvk, obj) ==
    LET W == WritesIn(h, gvk, obj.key)
    IN  \E r \in W : /\ h[r].event.type = "DELETED"
                     /\ obj.rv < r /\ obj.rv \in W /\ \A q \in W : q <= obj.rv \/ q >= r

DeleteOK(h, q) ==
    /\ \A obj \in q.left : obj.rv # 0
    /\ \A obj \in q.listed \ q.left : Gone(h, q.gvk, obj)

RequestOK(h, q) ==
    \/ q = NoRequest
    \/ q \in PatchRequest /\ PatchOK(h, q)
    \/ q \in DeleteRequest /\ DeleteOK(h, q)

ClientOK ==
    /\ load \in Load
    /\ request \in [Clients -> {NoRequest} \cup PatchRequest \cup DeleteRequest]
    /\ \A c \in Clients : RequestOK(history, request[c])

ClientInv == StoreInv /\ WriteInv /\ ClientOK

(* The object a key holds is its last write.                               *)
LEMMA CurrentWrite ==
    ASSUME StoreInv, NEW gvk \in Kinds, NEW key \in Keys, objects[gvk][key] # NoObject
    PROVE  LET obj == objects[gvk][key]
               W == WritesIn(history, gvk, key)
           IN  /\ obj \in Object /\ obj.key = key
               /\ obj.rv \in W /\ history[obj.rv].event.obj = obj
               /\ \A q \in W : q <= obj.rv
<1> DEFINE W == WritesIn(history, gvk, key)
<1>1. revision \in Nat /\ DOMAIN history \subseteq Nat /\ \A r \in DOMAIN history : r <= revision
  BY HistoryFacts
<1>2. WritesTo(history, gvk, key, revision) = W
  BY <1>1, Zenon DEF WritesTo, WritesIn
<1>3. StateIn(history, gvk, key, revision) = objects[gvk][key]
  BY StateNow, Zenon
<1>4. PICK last \in W : (\A q \in W : q <= last) /\ objects[gvk][key] = Outcome(history[last].event)
  BY <1>1, <1>2, <1>3, StateCases, Zenon
<1>5. last \in DOMAIN history /\ history[last].event.obj.key = key
  BY <1>4, Zenon DEF WritesIn
<1>6. objects[gvk][key] = history[last].event.obj
  BY <1>4, Zenon DEF Outcome
<1>7. history[last].event.obj.rv = last /\ history[last].event.obj \in Object
  BY <1>5, HistoryFacts, Zenon
<1> QED
  BY <1>4, <1>5, <1>6, <1>7, Zenon

(* What was written stays written, and later writes have larger revisions. *)
LEMMA WritesGrow ==
    ASSUME NEW n \in Nat, NEW m \in Nat, n <= m, NEW h, NEW g, DOMAIN h = 1..n, DOMAIN g = 1..m,
           \A i \in 1..n : g[i] = h[i], NEW gvk, NEW key
    PROVE  /\ \A r \in WritesIn(h, gvk, key) : r \in WritesIn(g, gvk, key) /\ g[r] = h[r] /\ r \in 1..n
           /\ \A q \in WritesIn(g, gvk, key) : q \in WritesIn(h, gvk, key) \/ \A r \in 1..n : q >= r
<1>1. \A r \in 1..n : r \in 1..m
  OBVIOUS
<1>2. \A q \in 1..m : q \in 1..n \/ \A r \in 1..n : q >= r
  OBVIOUS
<1> QED
  BY <1>1, <1>2, Zenon DEF WritesIn

(* Other writers take nothing from a call under way.                       *)
LEMMA RequestStays ==
    ASSUME NEW n \in Nat, NEW m \in Nat, n <= m, NEW h, NEW g, DOMAIN h = 1..n, DOMAIN g = 1..m,
           \A i \in 1..n : g[i] = h[i], NEW q, RequestOK(h, q)
    PROVE  RequestOK(g, q)
<1>1. \A gvk, key :
        /\ \A r \in WritesIn(h, gvk, key) : r \in WritesIn(g, gvk, key) /\ g[r] = h[r] /\ r \in 1..n
        /\ \A w \in WritesIn(g, gvk, key) : w \in WritesIn(h, gvk, key) \/ \A r \in 1..n : w >= r
  BY WritesGrow, Zenon
<1>2. PatchOK(h, q) => PatchOK(g, q)
  BY <1>1, Zenon DEF PatchOK
<1>3. \A gvk, obj : Gone(h, gvk, obj) => Gone(g, gvk, obj)
  BY <1>1, Zenon DEF Gone
<1>4. DeleteOK(h, q) => DeleteOK(g, q)
  BY <1>3, Zenon DEF DeleteOK
<1> QED
  BY <1>2, <1>4, Zenon DEF RequestOK

(* Patches name values of their fields.                                    *)
LEMMA PatchesType ==
    ASSUME NEW change \in Patches
    PROVE  change \in PatchType /\ change.rv = 0
<1>1. \A v \in Specs : change = [Nothing EXCEPT !.spec = v] => change \in PatchType /\ change.rv = 0
  BY DEF Nothing, PatchType
<1>2. \A v \in Statuses : change = [Nothing EXCEPT !.status = v] => change \in PatchType /\ change.rv = 0
  BY DEF Nothing, PatchType
<1>3. \A v \in Labels : change = [Nothing EXCEPT !.add = {v}] => change \in PatchType /\ change.rv = 0
  BY DEF Nothing, PatchType
<1>4. \A v \in Labels : change = [Nothing EXCEPT !.remove = {v}] => change \in PatchType /\ change.rv = 0
  BY DEF Nothing, PatchType
<1> QED
  BY <1>1, <1>2, <1>3, <1>4, Zenon DEF Patches

(* A patch applied to an object is an object.                              *)
LEMMA AppliedType ==
    ASSUME NEW patch \in PatchType, NEW obj \in Object
    PROVE  /\ Applied(patch, obj) \in Object /\ Applied(patch, obj).key = obj.key
           /\ Applied(patch, obj).rv = IF patch.rv = 0 THEN obj.rv ELSE patch.rv
           /\ Applied(patch, obj).spec = IF patch.spec = Keep THEN obj.spec ELSE patch.spec
           /\ Applied(patch, obj).status = IF patch.status = Keep THEN obj.status ELSE patch.status
           /\ Applied(patch, obj).labels = (obj.labels \cup patch.add) \ patch.remove
<1> DEFINE spec == IF patch.spec = Keep THEN obj.spec ELSE patch.spec
           status == IF patch.status = Keep THEN obj.status ELSE patch.status
           labels == (obj.labels \cup patch.add) \ patch.remove
           rv == IF patch.rv = 0 THEN obj.rv ELSE patch.rv
<1>1. spec \in Specs /\ status \in Statuses /\ rv \in Nat
  BY Zenon DEF PatchType, Object
<1>2. labels \in SUBSET Labels
  BY Zenon DEF PatchType, Object
<1>3. Applied(patch, obj) = [obj EXCEPT !.spec = spec, !.status = status, !.labels = labels, !.rv = rv]
  BY Zenon DEF Applied, Object
<1> HIDE DEF spec, status, labels, rv
<1>4. LET new == [obj EXCEPT !.spec = spec, !.status = status, !.labels = labels, !.rv = rv]
      IN  /\ new \in Object /\ new.key = obj.key /\ new.rv = rv
          /\ new.spec = spec /\ new.status = status /\ new.labels = labels
  BY <1>1, <1>2, Zenon DEF Object
<1> QED
  BY <1>3, <1>4, Zenon DEF spec, status, labels, rv

(* Decoding keeps everything but what the tags omit, and joins the labels. *)
LEMMA DecodeType ==
    ASSUME NEW src \in Object, NEW dst \in Object
    PROVE  /\ Decode(src, dst) \in Object /\ Decode(src, dst).key = src.key /\ Decode(src, dst).rv = src.rv
           /\ Decode(src, dst).labels = src.labels \cup dst.labels
           /\ ~OmitEmpty => Decode(src, dst).spec = src.spec /\ Decode(src, dst).status = src.status
<1> DEFINE spec == IF Omitted(src.spec) THEN dst.spec ELSE src.spec
           status == IF Omitted(src.status) THEN dst.status ELSE src.status
           labels == src.labels \cup dst.labels
<1>1. spec \in Specs /\ status \in Statuses
  BY Zenon DEF Object
<1>2. labels \in SUBSET Labels
  BY Zenon DEF Object
<1>3. ~OmitEmpty => spec = src.spec /\ status = src.status
  BY Zenon DEF Omitted
<1>4. Decode(src, dst) = [src EXCEPT !.spec = spec, !.status = status, !.labels = labels]
  BY Zenon DEF Decode
<1> HIDE DEF spec, status, labels
<1>5. LET new == [src EXCEPT !.spec = spec, !.status = status, !.labels = labels]
      IN  /\ new \in Object /\ new.key = src.key /\ new.rv = src.rv
          /\ new.spec = spec /\ new.status = status /\ new.labels = labels
  BY <1>1, <1>2, Zenon DEF Object
<1> QED
  BY <1>3, <1>4, <1>5, Zenon DEF labels

(* The document that Patch writes.                                         *)
PatchedFacts(in, stored, obj, patch) ==
    /\ in \in Object /\ in.key = stored.key
    /\ in.rv = IF patch.rv = 0 THEN stored.rv ELSE patch.rv
    /\ in.labels = (((stored.labels \cup obj.labels) \cup patch.add) \ patch.remove) \cup obj.labels
    /\ ~OmitEmpty => in.spec = Applied(patch, stored).spec /\ in.status = Applied(patch, stored).status

(* It is what Patched computes.                                            *)
LEMMA PatchedType ==
    ASSUME NEW stored \in Object, NEW obj \in Object, NEW patch \in PatchType
    PROVE  PatchedFacts(Patched(stored, obj, patch), stored, obj, patch)
<1> DEFINE doc == Decode(stored, obj)
           new == Applied(patch, doc)
<1>1. /\ doc \in Object /\ doc.key = stored.key /\ doc.rv = stored.rv /\ doc.labels = stored.labels \cup obj.labels
      /\ ~OmitEmpty => doc.spec = stored.spec /\ doc.status = stored.status
  BY DecodeType, Zenon
<1>2. Patched(stored, obj, patch) = Decode(new, obj)
  BY Zenon DEF Patched
<1> HIDE DEF doc
<1>3. /\ new \in Object /\ new.key = doc.key /\ new.rv = IF patch.rv = 0 THEN doc.rv ELSE patch.rv
      /\ new.spec = IF patch.spec = Keep THEN doc.spec ELSE patch.spec
      /\ new.status = IF patch.status = Keep THEN doc.status ELSE patch.status
      /\ new.labels = (doc.labels \cup patch.add) \ patch.remove
  BY <1>1, AppliedType, Zenon
<1> HIDE DEF new
<1>4. /\ Applied(patch, stored).spec = IF patch.spec = Keep THEN stored.spec ELSE patch.spec
      /\ Applied(patch, stored).status = IF patch.status = Keep THEN stored.status ELSE patch.status
  BY AppliedType, Zenon
<1>5. /\ Decode(new, obj) \in Object /\ Decode(new, obj).key = new.key /\ Decode(new, obj).rv = new.rv
      /\ Decode(new, obj).labels = new.labels \cup obj.labels
      /\ ~OmitEmpty => Decode(new, obj).spec = new.spec /\ Decode(new, obj).status = new.status
  BY <1>3, DecodeType, Zenon
<1> QED
  BY <1>1, <1>2, <1>3, <1>4, <1>5, Zenon DEF PatchedFacts

(* A patch under way was prepared by Prepare, a DeleteAllOf by List.       *)
LEMMA UnderWay ==
    ASSUME ClientOK, NEW c \in Clients
    PROVE  /\ Patching(c) => request[c] \in PatchRequest /\ PatchOK(history, request[c])
           /\ Deleting(c) => request[c] \in DeleteRequest /\ DeleteOK(history, request[c])
<1>1. \A q \in PatchRequest : q.verb \in {"Update", "UpdateStatus"}
  BY Zenon DEF PatchRequest
<1>2. \A q \in DeleteRequest : q.verb = "Delete"
  BY Zenon DEF DeleteRequest
<1>3. RequestOK(history, request[c])
  BY Zenon DEF ClientOK
<1>4. "Delete" \notin {"Update", "UpdateStatus"}
  BY Zenon
<1> QED
  BY <1>1, <1>2, <1>3, <1>4, Zenon DEF Patching, Deleting, RequestOK

(* Each call of the store that a client makes is a mutation.               *)
LEMMA ClientMutation ==
    ASSUME ClientInv, ClientNext
    PROVE  \/ UNCHANGED vars
           \/ Consume /\ UNCHANGED dataVars
           \/ \E gvk \in Kinds, key \in Keys : \E type, obj, call : Mutation(gvk, key, type, obj, call)
<1>1. TypeOK /\ Keyed /\ ClientOK
  BY Zenon DEF ClientInv, StoreInv
<1>2. CASE Direct
  <2>1. 0 \in 0..revision
    BY <1>1 DEF TypeOK, LogTypeOK
  <2>2. AcceptedWrites => Mutate
    BY <2>1, Zenon DEF AcceptedWrites, Mutate
  <2>3. Mutate
    BY <1>2, <2>2, Zenon DEF Direct
  <2> QED BY <1>1, <2>3, MutateMutates, Zenon
<1>3. ASSUME NEW c \in Clients, PatchWrites(c)
      PROVE  \E gvk \in Kinds, key \in Keys : \E type, obj, call : Mutation(gvk, key, type, obj, call)
  <2>1. request[c] \in PatchRequest /\ PatchOK(history, request[c])
    BY <1>1, <1>3, UnderWay, Zenon DEF PatchWrites
  <2>2. request[c].gvk \in Kinds /\ request[c].in \in Object /\ request[c].in.rv # 0
    BY <2>1, Zenon DEF PatchRequest, PatchOK
  <2>3. request[c].in.key \in Keys
    BY <2>2, Zenon DEF Object
  <2>4. Update(request[c].gvk, request[c].in) \/ UpdateStatus(request[c].gvk, request[c].in)
    BY <1>3, Zenon DEF PatchWrites
  <2> QED BY <1>1, <2>2, <2>3, <2>4, UpdateMutates, UpdateStatusMutates, Zenon
<1>4. ASSUME NEW c \in Clients, DeleteNext(c)
      PROVE  \E gvk \in Kinds, key \in Keys : \E type, obj, call : Mutation(gvk, key, type, obj, call)
  <2>1. request[c] \in DeleteRequest
    BY <1>1, <1>4, UnderWay, Zenon DEF DeleteNext
  <2>2. PICK obj \in request[c].left : Delete(request[c].gvk, obj.key, obj.rv)
    BY <1>4, Zenon DEF DeleteNext
  <2>3. request[c].gvk \in Kinds /\ obj \in Object
    BY <2>1, <2>2, Zenon DEF DeleteRequest
  <2>4. obj.key \in Keys /\ obj.rv \in Nat
    BY <2>3, Zenon DEF Object
  <2> QED BY <1>1, <2>2, <2>3, <2>4, DeleteMutates, Zenon
<1>5. ASSUME NEW c \in Clients,
             Patch(c) \/ StatusPatch(c) \/ PatchRefused(c) \/ DeleteAllOf(c) \/ DeleteRefused(c) \/ DeleteDone(c)
      PROVE  UNCHANGED vars
  BY <1>5, Zenon DEF Patch, StatusPatch, Prepare, PatchRefused, DeleteAllOf, DeleteRefused, DeleteDone
<1>6. CASE Watching
  BY <1>6, Zenon DEF Watching
<1> QED
  BY <1>2, <1>3, <1>4, <1>5, <1>6, Zenon DEF ClientNext, Client

(* Prepare leaves a document that carries the patch and nothing older than *)
(* what it insists on.                                                     *)
LEMMA PrepareStep ==
    ASSUME ClientInv, NEW c \in Clients, NEW verb \in {"Update", "UpdateStatus"}, Prepare(c, verb)
    PROVE  \E q \in PatchRequest : PatchOK(history, q) /\ request' = [request EXCEPT ![c] = q]
<1>1. StoreInv /\ load \in Load
  BY Zenon DEF ClientInv, ClientOK
<1>2. PICK gvk \in load.kinds, key \in load.keys, change \in Patches :
         /\ objects[gvk][key] # NoObject
         /\ \E obj \in Held(gvk, key, change) :
            \E patch \in {change, [change EXCEPT !.rv = obj.rv]} :
                request' = [request EXCEPT ![c] =
                              [verb |-> verb, gvk |-> gvk, patch |-> patch, has |-> obj.labels,
                               in |-> Patched(objects[gvk][key], obj, patch)]]
  BY Zenon DEF Prepare
<1>3. gvk \in Kinds /\ key \in Keys
  BY <1>1, Zenon DEF Load
<1>3a. PICK obj \in Held(gvk, key, change) :
         \E patch \in {change, [change EXCEPT !.rv = obj.rv]} :
             request' = [request EXCEPT ![c] =
                           [verb |-> verb, gvk |-> gvk, patch |-> patch, has |-> obj.labels,
                            in |-> Patched(objects[gvk][key], obj, patch)]]
  BY <1>2, Zenon
<1>4. PICK patch \in {change, [change EXCEPT !.rv = obj.rv]} :
         request' = [request EXCEPT ![c] =
                       [verb |-> verb, gvk |-> gvk, patch |-> patch, has |-> obj.labels,
                        in |-> Patched(objects[gvk][key], obj, patch)]]
  BY <1>3a, Zenon
<1> DEFINE stored == objects[gvk][key]
           W == WritesIn(history, gvk, key)
           in == Patched(stored, obj, patch)
           q == [verb |-> verb, gvk |-> gvk, patch |-> patch, has |-> obj.labels, in |-> in]
<1>5. /\ stored \in Object /\ stored.key = key /\ stored.rv \in W
      /\ history[stored.rv].event.obj = stored /\ \A w \in W : w <= stored.rv
  BY <1>1, <1>2, <1>3, CurrentWrite, Zenon
<1>6. change \in PatchType /\ change.rv = 0
  BY <1>2, PatchesType, Zenon
<1>7. \A r \in Writes(gvk, key) :
         history[r].event.obj \in Object /\ history[r].event.obj.rv = r /\ r \in W /\ r # 0
  <2>1. \A r \in DOMAIN history : history[r].event.obj \in Object /\ history[r].event.obj.rv = r /\ r # 0
    BY <1>1, HistoryFacts, SMTT(20)
  <2> QED BY <2>1, Zenon DEF Writes, WritesIn
<1>8. obj \in Object /\ obj.rv \in W /\ obj.rv # 0
  <2> DEFINE read == {history[r].event.obj : r \in Writes(gvk, key)}
  <2>1. \A o \in read : o \in Object /\ o.rv \in W /\ o.rv # 0
    BY <1>7
  <2>2. obj \in read \cup {Applied(change, o) : o \in read}
    BY <1>3a, Zenon DEF Held
  <2> HIDE DEF read
  <2>3. obj \in read \/ \E o \in read : obj = Applied(change, o)
    BY <2>2, Zenon
  <2>4. \A o \in read : Applied(change, o) \in Object /\ Applied(change, o).rv = o.rv
    BY <1>6, <2>1, AppliedType, Zenon
  <2> QED BY <2>1, <2>3, <2>4, Zenon
<1>9. patch \in PatchType /\ patch.rv \in {0, obj.rv}
  <2>1. obj.rv \in Nat BY <1>8, Zenon DEF Object
  <2> DEFINE insisting == [change EXCEPT !.rv = obj.rv]
  <2>2. insisting \in PatchType /\ insisting.rv = obj.rv
    BY <1>6, <2>1, Zenon DEF PatchType
  <2>3. patch \in {change, insisting} BY <1>4, Zenon
  <2> HIDE DEF insisting
  <2> QED BY <1>6, <2>2, <2>3, Zenon
<1>10. stored.rv \in Nat /\ stored.rv # 0
  <2>1. \A r \in W : r \in Nat /\ r # 0 BY <1>1, HistoryFacts DEF WritesIn
  <2> QED BY <1>5, <2>1, Zenon
<1> HIDE DEF stored, W
<1>11. in \in Object /\ in.key = stored.key /\ in.rv = IF patch.rv = 0 THEN stored.rv ELSE patch.rv
  <2>1. PatchedFacts(in, stored, obj, patch)
    BY <1>5, <1>8, <1>9, PatchedType, Zenon
  <2> HIDE DEF in
  <2> QED BY <2>1, Zenon DEF PatchedFacts
<1> HIDE DEF in
<1>12. in.rv # 0 /\ (patch.rv # 0 => in.rv = patch.rv) /\ (in.rv = stored.rv \/ in.rv = obj.rv)
  BY <1>8, <1>9, <1>10, <1>11, Zenon
<1>13. in.rv <= stored.rv
  <2>1. stored.rv <= stored.rv BY <1>10
  <2> QED BY <1>5, <1>8, <1>12, <2>1, Zenon
<1>14. q \in PatchRequest
  <2>1. obj.labels \in SUBSET Labels BY <1>8, Zenon DEF Object
  <2> QED BY <1>3, <1>9, <1>11, <2>1, Zenon DEF PatchRequest
<1>15. q.gvk = gvk /\ q.patch = patch /\ q.has = obj.labels /\ q.in = in
  BY Zenon
<1>16. request' = [request EXCEPT ![c] = q]
  BY <1>4, Zenon DEF in, stored
<1> HIDE DEF q
<1>17. in = Patched(history[stored.rv].event.obj, obj, patch)
  BY <1>5, Zenon DEF in
<1>18. PatchOK(history, q)
  BY <1>5, <1>8, <1>11, <1>12, <1>13, <1>15, <1>17, ZenonT(30) DEF PatchOK, W
<1> QED
  BY <1>14, <1>16, <1>18, Zenon

(* A delete by DeleteAllOf is the write that follows the version listed.   *)
LEMMA DeleteStep ==
    ASSUME ClientInv, NEW c \in Clients, DeleteNext(c)
    PROVE  \E q \in DeleteRequest : DeleteOK(history', q) /\ request' = [request EXCEPT ![c] = q]
<1>1. StoreInv /\ ClientOK
  BY Zenon DEF ClientInv
<1>2. request[c] \in DeleteRequest /\ DeleteOK(history, request[c])
  BY <1>1, UnderWay, Zenon DEF DeleteNext
<1>3. PICK obj \in request[c].left :
         /\ Delete(request[c].gvk, obj.key, obj.rv)
         /\ request' = [request EXCEPT ![c].left = @ \ {obj}]
  BY Zenon DEF DeleteNext
<1> DEFINE gvk == request[c].gvk
           key == obj.key
           r == revision + 1
           q == [request[c] EXCEPT !.left = request[c].left \ {obj}]
<1>4. gvk \in Kinds /\ obj \in Object /\ request[c].listed \in SUBSET Object /\ request[c].left \in SUBSET Object
  BY <1>2, <1>3, Zenon DEF DeleteRequest
<1>5. key \in Keys /\ obj.rv \in Nat /\ obj.rv # 0
  BY <1>2, <1>3, <1>4, Zenon DEF Object, DeleteOK
<1>6. /\ objects[gvk][key] # NoObject /\ obj.rv = objects[gvk][key].rv
      /\ Commit(gvk, key, NoObject, "DELETED", deletedObj(objects[gvk][key]), Call("Delete", obj.rv, 0, {}))
  BY <1>3, <1>5, Zenon DEF Delete
<1>7. /\ objects[gvk][key] \in Object /\ objects[gvk][key].key = key
      /\ obj.rv \in WritesIn(history, gvk, key) /\ \A w \in WritesIn(history, gvk, key) : w <= obj.rv
  BY <1>1, <1>4, <1>5, <1>6, CurrentWrite, Zenon
<1>8. PICK type, new, call : Mutation(gvk, key, type, new, call)
  <2>1. \E type, new, call : Mutation(gvk, key, type, new, call)
    BY <1>1, <1>3, <1>4, <1>5, DeleteMutates, Zenon DEF StoreInv
  <2> QED BY <2>1, Zenon
<1>9. /\ revision \in Nat /\ DOMAIN history = 1..revision /\ DOMAIN history' = 1..r
      /\ \A i \in 1..revision : history'[i] = history[i]
  BY <1>1, <1>4, <1>5, <1>8, MutationEffect, Zenon
<1> HIDE DEF gvk, key
<1>10. history'[r].gvk = gvk /\ history'[r].event.type = "DELETED" /\ history'[r].event.obj.key = key
  <2> DEFINE gone == deletedObj(objects[gvk][key])
             entry == [revision |-> r, gvk |-> gvk, event |-> [type |-> "DELETED", obj |-> gone]]
  <2>1. history' = Append(history, entry)
    BY <1>6, Zenon DEF Commit, Emit, logEvent
  <2>2. gone.key = key
    BY <1>7, Zenon DEF deletedObj, Object
  <2>3. history \in Seq(eventLogEntry) /\ Len(history) = revision
    BY <1>1, Zenon DEF StoreInv, TypeOK, LogTypeOK, RevisionsDense
  <2>4. entry.gvk = gvk /\ entry.event.type = "DELETED" /\ entry.event.obj.key = key
    BY <2>2, Zenon
  <2> HIDE DEF entry
  <2>5. history'[r] = entry
    BY <2>1, <2>3, SMTT(20)
  <2> QED BY <2>4, <2>5, Zenon
<1>11. \A g, k :
         /\ \A w \in WritesIn(history, g, k) : w \in WritesIn(history', g, k) /\ history'[w] = history[w] /\ w \in 1..revision
         /\ \A w \in WritesIn(history', g, k) : w \in WritesIn(history, g, k) \/ \A i \in 1..revision : w >= i
  <2>1. r \in Nat /\ revision <= r BY <1>9, SMTT(20)
  <2> HIDE DEF r
  <2> QED BY <1>9, <2>1, WritesGrow, ZenonT(30)
<1>12. Gone(history', gvk, obj)
  <2> DEFINE W == WritesIn(history', gvk, key)
  <2>1. r \in W
    <3>1. r \in 1..r BY <1>9
    <3> QED BY <1>9, <1>10, <3>1, Zenon DEF WritesIn
  <2>2. obj.rv \in W /\ obj.rv \in 1..revision
    BY <1>7, <1>11, Zenon
  <2>3. obj.rv < r
    BY <1>9, <2>2, SMTT(20)
  <2>4. \A w \in W : w <= obj.rv \/ w >= r
    <3> TAKE w \in W
    <3>1. w \in 1..r BY <1>9, Zenon DEF WritesIn
    <3>2. CASE w \in 1..revision
      <4>1. w \in WritesIn(history, gvk, key) BY <1>9, <3>2, Zenon DEF WritesIn
      <4> QED BY <1>7, <4>1, Zenon
    <3>3. CASE w \notin 1..revision
      BY <1>9, <3>1, <3>3, SMTT(20)
    <3> QED BY <3>2, <3>3, Zenon
  <2> HIDE DEF r
  <2> QED BY <1>10, <2>1, <2>2, <2>3, <2>4, Zenon DEF Gone, key
<1>13. \A g, o : Gone(history, g, o) => Gone(history', g, o)
  BY <1>11, Zenon DEF Gone
<1>14. q \in DeleteRequest /\ q.gvk = gvk /\ q.listed = request[c].listed /\ q.left = request[c].left \ {obj}
  BY <1>2, <1>4, Zenon DEF DeleteRequest, gvk
<1>15. request' = [request EXCEPT ![c] = q]
  BY <1>3, Zenon
<1> HIDE DEF q
<1>16. DeleteOK(history', q)
  BY <1>2, <1>12, <1>13, <1>14, Zenon DEF DeleteOK, gvk
<1> QED
  BY <1>14, <1>15, <1>16, Zenon

(* DeleteAllOf starts with what the store holds.                           *)
LEMMA ListStep ==
    ASSUME ClientInv, NEW c \in Clients, DeleteAllOf(c)
    PROVE  \E q \in DeleteRequest : DeleteOK(history, q) /\ request' = [request EXCEPT ![c] = q]
<1>1. StoreInv /\ load.kinds \subseteq Kinds
  BY Zenon DEF ClientInv, ClientOK, Load
<1>2. PICK gvk \in Kinds, sel \in SUBSET Labels :
         request' = [request EXCEPT ![c] = [verb |-> "Delete", gvk |-> gvk, listed |-> List(gvk, sel).items,
                                            left |-> List(gvk, sel).items]]
  BY <1>1, Zenon DEF DeleteAllOf
<1> DEFINE items == List(gvk, sel).items
           q == [verb |-> "Delete", gvk |-> gvk, listed |-> items, left |-> items]
<1>3. \A obj \in items : \E key \in Keys : obj = objects[gvk][key] /\ objects[gvk][key] # NoObject
  BY Zenon DEF List
<1>4. \A r : \A key : r \in WritesIn(history, gvk, key) => r # 0
  BY <1>1, HistoryFacts, SMTT(20) DEF WritesIn
<1>5. \A obj \in items : obj \in Object /\ obj.rv # 0
  <2>1. ASSUME NEW key \in Keys, objects[gvk][key] # NoObject
        PROVE  objects[gvk][key] \in Object /\ objects[gvk][key].rv # 0
    <3>1. objects[gvk][key] \in Object /\ objects[gvk][key].rv \in WritesIn(history, gvk, key)
      BY <1>1, <2>1, CurrentWrite, Zenon
    <3> QED BY <1>4, <3>1, Zenon
  <2> HIDE DEF items
  <2> QED BY <1>3, <2>1, Zenon
<1> HIDE DEF items
<1>6. items \in SUBSET Object /\ items \ items = {}
  BY <1>5, Zenon
<1>7. q \in DeleteRequest /\ q.listed = items /\ q.left = items
  BY <1>2, <1>6, Zenon DEF DeleteRequest
<1>8. request' = [request EXCEPT ![c] = q]
  BY <1>2, Zenon DEF items
<1> HIDE DEF q
<1>9. DeleteOK(history, q)
  BY <1>5, <1>6, <1>7, Zenon DEF DeleteOK
<1> QED
  BY <1>7, <1>8, <1>9, Zenon

(* A step of one client or of another writer leaves the store sound, and   *)
(* what every call under way relies on.                                    *)
LEMMA ClientKeeps ==
    ASSUME ClientInv, ClientNext
    PROVE  StoreInv' /\ WriteInv' /\ \A q : RequestOK(history, q) => RequestOK(history', q)
<1>1. StoreInv /\ WriteInv
  BY Zenon DEF ClientInv
<1>2. CASE UNCHANGED vars \/ (Consume /\ UNCHANGED dataVars)
  <2>1. [Next]_vars BY <1>2, Zenon DEF Next
  <2>2. history' = history /\ calls' = calls
    BY <1>2, ConsumeKeepsLog, Zenon DEF vars, logVars, dataVars
  <2>3. WriteInv' BY <1>1, <2>2, WriteInvKept, Zenon
  <2> QED BY <1>1, <2>1, <2>2, <2>3, StoreStep, Zenon
<1>3. ASSUME NEW gvk \in Kinds, NEW key \in Keys, NEW type, NEW obj, NEW call, Mutation(gvk, key, type, obj, call)
      PROVE  StoreInv' /\ WriteInv' /\ \A q : RequestOK(history, q) => RequestOK(history', q)
  <2>1. StoreInv' /\ WriteInv'
    BY <1>1, <1>3, MutationInv, MutationWriteInv, Zenon
  <2>2. /\ revision \in Nat /\ DOMAIN history = 1..revision /\ DOMAIN history' = 1..(revision + 1)
        /\ \A i \in 1..revision : history'[i] = history[i]
    BY <1>1, <1>3, MutationEffect, Zenon
  <2>3. revision + 1 \in Nat /\ revision <= revision + 1
    BY <2>2
  <2> QED BY <2>1, <2>2, <2>3, RequestStays, Zenon
<1> QED
  BY <1>2, <1>3, ClientMutation, Zenon

(* The invariant is inductive.                                             *)
LEMMA ClientStep ==
    ASSUME ClientInv, [ClientNext]_clientVars
    PROVE  ClientInv'
<1> DEFINE AnyRequest == {NoRequest} \cup PatchRequest \cup DeleteRequest
<1>1. StoreInv /\ WriteInv /\ ClientOK
  BY Zenon DEF ClientInv
<1>2. load \in Load /\ request \in [Clients -> AnyRequest] /\ \A c \in Clients : RequestOK(history, request[c])
  BY <1>1, Zenon DEF ClientOK
<1>3. CASE ClientNext
  <2>1. StoreInv' /\ WriteInv' /\ \A q : RequestOK(history, q) => RequestOK(history', q)
    BY <1>3, ClientKeeps, Zenon
  <2>2. load' = load
    BY <1>3, Zenon DEF ClientNext, Direct, Watching, Client, Patch, StatusPatch, Prepare, PatchWrites, PatchRefused,
                       DeleteAllOf, DeleteNext, DeleteRefused, DeleteDone, Answered
  <2>3. \/ request' = request
        \/ \E c \in Clients, q \in AnyRequest :
              RequestOK(history', q) /\ request' = [request EXCEPT ![c] = q]
    <3>1. CASE Direct \/ Watching
      BY <3>1, Zenon DEF Direct, Watching
    <3>2. ASSUME NEW c \in Clients, Patch(c) \/ StatusPatch(c)
          PROVE  \E q \in AnyRequest : RequestOK(history', q) /\ request' = [request EXCEPT ![c] = q]
      <4>1. PICK verb \in {"Update", "UpdateStatus"} : Prepare(c, verb)
        BY <3>2, Zenon DEF Patch, StatusPatch
      <4> QED BY <2>1, <4>1, PrepareStep, Zenon DEF RequestOK
    <3>3. ASSUME NEW c \in Clients, DeleteAllOf(c)
          PROVE  \E q \in AnyRequest : RequestOK(history', q) /\ request' = [request EXCEPT ![c] = q]
      BY <2>1, <3>3, ListStep, Zenon DEF RequestOK
    <3>4. ASSUME NEW c \in Clients, DeleteNext(c)
          PROVE  \E q \in AnyRequest : RequestOK(history', q) /\ request' = [request EXCEPT ![c] = q]
      BY <3>4, DeleteStep, Zenon DEF RequestOK
    <3>5. ASSUME NEW c \in Clients, PatchWrites(c) \/ PatchRefused(c) \/ DeleteRefused(c) \/ DeleteDone(c)
          PROVE  \E q \in AnyRequest : RequestOK(history', q) /\ request' = [request EXCEPT ![c] = q]
      <4>1. request' = [request EXCEPT ![c] = NoRequest]
        BY <3>5, Zenon DEF PatchWrites, PatchRefused, DeleteRefused, DeleteDone, Answered
      <4> QED BY <4>1, Zenon DEF RequestOK
    <3> HIDE DEF AnyRequest
    <3> QED BY <1>3, <3>1, <3>2, <3>3, <3>4, <3>5, Zenon DEF ClientNext, Client
  <2> HIDE DEF AnyRequest
  <2>4. request' \in [Clients -> AnyRequest] /\ \A c \in Clients : RequestOK(history', request'[c])
    BY <1>2, <2>1, <2>3, Zenon
  <2> QED BY <1>2, <2>1, <2>2, <2>4, Zenon DEF ClientInv, ClientOK, AnyRequest
<1>4. CASE UNCHANGED clientVars
  <2>1. UNCHANGED <<vars, load, request, history, calls>>
    BY <1>4, Zenon DEF clientVars, vars, logVars, dataVars
  <2>2. StoreInv' BY <1>1, <2>1, StoreStep, Zenon
  <2>3. WriteInv' BY <1>1, <2>1, WriteInvKept, Zenon
  <2> QED BY <1>1, <2>1, <2>2, <2>3, Zenon DEF ClientInv, ClientOK
<1> QED
  BY <1>3, <1>4, Zenon

(* It holds in every reachable state.                                      *)
THEOREM ClientInvariant == ClientSpec => []ClientInv
<1>1. ClientInit => ClientInv
  <2> SUFFICES ASSUME ClientInit PROVE ClientInv
    BY Zenon
  <2>1. StoreInv /\ WriteInv
    BY NewStoreInv, NewStoreWriteInv, Zenon DEF ClientInit
  <2>2. load \in Load
    BY LoadsAssumption, Zenon DEF ClientInit
  <2>3. request \in [Clients -> {NoRequest} \cup PatchRequest \cup DeleteRequest]
    BY Zenon DEF ClientInit
  <2>4. \A c \in Clients : RequestOK(history, request[c])
    BY Zenon DEF ClientInit, RequestOK
  <2> QED BY <2>1, <2>2, <2>3, <2>4, Zenon DEF ClientInv, ClientOK
<1>2. ClientInv /\ [ClientNext]_clientVars => ClientInv'
  BY ClientStep, Zenon
<1> QED
  BY <1>1, <1>2, PTL DEF ClientSpec

(* The store loses no update under Patch and DeleteAllOf either: what they *)
(* write was checked against the version it replaces, no no-op of theirs   *)
(* takes a revision, the history still explains the contents, and for      *)
(* types whose JSON tags omit no zero value spec, status and generation    *)
(* keep to their own write paths.                                          *)
THEOREM ClientsLoseNoUpdate ==
    ClientSpec => [](/\ NoLostUpdate /\ NoopSuppressed /\ StoreIsHistory
                     /\ ~OmitEmpty => GenerationTracksSpec /\ SplitWrites)
<1>1. ClientInv => /\ NoLostUpdate /\ NoopSuppressed /\ StoreIsHistory
                   /\ ~OmitEmpty => GenerationTracksSpec /\ SplitWrites
  BY Zenon DEF ClientInv, StoreInv, WriteInv
<1> QED
  BY <1>1, ClientInvariant, PTL

(* DeleteAllOf deletes only versions it listed: whatever is written        *)
(* between its list and its deletes, each delete that succeeds is the next *)
(* write after the version listed.                                         *)
THEOREM DeletesOnlyListed == ClientSpec => []DeletesWhatItListed
<1>1. ClientInv => DeletesWhatItListed
  <2> SUFFICES ASSUME ClientInv, NEW c \in Clients, Deleting(c),
                      NEW obj \in request[c].listed \ request[c].left
               PROVE  \E r \in Writes(request[c].gvk, obj.key) :
                         Consecutive(obj.rv, r) /\ history[r].event.type = "DELETED"
    BY Zenon DEF DeletesWhatItListed
  <2> DEFINE gvk == request[c].gvk
             W == WritesIn(history, gvk, obj.key)
  <2>1. Gone(history, gvk, obj)
    BY UnderWay, Zenon DEF ClientInv, DeleteOK
  <2>2. PICK r \in W : /\ history[r].event.type = "DELETED"
                       /\ obj.rv < r /\ obj.rv \in W /\ \A q \in W : q <= obj.rv \/ q >= r
    BY <2>1, Zenon DEF Gone
  <2>3. Writes(gvk, obj.key) = W /\ history[r].gvk = gvk /\ history[r].event.obj.key = obj.key
    BY <2>2, Zenon DEF Writes, WritesIn
  <2> HIDE DEF gvk, W
  <2>4. Consecutive(obj.rv, r)
    BY <2>2, <2>3, Zenon DEF Consecutive
  <2> QED BY <2>2, <2>3, <2>4, Zenon DEF gvk
<1> QED
  BY <1>1, ClientInvariant, PTL

(* A patch that ends with a write ends with PatchWrites.                   *)
LEMMA PatchEnds ==
    ASSUME ClientInv, ClientNext, NEW c \in Clients, Patching(c), request'[c] = NoRequest, revision' # revision
    PROVE  PatchWrites(c)
<1>1. request \in [Clients -> {NoRequest} \cup PatchRequest \cup DeleteRequest]
  BY Zenon DEF ClientInv, ClientOK
<1>2. request[c] # NoRequest /\ ~Deleting(c)
  <2>1. "Delete" \notin {"Update", "UpdateStatus"} BY Zenon
  <2> QED BY <2>1, Zenon DEF Patching, Deleting
<1>3. ~Direct /\ ~Watching
  BY <1>2, Zenon DEF Direct, Watching
<1>4. PICK d \in Clients : Client(d)
  BY <1>3, Zenon DEF ClientNext
<1>5. \E q : request' = [request EXCEPT ![d] = q]
  <2>1. CASE Patch(d) \/ StatusPatch(d)
    BY <2>1, Zenon DEF Patch, StatusPatch, Prepare
  <2>2. CASE DeleteAllOf(d)
    BY <2>2, Zenon DEF DeleteAllOf
  <2>3. CASE DeleteNext(d)
    BY <2>3, Zenon DEF DeleteNext
  <2>4. CASE PatchWrites(d) \/ PatchRefused(d) \/ DeleteRefused(d) \/ DeleteDone(d)
    BY <2>4, Zenon DEF PatchWrites, PatchRefused, DeleteRefused, DeleteDone, Answered
  <2> QED BY <1>4, <2>1, <2>2, <2>3, <2>4, Zenon DEF Client
<1>6. d = c
  BY <1>1, <1>2, <1>5, Zenon
<1>7. UNCHANGED vars => revision' = revision
  BY Zenon DEF vars, logVars
<1>8. ~Patch(c) /\ ~StatusPatch(c) /\ ~PatchRefused(c) /\ ~DeleteAllOf(c) /\ ~DeleteNext(c) /\ ~DeleteRefused(c) /\ ~DeleteDone(c)
  BY <1>2, <1>7, Zenon DEF Patch, StatusPatch, Prepare, PatchRefused, DeleteAllOf, DeleteNext, DeleteRefused, DeleteDone
<1> QED
  BY <1>4, <1>6, <1>8, Zenon DEF Client

(* The version a patch that is accepted was computed from is the version   *)
(* it replaces, also when it insists on one of its own.                    *)
LEMMA PatchReadsCurrent ==
    ASSUME ClientInv, NEW c \in Clients, PatchWrites(c)
    PROVE  LET q == request[c]
               before == objects[q.gvk][q.in.key]
           IN  /\ before \in Object /\ before.rv = q.in.rv
               /\ \E obj \in Object : q.has = obj.labels /\ q.in = Patched(before, obj, q.patch)
<1>1. StoreInv /\ ClientOK
  BY Zenon DEF ClientInv
<1>2. request[c] \in PatchRequest /\ PatchOK(history, request[c])
  BY <1>1, UnderWay, Zenon DEF PatchWrites
<1> DEFINE gvk == request[c].gvk
           in == request[c].in
           before == objects[gvk][in.key]
           W == WritesIn(history, gvk, in.key)
<1>3. gvk \in Kinds /\ in \in Object
  BY <1>2, Zenon DEF PatchRequest
<1>4. in.key \in Keys /\ in.rv \in Nat
  BY <1>3, Zenon DEF Object
<1>5. before # NoObject /\ before.rv = in.rv
  BY Zenon DEF PatchWrites, Update, UpdateStatus, Conflict
<1>6. PICK r \in W :
         /\ in.rv <= r
         /\ \E obj \in Object :
               request[c].has = obj.labels /\ in = Patched(history[r].event.obj, obj, request[c].patch)
  BY <1>2, Zenon DEF PatchOK
<1>7. /\ before \in Object /\ history[before.rv].event.obj = before
      /\ \A w \in W : w <= before.rv
  BY <1>1, <1>3, <1>4, <1>5, CurrentWrite, Zenon
<1>8. r \in Nat
  BY <1>1, HistoryFacts DEF WritesIn
<1>9. r = before.rv
  <2>1. r <= in.rv /\ in.rv <= r BY <1>5, <1>6, <1>7, Zenon
  <2>2. r = in.rv BY <1>4, <1>8, <2>1, SMTT(20)
  <2> QED BY <1>5, <2>2, Zenon
<1> QED
  BY <1>5, <1>6, <1>7, <1>9, Zenon
(* The write then changes what the patch names.                            *)
LEMMA PatchWritesOutcome ==
    ASSUME ~OmitEmpty, ClientInv, NEW c \in Clients, PatchWrites(c)
    PROVE  PatchOutcome(c)
<1> DEFINE gvk == request[c].gvk
           in == request[c].in
           patch == request[c].patch
           before == objects[gvk][in.key]
           after == objects'[gvk][in.key]
           due == (before.labels \cup patch.add) \ patch.remove
<1>1. before \in Object /\ before.rv = in.rv
  BY PatchReadsCurrent, Zenon
<1>2. PICK obj \in Object : request[c].has = obj.labels /\ in = Patched(before, obj, patch)
  BY PatchReadsCurrent, Zenon
<1>3. request[c] \in PatchRequest /\ PatchOK(history, request[c])
  BY UnderWay, Zenon DEF PatchWrites, ClientInv
<1>4. gvk \in Kinds /\ patch \in PatchType /\ in \in Object
  BY <1>3, Zenon DEF PatchRequest
<1>5. in.key \in Keys /\ revision \in Nat
  BY <1>4, Zenon DEF Object, ClientInv, StoreInv, TypeOK, LogTypeOK
<1>6. patch.rv # 0 => before.rv = patch.rv
  BY <1>1, <1>3, Zenon DEF PatchOK
<1>7. /\ in.spec = Applied(patch, before).spec /\ in.status = Applied(patch, before).status
      /\ in.labels = (((before.labels \cup obj.labels) \cup patch.add) \ patch.remove) \cup obj.labels
  <2> HIDE DEF in, before, patch
  <2>1. PatchedFacts(Patched(before, obj, patch), before, obj, patch)
    BY <1>1, <1>2, <1>4, PatchedType, Zenon
  <2>2. PatchedFacts(in, before, obj, patch)
    BY <1>2, <2>1, Zenon
  <2> QED BY <2>2, Zenon DEF PatchedFacts
<1>8. objects \in [Kinds -> [Keys -> Object \cup {NoObject}]]
  BY Zenon DEF ClientInv, StoreInv, TypeOK
<1>9. \A new : objects' = [objects EXCEPT ![gvk][in.key] = new] => after = new
  <2> DEFINE key == in.key
  <2>1. key \in Keys /\ gvk \in Kinds BY <1>4, <1>5, Zenon
  <2> HIDE DEF key, gvk
  <2>2. \A new : objects' = [objects EXCEPT ![gvk][key] = new] => objects'[gvk][key] = new
    BY <1>8, <2>1, Zenon
  <2> QED BY <2>2, Zenon DEF key
<1>10. revision + 1 \in Nat
  BY <1>5
<1>11. CASE request[c].verb = "Update"
  <2> DEFINE merged == UpdateMerged(before, in)
             generation == nextGeneration(before, in)
             new == [merged EXCEPT !.generation = generation, !.rv = revision + 1]
  <2>1. objects' = [objects EXCEPT ![gvk][in.key] = new]
    BY <1>11, Zenon DEF PatchWrites, Update, Commit
  <2>2. merged \in Object /\ merged.spec = in.spec /\ merged.status = before.status /\ merged.labels = in.labels
    <3> DEFINE src == [in EXCEPT !.status = before.status]
    <3>1. /\ src \in Object /\ src.spec = in.spec /\ src.status = before.status /\ src.labels = in.labels
      BY <1>1, <1>4, Zenon DEF Object
    <3>2. merged = [Decode(src, in) EXCEPT !.rv = before.rv, !.uid = before.uid]
      BY Zenon DEF UpdateMerged
    <3> HIDE DEF src
    <3> DEFINE dec == Decode(src, in)
    <3>3. /\ dec \in Object /\ dec.labels = src.labels \cup in.labels
          /\ dec.spec = src.spec /\ dec.status = src.status
      BY <1>4, <3>1, DecodeType, Zenon
    <3>4. src.labels \cup in.labels = in.labels
      BY <3>1, Zenon
    <3> HIDE DEF dec
    <3>5. LET m == [dec EXCEPT !.rv = before.rv, !.uid = before.uid]
          IN  m \in Object /\ m.spec = dec.spec /\ m.status = dec.status /\ m.labels = dec.labels
      BY <1>1, <3>3, Zenon DEF Object
    <3> QED BY <3>1, <3>2, <3>3, <3>4, <3>5, Zenon DEF dec
  <2> HIDE DEF merged, generation
  <2>3. new.spec = merged.spec /\ new.status = merged.status /\ new.labels = merged.labels
    BY <2>2, Zenon DEF Object
  <2> HIDE DEF new
  <2>4. after = new
    BY <1>9, <2>1, Zenon
  <2>5. after.spec = in.spec /\ after.status = before.status /\ after.labels = in.labels
    BY <2>2, <2>3, <2>4, Zenon
  <2> HIDE DEF after, before, in, patch
  <2>6. due \subseteq in.labels /\ in.labels \subseteq due \cup obj.labels
    BY <1>7, Zenon
  <2> QED BY <1>2, <1>6, <1>7, <1>11, <2>5, <2>6, Zenon DEF PatchOutcome, gvk, after, before, in, patch
<1>12. CASE request[c].verb # "Update"
  <2> DEFINE merged == UpdateStatusMerged(before, in)
             new == [merged EXCEPT !.rv = revision + 1]
  <2>1. objects' = [objects EXCEPT ![gvk][in.key] = new]
    BY <1>12, Zenon DEF PatchWrites, UpdateStatus, Commit
  <2>2. /\ merged \in Object /\ merged.spec = before.spec /\ merged.status = in.status
        /\ merged.labels = before.labels \cup in.labels
    <3> DEFINE src == [before EXCEPT !.status = in.status]
    <3>1. /\ src \in Object /\ src.spec = before.spec /\ src.status = in.status /\ src.labels = before.labels
      BY <1>1, <1>4, Zenon DEF Object
    <3>2. merged = [Decode(src, in) EXCEPT !.rv = before.rv, !.uid = before.uid, !.generation = before.generation]
      BY Zenon DEF UpdateStatusMerged
    <3> HIDE DEF src
    <3> DEFINE dec == Decode(src, in)
    <3>3. /\ dec \in Object /\ dec.labels = src.labels \cup in.labels
          /\ dec.spec = src.spec /\ dec.status = src.status
      BY <1>4, <3>1, DecodeType, Zenon
    <3> HIDE DEF dec
    <3>4. LET m == [dec EXCEPT !.rv = before.rv, !.uid = before.uid, !.generation = before.generation]
          IN  m \in Object /\ m.spec = dec.spec /\ m.status = dec.status /\ m.labels = dec.labels
      BY <1>1, <3>3, Zenon DEF Object
    <3> QED BY <3>1, <3>2, <3>3, <3>4, Zenon DEF dec
  <2> HIDE DEF merged
  <2>3. new.spec = merged.spec /\ new.status = merged.status /\ new.labels = merged.labels
    BY <2>2, Zenon DEF Object
  <2> HIDE DEF new
  <2>4. after = new
    BY <1>9, <2>1, Zenon
  <2>5. after.spec = before.spec /\ after.status = in.status /\ after.labels = before.labels \cup in.labels
    BY <2>2, <2>3, <2>4, Zenon
  <2> HIDE DEF after, before, in, patch
  <2>6. before.labels \cup in.labels \subseteq before.labels \cup patch.add \cup obj.labels
    BY <1>7, Zenon
  <2> QED BY <1>2, <1>6, <1>7, <1>12, <2>5, <2>6, Zenon DEF PatchOutcome, gvk, after, before, in, patch
<1> QED
  BY <1>11, <1>12, Zenon

(* For types whose JSON tags omit no zero value, a patch that is accepted  *)
(* is as good as atomic: it changes the object it replaces by what the     *)
(* patch names and by nothing else, but for label keys of the caller's own *)
(* object, whatever was written since the patch read it.                   *)
THEOREM PatchIsAtomic ==
    ASSUME ~OmitEmpty
    PROVE  ClientSpec => PatchAppliesDiff
<1>1. ClientInv /\ [ClientNext]_clientVars =>
        [\A c \in Clients :
            Patching(c) /\ request'[c] = NoRequest /\ revision' # revision => PatchOutcome(c)]_clientVars
  BY PatchEnds, PatchWritesOutcome, Zenon
<1> QED
  BY <1>1, ClientInvariant, PTL DEF ClientSpec, PatchAppliesDiff
=============================================================================
