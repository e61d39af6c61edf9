------------------------- MODULE WatchAdapterProofs -------------------------
(***************************************************************************)
(* Theorems about the watch adapters of listerwatcher.go, for every value  *)
(* of the constants: any selector, any number of keys, any log and channel *)
(* sizes, any number of stops.  AdapterRelayProofs has the invariant and   *)
(* the steps that fill the pipe; here the consumer empties it.             *)
(***************************************************************************)
EXTENDS AdapterRelayProofs

(* The consumer takes an event: an item, the bookmark, or the next event   *)
(* after its position.                                                     *)
LEMMA ReflectorRecvStep ==
    ASSUME AdapterInv, ReflectorRecv
    PROVE  AdapterOK'
<1> DEFINE event == Head(out)
           cur == watch[Watcher].cursor
<1>1. /\ reflector = "following" /\ reflector' = "following" /\ out # <<>> /\ out' = Tail(out)
      /\ position' = IF synced \/ event.type = "BOOKMARK" THEN event.rv ELSE position
      /\ synced' = (synced \/ event.type = "BOOKMARK")
      /\ view' = IF event.type = "BOOKMARK" THEN view
                 ELSE [view EXCEPT ![event.obj.key] =
                         IF event.type = "DELETED" THEN NoObject ELSE event.obj]
  BY Zenon DEF ReflectorRecv
<1>2. UNCHANGED <<revision, history, watch, selector, relayPC, initial, inHand, stopCh>>
  BY Zenon DEF ReflectorRecv, vars, logVars, watchVars
<1>3. PICK b \in 0..(Len(Pipe) + 1) : Following(b)
  BY <1>1, Zenon DEF AdapterInv, AdapterOK
<1>4. b \in Nat
  OBVIOUS
<1>5. /\ ~stopCh /\ out \in Seq(adapterEvent) /\ inHand \in Seq(adapterEvent)
      /\ IF relayPC = "send" THEN Len(inHand) = 1 ELSE inHand = <<>>
      /\ Subscribed(watch[Watcher], selector, Base)
      /\ Piped(history, selector, Base, Pipe, b, cur)
      /\ IF synced THEN b = 0 /\ relayPC # "items"
         ELSE /\ initial.rv \in 0..revision
              /\ Preloads(history, selector, initial, view, Pipe, b, relayPC)
  BY <1>3, Zenon DEF Following
<1>6. /\ out' \in Seq(adapterEvent) /\ Pipe \in Seq(adapterEvent) /\ Pipe # <<>>
      /\ event = Pipe[1] /\ Pipe' = Tail(Pipe)
  <2>1. Pipe = out \o inHand /\ Pipe' = out' \o inHand'
    BY Zenon DEF Pipe
  <2>2. /\ Tail(out) \in Seq(adapterEvent) /\ out \o inHand \in Seq(adapterEvent)
        /\ out \o inHand # <<>> /\ Head(out) = (out \o inHand)[1]
        /\ Tail(out) \o inHand = Tail(out \o inHand)
    <3>1. out \in Seq(adapterEvent) /\ inHand \in Seq(adapterEvent) /\ out # <<>>
      BY <1>1, <1>5, Zenon
    <3> QED
      BY <3>1, PipeTail, SMTT(20)
  <2> QED
    BY <1>1, <1>2, <2>1, <2>2, Zenon
<1>7. Len(Pipe) \in Nat /\ 1 \in DOMAIN Pipe /\ Len(Pipe') = Len(Pipe) - 1 /\ Len(Pipe) # 0
  BY <1>6, SeqParts
<1>8. cur \in Nat /\ Base \in Nat /\ cur <= revision
  BY AdapterFacts, Zenon DEF WatchOK, WatcherOK
<1> HIDE DEF cur, event
<1>9. CASE synced
  <2>1. b = 0 /\ Base = position /\ relayPC # "items"
    BY <1>5, <1>9, Zenon DEF Base
  <2>2. /\ event.rv \in Nat /\ event.rv > position /\ event.rv <= cur
        /\ Piped(history, selector, event.rv, Pipe', 0, cur)
    BY <1>5, <1>6, <1>8, <2>1, AdapterFacts, PipedNext, Zenon
  <2>3. PICK i \in DueIn(history, position) :
          /\ event = watchEvent(history[i].event.type, history[i].event.obj, i)
          /\ Matches(selector, history[i].event.obj)
          /\ \A j \in DueIn(history, position) : j < i => ~Matches(selector, history[j].event.obj)
    BY <1>5, <1>6, <1>8, <2>1, AdapterFacts, PipedNext, Zenon
  <2>4. /\ event.type = history[i].event.type /\ event.obj = history[i].event.obj /\ event.rv = i
        /\ i \in DOMAIN history /\ i \in 0..revision /\ history[i].event \in Event
        /\ event.obj \in Object /\ event.obj.key \in Keys /\ event.type # "BOOKMARK"
    BY <2>3, AdapterFacts, HistoryFacts DEF watchEvent, DueIn, Event, Object
  <2>5. /\ synced' = TRUE /\ position' = i
        /\ view' = [view EXCEPT ![history[i].event.obj.key] = Outcome(history[i].event)]
    BY <1>1, <1>9, <2>4, Zenon DEF Outcome
  <2>6. ShowsIn(view', selector, history, i)
    <3>1. ShowsIn(view, selector, history, position)
      BY <1>9, Zenon DEF AdapterInv, AdapterOK
    <3> QED
      BY <2>3, <2>5, <3>1, AdapterFacts, ShowsNext, Zenon
  <2>7. view' \in viewMap
    BY <2>4, <2>5, AdapterFacts, Zenon DEF viewMap, Outcome
  <2>8. Base' = event.rv
    BY <2>4, <2>5, Zenon DEF Base
  <2>9. Following(0)'
    BY <1>2, <1>5, <1>6, <2>1, <2>2, <2>5, <2>8, Zenon DEF Following, Subscribed, cur
  <2>10. 0 \in 0..(Len(Pipe') + 1)
    BY <1>7
  <2>11. \E x \in 0..(Len(Pipe') + 1) : Following(x)'
    BY <2>9, <2>10, Zenon
  <2> QED
    BY <1>1, <1>2, <2>4, <2>5, <2>6, <2>7, <2>11, AdapterFacts, Zenon DEF AdapterOK
<1>10. CASE ~synced /\ b # 1
  <2>1. b # 0 /\ Base = initial.rv
    BY <1>3, <1>4, <1>10, FollowingFacts, Zenon DEF Base
  <2>2. /\ event.type = "ADDED" /\ event.obj.key \in Keys /\ event.obj \in Object
        /\ Preloads(history, selector, initial, [view EXCEPT ![event.obj.key] = event.obj], Pipe', b - 1, relayPC)
    BY <1>4, <1>5, <1>6, <1>10, AdapterFacts, PreloadTake, Zenon
  <2>3. /\ ~synced' /\ position' = position
        /\ view' = [view EXCEPT ![event.obj.key] = event.obj]
    <3>1. ~(event.type = "BOOKMARK") /\ ~(event.type = "DELETED") /\ ~synced
      BY <1>10, <2>2, Zenon
    <3> QED
      BY <1>1, <3>1, Zenon
  <2>4. view' \in viewMap
    BY <2>2, <2>3, AdapterFacts, Zenon DEF viewMap
  <2>5. Piped(history, selector, Base, Pipe', b - 1, cur)
    BY <1>4, <1>5, <1>6, <2>1, PipedTail, Zenon
  <2>6. Base' = Base
    BY <1>2, <1>10, <2>3, Zenon DEF Base
  <2>7. Following(b - 1)'
    BY <1>2, <1>5, <1>6, <1>10, <2>2, <2>3, <2>5, <2>6, Zenon DEF Following, cur
  <2>8. b - 1 \in 0..(Len(Pipe') + 1)
    BY <1>4, <1>7, <2>1
  <2>9. \E x \in 0..(Len(Pipe') + 1) : Following(x)'
    BY <2>7, <2>8, Zenon
  <2> QED
    BY <1>1, <1>2, <1>10, <2>3, <2>4, <2>9, AdapterFacts, Zenon DEF AdapterOK
<1>11. CASE ~synced /\ b = 1
  <2>1. /\ event.type = "BOOKMARK" /\ event.rv = initial.rv /\ relayPC # "items"
        /\ ShowsIn(view, selector, history, initial.rv)
    BY <1>5, <1>6, <1>11, PreloadDone, SMTT(20)
  <2>2. synced' = TRUE /\ position' = initial.rv /\ view' = view
    BY <1>1, <2>1, Zenon
  <2>3. Base' = Base
    BY <1>2, <1>11, <2>2, Zenon DEF Base
  <2>4. Piped(history, selector, Base, Pipe', 0, cur)
    <3>1. b \in Nat \ {0} /\ b - 1 = 0
      BY <1>11
    <3> QED
      BY <1>5, <1>6, <3>1, PipedTail, Zenon
  <2>5. Following(0)'
    BY <1>2, <1>5, <1>6, <2>1, <2>2, <2>3, <2>4, Zenon DEF Following, cur
  <2>6. 0 \in 0..(Len(Pipe') + 1)
    BY <1>7
  <2>7. \E x \in 0..(Len(Pipe') + 1) : Following(x)'
    BY <2>5, <2>6, Zenon
  <2> QED
    BY <1>1, <1>2, <1>5, <1>11, <2>1, <2>2, <2>7, AdapterFacts, Zenon DEF AdapterOK
<1> QED
  BY <1>9, <1>10, <1>11, Zenon

(* A list shows the store as it is.                                        *)
LEMMA ListStep ==
    ASSUME AdapterInv, ListWithContext
    PROVE  AdapterOK'
<1> DEFINE items == List(AdapterKind, selector).items
<1>1. /\ reflector = "idle" /\ reflector' = reflector /\ synced' = TRUE
      /\ position' = List(AdapterKind, selector).rv
      /\ view' = [key \in Keys |-> IF \E obj \in items : obj.key = key
                                   THEN CHOOSE obj \in items : obj.key = key ELSE NoObject]
      /\ UNCHANGED <<revision, history, selector, initial>>
  BY Zenon DEF ListWithContext, vars, logVars, adapterVars
<1>2. position' = revision /\ items = ItemsAt(history, selector, revision) /\ revision \in 0..revision
  BY <1>1, AdapterFacts, ListShows
<1> HIDE DEF items
<1>3. \A obj \in items : /\ obj \in Object /\ obj = At(history, obj.key, revision)
                         /\ Selected(selector, obj)
  BY <1>2, AdapterFacts, ItemFacts, Zenon
<1>4. ASSUME NEW key \in Keys
      PROVE  view'[key] = IF Selected(selector, At(history, key, revision))
                          THEN At(history, key, revision) ELSE NoObject
  <2> DEFINE st == At(history, key, revision)
  <2>1. view'[key] = IF \E obj \in items : obj.key = key
                     THEN CHOOSE obj \in items : obj.key = key ELSE NoObject
    BY <1>1, Zenon
  <2>2. CASE Selected(selector, st)
    <3>1. st \in items
      BY <1>2, <2>2, Zenon DEF ItemsAt
    <3>2. st.key = key
      BY <1>2, <2>2, AdapterFacts, AtFacts, Zenon DEF Selected
    <3>3. \A obj \in items : obj.key = key => obj = st
      BY <1>3, Zenon
    <3> HIDE DEF st
    <3>4. (CHOOSE obj \in items : obj.key = key) = st
      BY <3>1, <3>2, <3>3, Zenon
    <3> QED
      BY <2>1, <2>2, <3>1, <3>2, <3>4, Zenon DEF st
  <2>3. CASE ~Selected(selector, st)
    <3>1. ~\E obj \in items : obj.key = key
      BY <1>3, <2>3, Zenon
    <3> QED
      BY <2>1, <2>3, <3>1, Zenon
  <2> QED
    BY <2>2, <2>3, Zenon
<1>5. view' \in viewMap
  <2>1. \A key \in Keys : Selected(selector, At(history, key, revision)) => At(history, key, revision) \in Object
    BY <1>2, AdapterFacts, AtFacts, Zenon DEF Selected
  <2>2. \A key \in Keys : view'[key] \in Object \cup {NoObject}
    BY <1>4, <2>1, Zenon
  <2> QED
    BY <1>1, <2>2, Zenon DEF viewMap
<1>6. ShowsIn(view', selector, history, revision)
  BY <1>4, Zenon DEF ShowsIn
<1> QED
  BY <1>1, <1>2, <1>5, <1>6, AdapterFacts, Zenon DEF AdapterOK

(* The consumer's other steps.                                             *)
LEMMA OpenStep ==
    ASSUME AdapterInv, NEW from \in 0..revision, WatchFrom(Watcher, AdapterKind, from, selector)
    PROVE  /\ Subscribed(watch'[Watcher], selector, from) /\ watch'[Watcher].cursor = from
           /\ UNCHANGED <<revision, history>>
<1>1. /\ watch' = [watch EXCEPT ![Watcher] = watch'[Watcher]]
      /\ watch'[Watcher].stage = "open" /\ watch'[Watcher].gvk = AdapterKind
      /\ watch'[Watcher].sel = selector /\ watch'[Watcher].cursor = from
  BY AdapterFacts, Zenon DEF WatchFrom, openWatch
<1>2. from <= from
  BY AdapterFacts
<1> QED
  BY <1>1, <1>2, Zenon DEF Subscribed, WatchFrom, openWatch, logVars

LEMMA WatchStepsFollow ==
    ASSUME AdapterInv, WatchWithContext \/ WatchInitialEvents
    PROVE  AdapterOK'
<1>1. /\ inHand' = <<>> /\ out' = <<>> /\ ~stopCh' /\ reflector' = "following"
      /\ UNCHANGED <<selector, initial, position, synced>>
  BY Zenon DEF WatchWithContext, WatchInitialEvents, NewAdapter
<1>2. /\ <<>> \in Seq(adapterEvent) /\ <<>> \o <<>> = <<>> /\ Len(<<>>) = 0
  BY PipeParts
<1>3. Pipe' = <<>>
  BY <1>1, <1>2, Zenon DEF Pipe
<1>4. CASE WatchWithContext
  <2>1. /\ reflector = "idle" /\ synced /\ relayPC' = "select" /\ view' = view
        /\ WatchFrom(Watcher, AdapterKind, position, selector)
    BY <1>4, Zenon DEF WatchWithContext, NewAdapter
  <2>2. /\ Subscribed(watch'[Watcher], selector, position) /\ watch'[Watcher].cursor = position
        /\ UNCHANGED <<revision, history>>
    BY <2>1, AdapterFacts, OpenStep, Zenon
  <2>3. Base' = position
    BY <1>1, <2>1, Zenon DEF Base
  <2>4. Piped(history, selector, position, <<>>, 0, position)
    BY AdapterFacts, PipedEmpty
  <2>5. Following(0)'
    BY <1>1, <1>2, <1>3, <2>1, <2>2, <2>3, <2>4, Zenon DEF Following
  <2>6. 0 \in 0..(Len(Pipe') + 1)
    BY <1>2, <1>3
  <2>7. \E x \in 0..(Len(Pipe') + 1) : Following(x)'
    BY <2>5, <2>6, Zenon
  <2> QED
    BY <1>1, <2>1, <2>2, <2>7, AdapterFacts, Zenon DEF AdapterInv, AdapterOK
<1>5. CASE WatchInitialEvents
  <2>1. /\ reflector = "listed" /\ relayPC' = "items" /\ view' = NothingKnown
        /\ WatchFrom(Watcher, AdapterKind, initial.rv, selector)
    BY <1>5, Zenon DEF WatchInitialEvents, NewAdapter
  <2>2. /\ ~synced /\ initial.rv \in 0..revision
        /\ initial.items = ItemsAt(history, selector, initial.rv)
    BY <2>1, Zenon DEF AdapterInv, AdapterOK
  <2>3. /\ Subscribed(watch'[Watcher], selector, initial.rv) /\ watch'[Watcher].cursor = initial.rv
        /\ UNCHANGED <<revision, history>>
    BY <2>1, <2>2, AdapterFacts, OpenStep, Zenon
  <2>4. Base' = initial.rv
    BY <1>1, <2>2, Zenon DEF Base
  <2>5. Piped(history, selector, initial.rv, <<>>, 1, initial.rv)
    BY AdapterFacts, PipedEmpty, Zenon
  <2>6. Preloads(history, selector, initial, NothingKnown, <<>>, 1, "items")
    BY <2>2, PreloadStart, Zenon
  <2>7. Following(1)'
    BY <1>1, <1>2, <1>3, <2>1, <2>2, <2>3, <2>4, <2>5, <2>6, Zenon DEF Following
  <2>8. 1 \in 0..(Len(Pipe') + 1)
    BY <1>2, <1>3
  <2>9. \E x \in 0..(Len(Pipe') + 1) : Following(x)'
    BY <2>7, <2>8, Zenon
  <2>10. view' \in viewMap
    BY <2>1, Zenon DEF viewMap, NothingKnown
  <2> QED
    BY <1>1, <2>2, <2>3, <2>9, <2>10, AdapterFacts, Zenon DEF AdapterOK
<1> QED
  BY <1>4, <1>5, Zenon

LEMMA ReflectorStep ==
    ASSUME AdapterInv, Reflector \/ StopEarly
    PROVE  AdapterOK'
<1>1. CASE WatchTooOld
  <2>1. /\ reflector = "idle" /\ reflector' = "idle" /\ ~synced'
        /\ UNCHANGED <<revision, selector, initial, position, view>>
    BY <1>1, Zenon DEF WatchTooOld, vars, logVars, adapterVars
  <2> QED
    BY <2>1, AdapterFacts, Zenon DEF AdapterOK
<1>2. CASE ListInitialEvents
  <2>1. /\ reflector' = "listed" /\ ~synced /\ relayPC = "done"
        /\ initial' = List(AdapterKind, selector)
        /\ UNCHANGED <<revision, history, selector, relayPC, position, synced, view>>
    BY <1>2, Zenon DEF ListInitialEvents, vars, logVars
  <2>2. initial'.rv = revision /\ initial'.items = ItemsAt(history, selector, revision)
    BY <2>1, AdapterFacts, ListShows, Zenon
  <2>3. revision \in 0..revision /\ revision \in Nat
    BY AdapterFacts
  <2>4. initial'.items \subseteq Object
    BY <2>2, <2>3, AdapterFacts, ItemFacts, SMTT(20)
  <2>5. initial' \in adapterList
    <3>1. initial' = [items |-> initial'.items, rv |-> initial'.rv]
      BY <2>1, Zenon DEF List
    <3> QED
      BY <2>2, <2>3, <2>4, <3>1, Zenon DEF adapterList
  <2> QED
    BY <2>1, <2>2, <2>3, <2>5, AdapterFacts, Zenon DEF AdapterOK
<1>3. CASE InitialTooOld
  <2>1. /\ reflector = "listed" /\ reflector' = "idle" /\ initial' = NoList
        /\ UNCHANGED <<revision, selector, position, synced, view>>
    BY <1>3, Zenon DEF InitialTooOld, vars, logVars
  <2>2. ~synced /\ NoList \in adapterList
    BY <2>1, Zenon DEF AdapterInv, AdapterOK, NoList, adapterList
  <2> QED
    BY <2>1, <2>2, AdapterFacts, Zenon DEF AdapterOK
<1>4. CASE StopEnded \/ StopEarly \/ StopInner \/ StopReturn
  <2>1. /\ reflector' # "listed" /\ reflector' # "following"
        /\ UNCHANGED <<revision, history, selector, initial, position, synced, view>>
    BY <1>4, Zenon DEF StopEnded, StopEarly, StopSignal, StopInner, StopReturn, StopClose, removeWatcher,
                vars, logVars, adapterVars
  <2> QED
    BY <2>1, Zenon DEF AdapterInv, AdapterOK
<1> QED
  BY <1>1, <1>2, <1>3, <1>4, ListStep, WatchStepsFollow, ReflectorRecvStep, Zenon DEF Reflector

(* The invariant holds in every behaviour.                                 *)
THEOREM AdapterInvariant == AdapterSpec => []AdapterInv
<1>1. Init => AdapterInv
  <2> SUFFICES ASSUME Init PROVE AdapterInv
    BY Zenon
  <2>1. BackendInv
    BY NewStoreInv, NewLogWatch, Zenon DEF Init, NewStore, BackendInv
  <2>2. /\ selector \in SUBSET Labels /\ initial = NoList /\ reflector = "idle" /\ position = 0
        /\ ~synced /\ view = NothingKnown /\ revision = 0
    BY Zenon DEF Init, NewStore, NewLog
  <2> QED
    BY <2>1, <2>2 DEF AdapterInv, AdapterOK, NoList, adapterList, NothingKnown, viewMap
<1>2. AdapterInv /\ [AdapterNext]_allVars => AdapterInv'
  <2> SUFFICES ASSUME AdapterInv, [AdapterNext]_allVars PROVE AdapterInv'
    BY Zenon
  <2>1. BackendInv'
    BY AdapterIsStoreStep, StoreStep, WatchStep, Zenon DEF AdapterInv, BackendInv
  <2>2. CASE AdapterNext
    BY <2>1, <2>2, WritersStep, RelayStep, ReflectorStep, Zenon DEF AdapterNext, AdapterInv
  <2>3. CASE UNCHANGED allVars
    <3>1. /\ UNCHANGED <<revision, history, watch, selector, relayPC, initial, inHand, out, stopCh>>
          /\ UNCHANGED <<reflector, position, synced, view>>
      BY <2>3, Zenon DEF allVars, vars, logVars, watchVars, adapterVars, reflectorVars
    <3>2. Pipe' = Pipe /\ Base' = Base
      BY <3>1, Zenon DEF Pipe, Base
    <3>3. \A b : Following(b) => Following(b)'
      BY <3>1, <3>2, Zenon DEF Following
    <3> QED
      BY <2>1, <3>1, <3>2, <3>3, Zenon DEF AdapterInv, AdapterOK
  <2> QED
    BY <2>2, <2>3, Zenon
<1> QED
  BY <1>1, <1>2, PTL DEF AdapterSpec

(* From the bookmark on, through every stop, overflow, resumption and      *)
(* relist, the consumer has the store at its position, for every selector  *)
(* and every size of the log and the channels (watchWithInitialEvents,     *)
(* WatchWithContext, run, relay).                                          *)
THEOREM ConsumerFollowsStore == AdapterSpec => []FollowsStore
<1>1. AdapterInv => FollowsStore
  BY ShowsIsShowsIn, Zenon DEF AdapterInv, AdapterOK, FollowsStore
<1> QED
  BY <1>1, AdapterInvariant, PTL

(* What is in the pipe is not newer than the relay's place in the watch.   *)
LEMMA PipeBehind ==
    ASSUME AdapterInv, NEW b \in Nat, Following(b), NEW n \in DOMAIN Pipe
    PROVE  Pipe[n].rv \in Nat /\ Pipe[n].rv <= watch[Watcher].cursor
<1> DEFINE cur == watch[Watcher].cursor
<1>1. Pipe \in Seq(adapterEvent) /\ Len(Pipe) \in Nat /\ DOMAIN Pipe = 1..Len(Pipe) /\ Pipe[n] \in adapterEvent
  BY FollowingFacts, SeqParts, Zenon
<1>2. Pipe[n].rv \in Nat /\ n \in Nat /\ n # 0 /\ n <= Len(Pipe)
  BY <1>1 DEF adapterEvent
<1>3. /\ Base \in Nat /\ cur \in Nat /\ Base <= cur
  BY AdapterFacts, Zenon DEF Following, Subscribed
<1>4. CASE n > b
  BY <1>2, <1>4, Zenon DEF Following, Piped
<1>5. CASE ~(n > b)
  <2>1. ~synced /\ Base = initial.rv
    BY <1>2, <1>5 DEF Following, Base
  <2>2. initial.rv \in 0..revision /\ Preloads(history, selector, initial, view, Pipe, b, relayPC)
    BY <2>1, Zenon DEF Following
  <2>3. CASE n = b
    <3>1. b # Len(Pipe) + 1
      BY <1>1, <1>2, <2>3, SMTT(20)
    <3> QED
      BY <1>2, <1>3, <2>1, <2>2, <2>3, <3>1, Zenon DEF Preloads
  <2>4. CASE n # b
    <3>1. n < b
      BY <1>2, <1>5, <2>4, SMTT(20)
    <3>2. Pipe[n].obj \in ItemsAt(history, selector, initial.rv) /\ Pipe[n].rv = Pipe[n].obj.rv
      BY <2>2, <3>1, Zenon DEF Preloads, Filled
    <3>3. Pipe[n].obj.rv <= initial.rv
      BY <2>2, <3>2, AdapterFacts, ItemFacts, Zenon
    <3> QED
      BY <1>2, <1>3, <2>1, <3>2, <3>3, SMTT(20)
  <2> QED
    BY <2>3, <2>4, Zenon
<1> QED
  BY <1>4, <1>5, <1>2, Zenon

(* What is in the pipe is in one of its parts, and conversely.             *)
Joins(p, o, in) ==
    /\ \A n \in DOMAIN p : \/ \E k \in DOMAIN o : p[n] = o[k]
                           \/ \E k \in DOMAIN in : p[n] = in[k]
    /\ \A k \in DOMAIN o : \E n \in DOMAIN p : p[n] = o[k]
    /\ \A k \in DOMAIN in : \E n \in DOMAIN p : p[n] = in[k]

LEMMA PipeJoins ==
    ASSUME NEW S, NEW o \in Seq(S), NEW in \in Seq(S)
    PROVE  Joins(o \o in, o, in)
<1> DEFINE q == o \o in
           K == Len(o)
           L == Len(in)
<1>1. /\ K \in Nat /\ L \in Nat /\ DOMAIN o = 1..K /\ DOMAIN in = 1..L /\ DOMAIN q = 1..(K + L)
      /\ \A n \in 1..K : q[n] = o[n]
      /\ \A n \in 1..L : q[K + n] = in[n]
  BY PipeParts, LenProperties, SMTT(20)
<1> HIDE DEF q, K, L
<1>2. \A n \in 1..(K + L) : n \in 1..K \/ (n - K \in 1..L /\ K + (n - K) = n)
  BY <1>1
<1>3. (\A n \in 1..K : n \in 1..(K + L)) /\ (\A n \in 1..L : K + n \in 1..(K + L))
  BY <1>1
<1>4. \A n \in DOMAIN q : (\E k \in DOMAIN o : q[n] = o[k]) \/ (\E k \in DOMAIN in : q[n] = in[k])
  BY <1>1, <1>2, Zenon
<1>5. /\ \A k \in DOMAIN o : \E n \in DOMAIN q : q[n] = o[k]
      /\ \A k \in DOMAIN in : \E n \in DOMAIN q : q[n] = in[k]
  BY <1>1, <1>3, Zenon
<1>6. Joins(q, o, in)
  BY <1>4, <1>5, Zenon DEF Joins
<1> QED
  BY <1>6, Zenon DEF q

(* No event is lost or doubled between the store's channel and the         *)
(* consumer's: what the consumer is due and matches is in one of them or   *)
(* in the relay's hand, or comes after where the store closed the watch    *)
(* (run, relay).                                                           *)
THEOREM RelayHasNoGap == AdapterSpec => []RelayNoGap
<1>1. AdapterInv => RelayNoGap
  <2> SUFFICES ASSUME AdapterInv, reflector = "following"
               PROVE  /\ \A i \in Due(AdapterKind, Base) :
                            \/ ~Matches(selector, history[i].event.obj)
                            \/ history[i].revision \in Pipeline
                            \/ watch[Watcher].closed /\ \A rv \in Pipeline : rv < history[i].revision
                      /\ synced /\ out # <<>> => Head(out).rv > position
    BY Zenon DEF RelayNoGap, Base
  <2> DEFINE v == watch[Watcher]
  <2>1. PICK b \in 0..(Len(Pipe) + 1) : Following(b)
    BY Zenon DEF AdapterInv, AdapterOK
  <2>2. b \in Nat
    OBVIOUS
  <2>3. /\ out \in Seq(adapterEvent) /\ inHand \in Seq(adapterEvent)
        /\ v.stage = "open" /\ v.gvk = AdapterKind /\ v.sel = selector /\ Base <= v.cursor
        /\ Piped(history, selector, Base, Pipe, b, v.cursor)
        /\ synced => b = 0
    BY <2>1, Zenon DEF Following, Subscribed
  <2>4. v.cursor \in Nat /\ Base \in Nat /\ v \in memoryWatcher /\ Stream(v)
    BY <2>3, AdapterFacts, Zenon DEF WatchOK, WatcherOK
  <2>5. Joins(Pipe, out, inHand)
    BY <2>3, PipeJoins, Zenon DEF Pipe
  <2> HIDE DEF v
  <2>6. ASSUME NEW i \in Due(AdapterKind, Base), Matches(selector, history[i].event.obj)
        PROVE  \/ history[i].revision \in Pipeline
               \/ watch[Watcher].closed /\ \A rv \in Pipeline : rv < history[i].revision
    <3>1. /\ i \in DueIn(history, Base) /\ i \in DOMAIN history /\ i \in Nat /\ history[i].revision = i
          /\ history[i].gvk = AdapterKind
      BY <2>6, AdapterFacts, DueIsDueIn, HistoryFacts, Zenon DEF Due, DueIn
    <3>2. CASE i <= v.cursor
      <4>1. \E n \in DOMAIN Pipe : Pipe[n].rv = i
        BY <2>3, <2>6, <3>1, <3>2, Zenon DEF Piped
      <4> QED
        BY <2>5, <3>1, <4>1, SMTT(20) DEF Joins, Pipeline
    <3>3. CASE ~(i <= v.cursor)
      <4>1. i \in Due(v.gvk, v.cursor) /\ i > v.cursor
        BY <2>3, <2>4, <3>1, <3>3, SMTT(20) DEF Due
      <4>2. Covered(v, i)
        BY <2>4, <4>1, Zenon DEF Stream
      <4>3. CASE \E n \in DOMAIN v.ch : v.ch[n].obj.rv = history[i].revision
        BY <4>3, Zenon DEF Pipeline, Buffered, v
      <4>4. CASE v.closed /\ \A n \in DOMAIN v.ch : v.ch[n].obj.rv < history[i].revision
        <5>1. \A n \in DOMAIN Pipe : Pipe[n].rv < i
          BY <2>1, <2>2, <2>4, <3>1, <4>1, PipeBehind, SMTT(20) DEF v
        <5>2. \A rv \in Buffered(Watcher) : rv < i
          BY <3>1, <4>4, Zenon DEF Buffered, v
        <5>3. \A rv \in Pipeline : rv < i
          BY <2>5, <5>1, <5>2, SMTT(20) DEF Joins, Pipeline
        <5> QED
          BY <3>1, <4>4, <5>3, Zenon DEF v
      <4> QED
        BY <2>3, <2>6, <4>2, <4>3, <4>4, Zenon DEF Covered
    <3> QED
      BY <3>2, <3>3, Zenon
  <2>7. ASSUME synced, out # <<>> PROVE Head(out).rv > position
    <3>1. b = 0 /\ Base = position
      BY <2>3, <2>7, Zenon DEF Base
    <3>2. Pipe \in Seq(adapterEvent) /\ Pipe # <<>> /\ Head(out) = Pipe[1]
      BY <2>3, <2>7, PipeTail, SMTT(20) DEF Pipe
    <3>3. Pipe[1].rv > Base
      BY <2>3, <2>4, <3>1, <3>2, AdapterFacts, PipedNext, Zenon
    <3> QED
      BY <3>1, <3>2, <3>3, Zenon
  <2> QED
    BY <2>6, <2>7, Zenon
<1> QED
  BY <1>1, AdapterInvariant, PTL
=============================================================================
