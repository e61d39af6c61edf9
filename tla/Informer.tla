------------------------------ MODULE Informer ------------------------------
(***************************************************************************)
(* cache.go's storeInformer: the cached objects and their index, the       *)
(* coalescing event queue, the goroutine that drains it and calls the      *)
(* handlers, and AddEventHandler and RemoveEventHandler, which run         *)
(* concurrently with both.                                                 *)
(*                                                                         *)
(* The store is abstracted to the objects of the informer's kind, `truth', *)
(* and to the stream it gives the informer: a list; while a watch is up,   *)
(* each change in order; when it is opened again, a replay of the changes  *)
(* made in between, or a relist if they are not in the log any more.  The  *)
(* replay has only the changes whose object matches the label selector.    *)
(* How far the stream lags behind the store is left out (see CacheSync): a *)
(* change is made when the watch that is up delivers it.  An operation of  *)
(* the informer sets the objects and the index under i.mu and enqueues its *)
(* events after releasing it, one by one: they wait in `outbox' in         *)
(* between.                                                                *)
(*                                                                         *)
(* Auxiliary: added[h] tells whether handler h was added before Start      *)
(* ("early") or after it ("late"), view[h] is what the calls made to h say *)
(* of each key, and due[h] the keys that changed in the cache since h was  *)
(* last called for them; all three are forgotten when h is removed.        *)
(* `skipped' has the keys of which the replay left out a change, `readded' *)
(* those for which an object was added over a cached one.                  *)
(***************************************************************************)
EXTENDS InformerOps

CONSTANTS
    Handlers,  \* event handlers
    Loads      \* what is explored: see Load

Content == [spec : Specs, labels : SUBSET Labels]

(* The handlers that come and go, the keys and contents that are written,  *)
(* how many changes there are, and whether there is more to the use of the *)
(* informer than handlers added before Start.                              *)
Load ==
    [handlers : SUBSET Handlers, keys : SUBSET Keys, contents : SUBSET Content, changes : Nat, users : BOOLEAN]

ASSUME LoadsAssumption == Loads \subseteq Load

VARIABLES
    load,
    truth, rv, phase,              \* the store, and how the stream is doing
    replay, skipped,               \* missed changes the next watch starts with
    items,                         \* of the initial list, still to add
    cached, indexed, index,        \* objects, and one index over the spec
    readded,
    outbox,                        \* key -> event still to be enqueued
    queue,
    proc, batch, targets, called,  \* processEvents and the calls it has to make
    handlers,                      \* i.handlers
    snapshot,                      \* handler -> existing objects still to pass to it
    added, view, due

storeVars == <<load, truth, rv, replay, skipped>>
cacheVars == <<cached, indexed, index, readded>>
procVars == <<proc, batch, targets, called>>
handlerVars == <<handlers, snapshot, added>>
vars == <<storeVars, phase, items, cacheVars, outbox, queue, procVars, handlerVars, view, due>>

Init ==
    /\ load \in Loads
    /\ truth = NoObjects /\ rv = 0 /\ phase = "new" /\ items = {}
    /\ replay = <<>> /\ skipped = {}
    /\ cached = NoObjects /\ indexed = FALSE /\ index = {} /\ readded = {}
    /\ outbox = NoEvents
    /\ queue = newEventQueue
    /\ proc = "idle" /\ batch = <<>> /\ targets = <<>> /\ called = 0
    /\ handlers = <<>>
    /\ snapshot = [h \in Handlers |-> {}]
    /\ added = [h \in Handlers |-> "never"]
    /\ view = [h \in Handlers |-> NoObjects]
    /\ due = [h \in Handlers |-> {}]
-----------------------------------------------------------------------------
LeaveInIndices(idx, key) == idx  \* mutant

(* The index: pairs of a value and a key.                                  *)
removeFromIndices(idx, key) == {pair \in idx : pair[2] # key}

rebuildIndicesForObject(idx, key, obj) == removeFromIndices(idx, key) \cup {<<obj.spec, key>>}

(* addIndexer and replaceAll build the index from all the objects.         *)
buildIndex(objs) == {<<objs[key].spec, key>> : key \in {k \in Keys : objs[k] # NoObject}}

(* The index after an operation that concerns at most one key.             *)
Reindexed(effect) ==
    IF ~indexed \/ DOMAIN effect.events = {} THEN index
    ELSE LET key == CHOOSE k \in DOMAIN effect.events : TRUE
         IN  IF effect.objects[key] = NoObject THEN removeFromIndices(index, key)
             ELSE rebuildIndicesForObject(index, key, effect.objects[key])

Registered == {handlers[n] : n \in DOMAIN handlers}

(* An operation of the informer, with the index it leaves.                 *)
Apply(effect, idx) ==
    /\ outbox = NoEvents
    /\ cached' = effect.objects
    /\ outbox' = effect.events
    /\ index' = idx
    /\ readded' = readded \cup {key \in DOMAIN effect.events :
                                  effect.events[key].type = "add" /\ cached[key] # NoObject}
    /\ due' = [h \in Handlers |-> IF h \notin Registered THEN {}
                                  ELSE due[h] \cup {k \in Keys : effect.objects[k] # cached[k]}]
    /\ UNCHANGED indexed

(* Readers: list, with a field selector that requires values of the        *)
(* indexed field, all of them, and a label selector.                       *)
listFromIndex(values) ==
    LET keys == IF values = {} THEN Keys ELSE {key \in Keys : \A value \in values : <<value, key>> \in index}
    IN  {cached[key] : key \in keys} \ {NoObject}

list(values, sel) == {obj \in listFromIndex(values) : sel \subseteq obj.labels}

Listed == {obj \in {truth[key] : key \in Keys} \ {NoObject} : Selector \subseteq obj.labels}
-----------------------------------------------------------------------------
(* startInformer: start the processor, list, and add the items one by one. *)
startInformer ==
    /\ phase = "new"
    /\ phase' = "fill"
    /\ items' = Listed
    /\ UNCHANGED <<storeVars, cacheVars, outbox, queue, procVars, handlerVars, view, due>>

InitialAdd ==
    /\ phase = "fill"
    /\ \E obj \in items :
          /\ items' = items \ {obj}
          /\ LET effect == add(cached, obj) IN Apply(effect, Reindexed(effect))
    /\ UNCHANGED <<storeVars, phase, queue, procVars, handlerVars, view>>

InitialDone ==
    /\ phase = "fill" /\ items = {} /\ outbox = NoEvents
    /\ phase' = "down"
    /\ UNCHANGED <<storeVars, items, cacheVars, outbox, queue, procVars, handlerVars, view, due>>

(* The change of the store that an event reports.                          *)
Changed(event) ==
    LET old == truth[event.obj.key]
    IN  /\ rv < load.changes
        /\ UNCHANGED load
        /\ rv' = rv + 1
        /\ event.obj.rv = rv + 1
        /\ (event.type = "ADDED") = (old = NoObject)
        /\ truth' = [truth EXCEPT ![event.obj.key] =
                       IF event.type = "DELETED" THEN NoObject ELSE event.obj]

(* The objects that writers store.                                         *)
Stored ==
    {obj \in [key : load.keys, spec : Specs, status : Statuses, labels : SUBSET Labels,
              generation : {1}, uid : {1}, rv : {rv + 1}] :
        [spec |-> obj.spec, labels |-> obj.labels] \in load.contents}

Changes == [type : {"ADDED", "MODIFIED"}, obj : Stored]
           \cup {[type |-> "DELETED", obj |-> [obj EXCEPT !.rv = rv + 1]] :
                   obj \in {truth[key] : key \in Keys} \ {NoObject}}

(* The store changes while the watch is up: watchInformer dispatches it.   *)
(* A change of a skipped object puts the cache right again, unless add     *)
(* ignores it.                                                             *)
WatchEvent ==
    /\ phase = "watch" /\ replay = <<>>
    /\ \E event \in Changes :
          /\ Changed(event)
          /\ skipped' = IF event.type = "ADDED" THEN skipped ELSE skipped \ {event.obj.key}
          /\ LET effect == Dispatch(cached, event) IN Apply(effect, Reindexed(effect))
    /\ UNCHANGED <<phase, replay, items, queue, procVars, handlerVars, view>>

(* The replay is filtered by the labels that each event's object has.      *)
Replayed(event) == Selector \subseteq event.obj.labels

(* The store changes and nobody is watching.                               *)
MissedEvent ==
    /\ phase \in {"new", "fill", "down"}
    /\ \E event \in Changes :
          /\ Changed(event)
          /\ replay' = IF phase # "new" /\ Replayed(event) THEN Append(replay, event) ELSE replay
          /\ skipped' = IF phase # "new" /\ ~Replayed(event) THEN skipped \cup {event.obj.key} ELSE skipped
    /\ UNCHANGED <<phase, items, cacheVars, outbox, queue, procVars, handlerVars, view, due>>

(* Watch from the revision of the list, or of the last event: accepted, or *)
(* refused as too old.                                                     *)
OpenWatch ==
    /\ phase = "down" /\ outbox = NoEvents
    /\ phase' = "watch"
    /\ UNCHANGED <<storeVars, items, cacheVars, outbox, queue, procVars, handlerVars, view, due>>

relistInformer ==
    /\ phase = "down"
    /\ replay' = <<>> /\ skipped' = {}
    /\ LET effect == replaceAll(cached, Listed)
       IN  Apply(effect, IF indexed THEN buildIndex(effect.objects) ELSE index)
    /\ UNCHANGED <<load, truth, rv, phase, items, queue, procVars, handlerVars, view>>

(* The next event of the replay.                                           *)
ReplayEvent ==
    /\ phase = "watch" /\ replay # <<>>
    /\ replay' = Tail(replay)
    /\ LET effect == Dispatch(cached, Head(replay)) IN Apply(effect, Reindexed(effect))
    /\ UNCHANGED <<load, truth, rv, skipped, phase, items, queue, procVars, handlerVars, view>>

(* The channel is closed, and received from until it is empty.             *)
LoseWatch ==
    /\ phase = "watch" /\ replay = <<>> /\ outbox = NoEvents
    /\ phase' = "down"
    /\ UNCHANGED <<storeVars, items, cacheVars, outbox, queue, procVars, handlerVars, view, due>>

resyncInformer ==
    /\ phase = "watch"
    /\ Apply(resync(cached), index)
    /\ UNCHANGED <<storeVars, phase, items, queue, procVars, handlerVars, view>>

(* Enqueues the next event; a relist's deletes come first.                 *)
Enqueue ==
    /\ \E key \in DOMAIN outbox :
          /\ (\E k \in DOMAIN outbox : outbox[k].type = "delete") => outbox[key].type = "delete"
          /\ queue' = enqueue(queue, key, outbox[key])
          /\ outbox' = [k \in DOMAIN outbox \ {key} |-> outbox[k]]
    /\ UNCHANGED <<storeVars, phase, items, cacheVars, procVars, handlerVars, view, due>>

addIndexer ==
    /\ indexed' = TRUE
    /\ index' = buildIndex(cached)
    /\ UNCHANGED <<storeVars, phase, items, cached, readded, outbox, queue, procVars, handlerVars, view, due>>
-----------------------------------------------------------------------------
(* processEvents: drain the queue, copy the handlers, then call them.      *)
Idle(q) == \A key \in Keys : q.pending[key] = <<>>

drain ==
    /\ proc = "idle" /\ phase # "new"
    /\ ~Idle(queue)
    /\ proc' = "copy"
    /\ batch' = drained(queue)
    /\ queue' = [newEventQueue EXCEPT !.closed = queue.closed]
    /\ UNCHANGED <<storeVars, phase, items, cacheVars, outbox, targets, called, handlerVars, view, due>>

processExitLate ==  \* mutant
    /\ proc = "idle" /\ phase # "new"
    /\ queue.closed /\ ~Idle(queue)
    /\ proc' = "done"
    /\ UNCHANGED <<storeVars, phase, items, cacheVars, outbox, queue, batch, targets, called, handlerVars, view, due>>

(* The queue is closed and empty: the goroutine returns.                   *)
processExit ==
    /\ proc = "idle" /\ phase # "new"
    /\ queue.closed /\ Idle(queue)
    /\ proc' = "done"
    /\ UNCHANGED <<storeVars, phase, items, cacheVars, outbox, queue, batch, targets, called, handlerVars, view, due>>

CopyHandlers ==
    /\ proc = "copy"
    /\ targets' = handlers
    /\ called' = 0
    /\ proc' = "call"
    /\ UNCHANGED <<storeVars, phase, items, cacheVars, outbox, queue, batch, handlerVars, view, due>>

Told(h, key, obj) ==
    IF h \in Registered THEN /\ view' = [view EXCEPT ![h][key] = obj]
                             /\ due' = [due EXCEPT ![h] = @ \ {key}]
    ELSE UNCHANGED <<view, due>>

After(event) == IF event.type = "delete" THEN NoObject ELSE event.obj

(* One call: OnAdd, OnUpdate or OnDelete of the next handler.              *)
CallHandler ==
    /\ proc = "call" /\ batch # <<>>
    /\ called < Len(targets)
    /\ Told(targets[called + 1], Head(batch).obj.key, After(Head(batch)))
    /\ called' = called + 1
    /\ UNCHANGED <<storeVars, phase, items, cacheVars, outbox, queue, proc, batch, targets, handlerVars>>

NextEvent ==
    /\ proc = "call"
    /\ IF batch = <<>> THEN proc' = "idle" /\ targets' = <<>> /\ UNCHANGED <<batch, called>>
       ELSE /\ called = Len(targets)
            /\ batch' = Tail(batch) /\ called' = 0
            /\ UNCHANGED <<proc, targets>>
    /\ UNCHANGED <<storeVars, phase, items, cacheVars, outbox, queue, handlerVars, view, due>>
-----------------------------------------------------------------------------
AddWithoutSnapshot(h) ==  \* mutant
    /\ added[h] = "never" /\ h \in load.handlers
    /\ handlers' = Append(handlers, h)
    /\ added' = [added EXCEPT ![h] = IF phase = "new" THEN "early" ELSE "late"]
    /\ due' = [due EXCEPT ![h] = {key \in Keys : cached[key] # NoObject}]
    /\ UNCHANGED <<storeVars, phase, items, cacheVars, outbox, queue, procVars, snapshot, view>>

(* AddEventHandler registers and takes a snapshot under handlerMu, then    *)
(* passes the objects of the snapshot to the handler, holding no lock.     *)
AddEventHandler(h) ==
    /\ added[h] = "never" /\ h \in load.handlers
    /\ handlers' = Append(handlers, h)
    /\ snapshot' = [snapshot EXCEPT ![h] = {cached[key] : key \in Keys} \ {NoObject}]
    /\ added' = [added EXCEPT ![h] = IF phase = "new" THEN "early" ELSE "late"]
    /\ due' = [due EXCEPT ![h] = {key \in Keys : cached[key] # NoObject}]
    /\ UNCHANGED <<storeVars, phase, items, cacheVars, outbox, queue, procVars, view>>

OnAddExisting(h) ==
    /\ \E obj \in snapshot[h] :
          /\ snapshot' = [snapshot EXCEPT ![h] = @ \ {obj}]
          /\ Told(h, obj.key, obj)
    /\ UNCHANGED <<storeVars, phase, items, cacheVars, outbox, queue, procVars, handlers, added>>

RemoveEventHandler(h) ==
    /\ snapshot[h] = {}
    /\ \E n \in DOMAIN handlers :
          /\ handlers[n] = h
          /\ handlers' = SubSeq(handlers, 1, n - 1) \o SubSeq(handlers, n + 1, Len(handlers))
    /\ added' = [added EXCEPT ![h] = "removed"]
    /\ view' = [view EXCEPT ![h] = NoObjects]
    /\ due' = [due EXCEPT ![h] = {}]
    /\ UNCHANGED <<storeVars, phase, items, cacheVars, outbox, queue, procVars, snapshot>>

(* stop, or the context of startProcessing is done.                        *)
closeQueue ==
    /\ queue' = [queue EXCEPT !.closed = TRUE]
    /\ UNCHANGED <<storeVars, phase, items, cacheVars, outbox, procVars, handlerVars, view, due>>

WatchLoop == InitialAdd \/ InitialDone \/ OpenWatch \/ relistInformer \/ ReplayEvent \/ Enqueue
Processor == drain \/ processExit \/ CopyHandlers \/ CallHandler \/ NextEvent
Store == WatchEvent \/ MissedEvent \/ LoseWatch
Users ==
    \/ startInformer
    \/ \E h \in Handlers : OnAddExisting(h)
    \/ (phase = "new" \/ load.users) /\ \E h \in Handlers : AddEventHandler(h)
    \/ load.users /\ \E h \in Handlers : RemoveEventHandler(h)
    \/ load.users /\ (resyncInformer \/ addIndexer \/ closeQueue)

Next == WatchLoop \/ Processor \/ Store \/ Users

(* The informer's two goroutines run, and handlers return.                 *)
Spec == Init /\ [][Next]_vars /\ WF_vars(WatchLoop) /\ WF_vars(Processor)
-----------------------------------------------------------------------------
TypeOK ==
    /\ truth \in [Keys -> Object \cup {NoObject}] /\ rv \in Nat
    /\ phase \in {"new", "fill", "watch", "down"}
    /\ replay \in Seq([type : {"ADDED", "MODIFIED", "DELETED"}, obj : Object]) /\ skipped \subseteq Keys
    /\ items \subseteq Object
    /\ cached \in [Keys -> Object \cup {NoObject}] /\ readded \subseteq Keys
    /\ indexed \in BOOLEAN /\ index \subseteq Specs \X Keys
    /\ DOMAIN outbox \subseteq Keys /\ \A key \in DOMAIN outbox : outbox[key] \in cacheEvent
    /\ queue \in eventQueue
    /\ proc \in {"idle", "copy", "call", "done"}
    /\ batch \in Seq(cacheEvent) /\ targets \in Seq(Handlers) /\ called \in 0..Len(targets)
    /\ handlers \in Seq(Handlers)
    /\ snapshot \in [Handlers -> SUBSET Object]
    /\ added \in [Handlers -> {"never", "early", "late", "removed"}]
    /\ view \in [Handlers -> [Keys -> Object \cup {NoObject}]]
    /\ due \in [Handlers -> SUBSET Keys]

(* While the watch is up and the replay is done, the cache holds what the  *)
(* selectors let through of the store, whatever mix of events, missed      *)
(* changes, replays and relists came before: every matching object, in its *)
(* present version, and no other.  Excepted are an object the transform    *)
(* rejects, and one that stopped matching or was deleted by a change the   *)
(* replay left out: it may stay until the next list or change of it (add,  *)
(* update, delete, replaceAll, watchInformer).                             *)
CacheIsStore ==
    phase = "watch" /\ replay = <<>> => \A key \in Keys :
        LET obj == truth[key]
        IN  IF obj = NoObject \/ ~matchesSelectors(obj) THEN cached[key] = NoObject \/ key \in skipped
            ELSE Transformable(obj) => cached[key] = obj

(* Listing through the index gives what scanning all the objects gives,    *)
(* for every pair of selectors, through updates that change the value,     *)
(* deletes, relists, and an indexer added to a cache already in use (list, *)
(* listFromIndex, addIndexer, rebuildIndicesForObject).                    *)
IndexExact ==
    indexed => \A values \in SUBSET Specs, sel \in SUBSET Labels :
        list(values, sel) = {obj \in {cached[key] : key \in Keys} \ {NoObject} :
                                values \subseteq {obj.spec} /\ sel \subseteq obj.labels}

(* The events of the batch that handler h has still to be given.           *)
Rest(h) ==
    IF proc = "call" /\ batch # <<>> /\ \E n \in 1..called : targets[n] = h THEN Tail(batch) ELSE batch

(* All the events it has still to be given for a key, in order, and those  *)
(* of other keys that are in its batch.                                    *)
Stream(h, key) ==
    Rest(h) \o queue.pending[key] \o (IF key \in DOMAIN outbox THEN <<outbox[key]>> ELSE <<>>)

(* The event can be given to a handler that last saw the key as obj.       *)
Fits(obj, event) ==
    CASE event.type = "add"    -> obj = NoObject
      [] event.type = "update" -> obj # NoObject /\ obj = event.old
      [] event.type = "delete" -> obj # NoObject

(* Coalescing loses no transition a handler relies on.  For a handler      *)
(* added before Start, the events it has still to be given lead from what  *)
(* it was last told to the cached object, each one fitting the one before: *)
(* OnAdd only for a key it does not know, OnUpdate from the very object it *)
(* was told, OnDelete only for a key it knows (enqueue, coalesceEvents,    *)
(* drain, processEvents).  Keys added over a cached object are excepted:   *)
(* add queues an Add for an object the handler knows.                      *)
StreamLeadsToCache ==
    \A h \in Registered : added[h] = "early" /\ ~queue.closed =>
        \A key \in Keys \ readded :
            LET events == Stream(h, key)
                at[n \in 0..Len(events)] ==
                  IF n = 0 THEN view[h][key]
                  ELSE IF events[n].obj.key = key THEN After(events[n]) ELSE at[n - 1]
            IN  /\ \A n \in DOMAIN events : events[n].obj.key = key => Fits(at[n - 1], events[n])
                /\ at[Len(events)] = cached[key]

AtRest(h) ==
    /\ h \in Registered /\ snapshot[h] = {}
    /\ proc = "idle" /\ Idle(queue) /\ ~queue.closed /\ outbox = NoEvents

(* Every handler, whenever it was added, has been called for every cached  *)
(* object since the object last changed: between the snapshot taken by     *)
(* AddEventHandler and the handlers copied by processEvents none is missed.*)
LiveObjectsAnnounced ==
    \A h \in Handlers : AtRest(h) => \A key \in due[h] : cached[key] = NoObject

(* A handler that was told of an object is called again when the object is *)
(* gone.                                                                   *)
GoneObjectsRetracted ==
    \A h \in Handlers : AtRest(h) => \A key \in due[h] : view[h][key] = NoObject

(* When the store settles, handlers added before Start end up knowing the  *)
(* cached objects, in their cached versions; keys added over a cached      *)
(* object are excepted, as above.                                          *)
HandlersConverge ==
    <>[](queue.closed \/ \A h \in Registered : added[h] = "early" =>
                            \A key \in Keys \ readded : view[h][key] = cached[key])

(* Closing the queue ends the processor of a started informer.             *)
ProcessorExits == queue.closed /\ phase # "new" ~> proc = "done"
=============================================================================
