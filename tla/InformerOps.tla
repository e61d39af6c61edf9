---------------------------- MODULE InformerOps ----------------------------
(***************************************************************************)
(* The sequential parts of cache.go's storeInformer and eventQueue: what a *)
(* watch event does to the cached objects, which cache events it queues    *)
(* for the handlers, and how the queue coalesces them.                     *)
(*                                                                         *)
(* An operation of the informer returns the new map of cached objects and  *)
(* the cache events it enqueues, at most one for each key.                 *)
(***************************************************************************)
EXTENDS StoreTypes

CONSTANTS
    Selector,     \* label keys the informer's label selector requires
    AllowedKeys,  \* keys its namespaces and field selector let through
    Rejected      \* specs for which the configured transform returns an error

ASSUME SelectorAssumption == Selector \subseteq Labels /\ AllowedKeys \subseteq Keys

(* `old' is set for an update, `obj' always.  The flag isInInitialList is  *)
(* left out: handlers get it for information and nothing depends on it.    *)
cacheEvent == [type : {"add", "update", "delete"}, obj : Object, old : Object \cup {NoObject}]

AddEvent(obj) == [type |-> "add", obj |-> obj, old |-> NoObject]
UpdateEvent(old, obj) == [type |-> "update", obj |-> obj, old |-> old]
DeleteEvent(obj) == [type |-> "delete", obj |-> obj, old |-> NoObject]

NoObjects == [key \in Keys |-> NoObject]
NoEvents == [key \in {} |-> AddEvent(NoObject)]
OneEvent(key, event) == [k \in {key} |-> event]

Effect(objects, events) == [objects |-> objects, events |-> events]

matchesSelectors(obj) == obj.key \in AllowedKeys /\ Selector \subseteq obj.labels

(* applyTransform succeeds.  What it makes of the object is left out: the  *)
(* key, labels and resourceVersion it must keep are all that is used.      *)
Transformable(obj) == obj.spec \notin Rejected

(* newerResourceVersion against a cached object that may be absent: stale  *)
(* and repeated events are dropped.                                        *)
Fresh(obj, cached) == cached = NoObject \/ obj.rv > cached.rv

add(cached, obj) ==
    IF ~matchesSelectors(obj) \/ ~Transformable(obj) \/ ~Fresh(obj, cached[obj.key])
    THEN Effect(cached, NoEvents)
    ELSE Effect([cached EXCEPT ![obj.key] = obj], OneEvent(obj.key, AddEvent(obj)))

updateIgnoresMismatch(cached, obj) ==  \* mutant
    LET old == cached[obj.key]
    IN  IF ~Fresh(obj, old) \/ ~matchesSelectors(obj) \/ ~Transformable(obj) THEN Effect(cached, NoEvents)
        ELSE Effect([cached EXCEPT ![obj.key] = obj],
                    OneEvent(obj.key, IF old = NoObject THEN AddEvent(obj) ELSE UpdateEvent(old, obj)))

(* An object that no longer matches the selectors leaves the cache.        *)
update(cached, obj) ==
    LET old == cached[obj.key]
    IN  IF ~Fresh(obj, old) \/ (IF matchesSelectors(obj) THEN ~Transformable(obj) ELSE old = NoObject)
        THEN Effect(cached, NoEvents)
        ELSE IF ~matchesSelectors(obj)
        THEN Effect([cached EXCEPT ![obj.key] = NoObject], OneEvent(obj.key, DeleteEvent(old)))
        ELSE Effect([cached EXCEPT ![obj.key] = obj],
                    OneEvent(obj.key, IF old = NoObject THEN AddEvent(obj) ELSE UpdateEvent(old, obj)))

(* Deletes are applied whatever their resourceVersion.                     *)
delete(cached, obj) ==
    LET old == cached[obj.key]
    IN  IF old = NoObject THEN Effect(cached, NoEvents)
        ELSE Effect([cached EXCEPT ![obj.key] = NoObject], OneEvent(obj.key, DeleteEvent(old)))

(* One event of the watch stream, as watchInformer dispatches it.          *)
Dispatch(cached, event) ==
    CASE event.type = "ADDED"    -> add(cached, event.obj)
      [] event.type = "MODIFIED" -> update(cached, event.obj)
      [] event.type = "DELETED"  -> delete(cached, event.obj)

replaceKeepsOld(cached, items) ==  \* mutant
    LET new == [key \in Keys |->
                  IF \E obj \in items : obj.key = key
                  THEN CHOOSE obj \in items : obj.key = key ELSE cached[key]]
    IN  Effect(new, NoEvents)

(* A relist replaces the cache and queues only the differences.            *)
replaceAll(cached, items) ==
    LET new == [key \in Keys |->
                  IF \E obj \in items : obj.key = key /\ matchesSelectors(obj) /\ Transformable(obj)
                  THEN CHOOSE obj \in items : obj.key = key ELSE NoObject]
        rv(obj) == IF obj = NoObject THEN 0 ELSE obj.rv
        changed == {key \in Keys : rv(cached[key]) # rv(new[key])}
    IN  Effect(new, [key \in changed |->
                       IF new[key] = NoObject THEN DeleteEvent(cached[key])
                       ELSE IF cached[key] = NoObject THEN AddEvent(new[key])
                       ELSE UpdateEvent(cached[key], new[key])])

(* A resync queues every cached object as an update to itself.             *)
resync(cached) ==
    Effect(cached, [key \in {k \in Keys : cached[k] # NoObject} |->
                      UpdateEvent(cached[key], cached[key])])
-----------------------------------------------------------------------------
(* eventQueue: pending events per key (none: the key is not in the map),   *)
(* and the order in which keys became pending.                             *)
eventQueue == [order : Seq(Keys), pending : [Keys -> Seq(cacheEvent)], closed : BOOLEAN]

newEventQueue == [order |-> <<>>, pending |-> [key \in Keys |-> <<>>], closed |-> FALSE]

coalesceKeepsDelete(last, event) ==  \* mutant
    CASE last.type = "add" /\ event.type = "update"    -> <<AddEvent(event.obj)>>
      [] last.type = "update" /\ event.type = "update" -> <<UpdateEvent(last.old, event.obj)>>
      [] OTHER                                         -> <<event>>

(* coalesceEvents: the events that replace an event followed by another.   *)
coalesceEvents(last, event) ==
    CASE last.type = "add" /\ event.type = "update"    -> <<AddEvent(event.obj)>>
      [] last.type = "add" /\ event.type = "delete"    -> <<>>
      [] last.type = "update" /\ event.type = "update" -> <<UpdateEvent(last.old, event.obj)>>
      [] last.type = "update" /\ event.type = "delete" -> <<DeleteEvent(event.obj)>>
      [] OTHER                                         -> <<event>>

(* What enqueue makes of a key's pending events.  A delete followed by an  *)
(* add keeps both: handlers must see the old object go.                    *)
Push(events, event) ==
    LET last == events[Len(events)]
    IN  IF events = <<>> \/ (last.type = "delete" /\ event.type = "add") THEN Append(events, event)
        ELSE SubSeq(events, 1, Len(events) - 1) \o coalesceEvents(last, event)

enqueueFirstOnly(q, key, event) ==  \* mutant
    IF q.closed \/ q.pending[key] # <<>> THEN q
    ELSE [q EXCEPT !.pending[key] = <<event>>, !.order = Append(@, key)]

(* A key that was not pending goes to the end of the order.                *)
enqueue(q, key, event) ==
    IF q.closed THEN q
    ELSE [q EXCEPT !.pending[key] = Push(@, event),
                   !.order = IF q.pending[key] = <<>> THEN Append(@, key) ELSE @]

(* The events handed over at place i of the order: a repeated key has none *)
(* left.                                                                   *)
EventsAt(q, i) == IF \E j \in 1..(i - 1) : q.order[j] = q.order[i] THEN <<>> ELSE q.pending[q.order[i]]

(* drain leaves the queue empty and hands over the events, key by key in   *)
(* the order the keys became pending.                                      *)
drained(q) ==
    LET upTo[i \in 0..Len(q.order)] == IF i = 0 THEN <<>> ELSE upTo[i - 1] \o EventsAt(q, i)
    IN  upTo[Len(q.order)]
=============================================================================
