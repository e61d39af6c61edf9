---------------------------- MODULE WatchAdapter ----------------------------
(***************************************************************************)
(* listerwatcher.go over the memory backend: StoreListerWatcher, the two   *)
(* adapters that turn a store's watch into a watch.Interface, and the      *)
(* goroutine each of them runs to relay events from one channel to the     *)
(* other.  initialEventsAdapter sends the items of a list and a bookmark   *)
(* first; from then on it does what watchAdapter does, so both share the   *)
(* actions of the relay.                                                   *)
(*                                                                         *)
(* The consumer is client-go's Reflector, which is external: it lists or   *)
(* asks for initial events when it has no position, else watches from its  *)
(* position, and stops a watch when it ends or at any other time.  `view'  *)
(* is the store it fills and `position' the resourceVersion it resumes     *)
(* from.  It starts a new watch only after the goroutine of the last one   *)
(* returned; an old goroutine touches nothing of a new adapter.            *)
(***************************************************************************)
EXTENDS MemoryStore

CONSTANTS
    AdapterKind,  \* the kind of listObj
    Watcher,      \* the slot of the adapter's inner watcher
    OutSize,      \* the capacity of a.ch (100 in the code)
    MaxStops      \* bound: watches stopped while they run

ASSUME AdapterAssumption ==
    AdapterKind \in Kinds /\ Watcher \in Watchers /\ OutSize \in Nat \ {0} /\ MaxStops \in Nat

VARIABLES
    selector,     \* of the ListOptions
    relayPC,      \* where the relay goroutine is
    initial,      \* the list whose items it has still to send
    inHand,       \* the event it is about to send
    out,          \* a.ch, closed once the goroutine is done
    stopCh,       \* stopCh is closed
    reflector, position, synced, view, stops

adapterVars == <<relayPC, initial, inHand, out, stopCh>>
reflectorVars == <<reflector, position, synced, view, stops>>
allVars == <<vars, selector, adapterVars, reflectorVars>>

watchEvent(type, obj, rv) == [type |-> type, obj |-> obj, rv |-> rv]

NoList == [items |-> {}, rv |-> 0]
NothingKnown == [key \in Keys |-> NoObject]

Init ==
    /\ NewStore
    /\ selector \in SUBSET Labels
    /\ relayPC = "done" /\ initial = NoList /\ inHand = <<>> /\ out = <<>> /\ stopCh = FALSE
    /\ reflector = "idle" /\ position = 0 /\ synced = FALSE /\ view = NothingKnown /\ stops = 0
-----------------------------------------------------------------------------
ListWithContext ==
    LET list == List(AdapterKind, selector)
    IN  /\ reflector = "idle" /\ ~synced
        /\ view' = [key \in Keys |-> IF \E obj \in list.items : obj.key = key
                                     THEN CHOOSE obj \in list.items : obj.key = key ELSE NoObject]
        /\ position' = list.rv
        /\ synced' = TRUE
        /\ UNCHANGED <<vars, selector, adapterVars, reflector, stops>>

(* A new adapter and its goroutine.                                        *)
NewAdapter(start) ==
    /\ relayPC = "done"
    /\ relayPC' = start
    /\ inHand' = <<>> /\ out' = <<>> /\ stopCh' = FALSE
    /\ reflector' = "following"

(* WatchWithContext with a ResourceVersion: relay what follows it.         *)
WatchWithContext ==
    /\ reflector = "idle" /\ synced
    /\ WatchFrom(Watcher, AdapterKind, position, selector)
    /\ NewAdapter("select")
    /\ UNCHANGED <<dataVars, selector, initial, position, synced, view, stops>>

(* RevisionTooOldError: the Reflector starts over.                         *)
WatchTooOld ==
    /\ reflector = "idle" /\ synced
    /\ TooOld(position)
    /\ synced' = FALSE
    /\ UNCHANGED <<vars, selector, adapterVars, reflector, position, view, stops>>

(* watchWithInitialEvents lists ...                                        *)
ListInitialEvents ==
    /\ reflector = "idle" /\ ~synced /\ relayPC = "done"
    /\ initial' = List(AdapterKind, selector)
    /\ reflector' = "listed"
    /\ UNCHANGED <<vars, selector, relayPC, inHand, out, stopCh, position, synced, view, stops>>

WatchLiveEvents ==  \* mutant
    /\ reflector = "listed"
    /\ WatchLive(Watcher, AdapterKind)
    /\ NewAdapter("items")
    /\ view' = NothingKnown
    /\ UNCHANGED <<dataVars, selector, initial, position, synced, stops>>

(* ... and then, in another critical section of the store, watches from    *)
(* the revision of the list.                                               *)
WatchInitialEvents ==
    /\ reflector = "listed"
    /\ WatchFrom(Watcher, AdapterKind, initial.rv, selector)
    /\ NewAdapter("items")
    /\ view' = NothingKnown
    /\ UNCHANGED <<dataVars, selector, initial, position, synced, stops>>

InitialTooOld ==
    /\ reflector = "listed"
    /\ TooOld(initial.rv)
    /\ reflector' = "idle"
    /\ initial' = NoList
    /\ UNCHANGED <<vars, selector, relayPC, inHand, out, stopCh, position, synced, view, stops>>
-----------------------------------------------------------------------------
(* The relay.  Its sends block while a.ch is full.                         *)
Send(event) ==
    /\ Len(out) < OutSize
    /\ out' = Append(out, event)

SendItem ==
    /\ relayPC = "items"
    /\ \E obj \in initial.items :
          /\ Send(watchEvent("ADDED", obj, obj.rv))
          /\ initial' = [initial EXCEPT !.items = @ \ {obj}]
    /\ UNCHANGED <<vars, selector, relayPC, inHand, stopCh, reflectorVars>>

SendBookmarkFirst ==  \* mutant
    /\ relayPC = "items"
    /\ Send(watchEvent("BOOKMARK", NoObject, initial.rv))
    /\ relayPC' = "select"
    /\ UNCHANGED <<vars, selector, initial, inHand, stopCh, reflectorVars>>

SendBookmark ==
    /\ relayPC = "items" /\ initial.items = {}
    /\ Send(watchEvent("BOOKMARK", NoObject, initial.rv))
    /\ relayPC' = "select"
    /\ UNCHANGED <<vars, selector, initial, inHand, stopCh, reflectorVars>>

(* Takes the next event of the store's watch; drops it if its object does  *)
(* not match the selector.                                                 *)
RelayRecv ==
    LET event == Head(watch[Watcher].ch)
    IN  /\ relayPC = "select"
        /\ Recv(Watcher)
        /\ IF Matches(selector, event.obj)
           THEN inHand' = <<watchEvent(event.type, event.obj, event.obj.rv)>> /\ relayPC' = "send"
           ELSE UNCHANGED <<inHand, relayPC>>
        /\ UNCHANGED <<dataVars, selector, initial, out, stopCh, reflectorVars>>

SendOrDrop ==  \* mutant
    /\ relayPC = "send"
    /\ out' = IF Len(out) < OutSize THEN out \o inHand ELSE out
    /\ inHand' = <<>>
    /\ relayPC' = "select"
    /\ UNCHANGED <<vars, selector, initial, stopCh, reflectorVars>>

RelaySend ==
    /\ relayPC = "send"
    /\ Send(inHand[1])
    /\ inHand' = <<>>
    /\ relayPC' = "select"
    /\ UNCHANGED <<vars, selector, initial, stopCh, reflectorVars>>

(* The store's watch is closed and drained: the goroutine closes a.ch.     *)
RelayInnerClosed ==
    /\ relayPC = "select"
    /\ watch[Watcher].closed /\ watch[Watcher].ch = <<>>
    /\ relayPC' = "done"
    /\ UNCHANGED <<vars, selector, initial, inHand, out, stopCh, reflectorVars>>

RelayStoppedIdle ==  \* mutant
    /\ relayPC \in {"items", "select"}
    /\ stopCh
    /\ relayPC' = "done"
    /\ UNCHANGED <<vars, selector, initial, inHand, out, stopCh, reflectorVars>>

(* Every select of the goroutine also waits for stopCh, and picks any case *)
(* that is ready.                                                          *)
RelayStopped ==
    /\ relayPC \in {"items", "select", "send"}
    /\ stopCh
    /\ relayPC' = "done"
    /\ UNCHANGED <<vars, selector, initial, inHand, out, stopCh, reflectorVars>>
-----------------------------------------------------------------------------
(* The Reflector takes an event.  Until the bookmark it fills a temporary  *)
(* store and has no position.                                              *)
ReflectorRecv ==
    LET event == Head(out)
    IN  /\ reflector = "following" /\ out # <<>>
        /\ out' = Tail(out)
        /\ position' = IF synced \/ event.type = "BOOKMARK" THEN event.rv ELSE position
        /\ synced' = (synced \/ event.type = "BOOKMARK")
        /\ view' = IF event.type = "BOOKMARK" THEN view
                   ELSE [view EXCEPT ![event.obj.key] =
                           IF event.type = "DELETED" THEN NoObject ELSE event.obj]
        /\ UNCHANGED <<vars, selector, relayPC, initial, inHand, stopCh, reflector, stops>>

(* Stop closes stopCh, once, then stops the inner watcher.  The Reflector  *)
(* calls it when the channel is closed ...                                 *)
StopSignal ==
    /\ reflector = "following"
    /\ stopCh' = TRUE
    /\ reflector' = "stopping"
    /\ UNCHANGED <<vars, selector, relayPC, initial, inHand, out, position, synced, view>>

StopEnded == relayPC = "done" /\ out = <<>> /\ StopSignal /\ UNCHANGED stops

(* ... or at any other time.                                               *)
StopEarly == stops < MaxStops /\ StopSignal /\ stops' = stops + 1

StopInner ==
    /\ reflector = "stopping"
    /\ StopClose(Watcher)
    /\ reflector' = "removing"
    /\ UNCHANGED <<dataVars, selector, adapterVars, position, synced, view, stops>>

StopReturn ==
    /\ reflector = "removing"
    /\ removeWatcher(Watcher)
    /\ reflector' = "idle"
    /\ UNCHANGED <<dataVars, selector, adapterVars, position, synced, view, stops>>

Relay ==
    SendItem \/ SendBookmark \/ RelayRecv \/ RelaySend \/ RelayInnerClosed \/ RelayStopped

Reflector ==
    \/ ListWithContext \/ WatchWithContext \/ WatchTooOld
    \/ ListInitialEvents \/ WatchInitialEvents \/ InitialTooOld
    \/ ReflectorRecv \/ StopEnded \/ StopInner \/ StopReturn

Writers == AcceptedWrites /\ UNCHANGED <<selector, adapterVars, reflectorVars>>

AdapterNext == Writers \/ Relay \/ Reflector \/ StopEarly

(* Both goroutines run; writers, and stops out of turn, owe nothing.       *)
AdapterSpec == Init /\ [][AdapterNext]_allVars /\ WF_allVars(Relay) /\ WF_allVars(Reflector)
-----------------------------------------------------------------------------
(* The view shows the store at a revision: every object that matches, in   *)
(* its version.  An object that no longer matches may stay: the event that *)
(* says so is dropped.  Without selector nothing else is shown.            *)
Shows(rv) ==
    \A key \in Keys :
        LET obj == StateAt(AdapterKind, key, rv)
        IN  IF obj # NoObject /\ Matches(selector, obj) THEN view[key] = obj
            ELSE selector = {} => view[key] = NoObject

(* From the bookmark on, and through every stop, overflow and resumption,  *)
(* the consumer has the store at its position: initial items, bookmark and *)
(* live events add up although the list and the watch they come from are   *)
(* two calls (watchWithInitialEvents, run, relay).                         *)
FollowsStore == synced => Shows(position)

(* The events between the store and the consumer, oldest first.            *)
Pipeline == {out[n].rv : n \in DOMAIN out} \cup {inHand[n].rv : n \in DOMAIN inHand} \cup Buffered(Watcher)

(* No event is lost between the two channels: an event the consumer has    *)
(* still to be given is in one of them or in the relay's hand, unless the  *)
(* store closed its watch before that event.  Nor is one given twice: what *)
(* comes next is newer than the consumer's position (relay, run).          *)
RelayNoGap ==
    reflector = "following" =>
        /\ \A i \in Due(AdapterKind, IF synced THEN position ELSE initial.rv) :
              \/ ~Matches(selector, history[i].event.obj)
              \/ history[i].revision \in Pipeline
              \/ watch[Watcher].closed /\ \A rv \in Pipeline : rv < history[i].revision
        /\ synced /\ out # <<>> => Head(out).rv > position

(* Stop ends the goroutine, also one blocked on a channel nobody reads any *)
(* more.                                                                   *)
StopEndsRelay == stopCh ~> relayPC = "done"

(* When the store settles the consumer catches up with it for good.        *)
ReflectorConverges == <>[](synced /\ Shows(revision))
=============================================================================
