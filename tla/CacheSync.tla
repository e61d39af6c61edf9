----------------------------- MODULE CacheSync -----------------------------
(***************************************************************************)
(* cache.go's startInformer, watchInformer and relistInformer over the     *)
(* memory backend: the goroutine that fills the cache of one kind, follows *)
(* a watch, reconnects when the watch is closed and relists when its       *)
(* revision is too old.  The cached objects change only in this goroutine; *)
(* the store's actions interleave with its steps.                          *)
(*                                                                         *)
(* Left out: the amount of time the loop sleeps between attempts, and      *)
(* errors of List and of Watch other than RevisionTooOldError (the memory  *)
(* backend returns none for a registered type).                            *)
(***************************************************************************)
EXTENDS MemoryStore, InformerOps

CONSTANTS
    InformerKind,  \* the kind the informer caches
    Watcher        \* the slot of the informer's watcher

ASSUME InformerAssumption == InformerKind \in Kinds /\ Watcher \in Watchers

VARIABLES
    pc,        \* where the goroutine is
    lastRV,    \* watchInformer's lastRV
    listing,   \* the list it has fetched and not applied yet
    cached     \* informer.objects

informerVars == <<pc, lastRV, listing, cached>>
syncVars == <<vars, informerVars>>

NoListing == [items |-> {}, rv |-> 0]

SyncInit ==
    /\ NewStore
    /\ pc = "list"
    /\ lastRV = 0
    /\ listing = NoListing
    /\ cached = NoObjects
-----------------------------------------------------------------------------
(* startInformer: list, add the items one by one, then start the watch     *)
(* from the list's resourceVersion.                                        *)
InitialList ==
    /\ pc = "list"
    /\ listing' = List(InformerKind, Selector)
    /\ pc' = "fill"
    /\ UNCHANGED <<vars, lastRV, cached>>

InitialAdd ==
    /\ pc = "fill"
    /\ \E obj \in listing.items :
          /\ listing' = [listing EXCEPT !.items = @ \ {obj}]
          /\ cached' = add(cached, obj).objects
    /\ UNCHANGED <<vars, pc, lastRV>>

InitialSynced ==
    /\ pc = "fill"
    /\ listing.items = {}
    /\ lastRV' = listing.rv
    /\ listing' = NoListing
    /\ pc' = "watch"
    /\ UNCHANGED <<vars, cached>>

OpenLiveWatch ==  \* mutant
    /\ pc = "watch"
    /\ ~TooOld(lastRV)
    /\ WatchLive(Watcher, InformerKind)
    /\ pc' = "events"
    /\ UNCHANGED <<dataVars, lastRV, listing, cached>>

(* watchInformer: open a watch from lastRV.                                *)
OpenWatch ==
    /\ pc = "watch"
    /\ WatchFrom(Watcher, InformerKind, lastRV, Selector)
    /\ pc' = "events"
    /\ UNCHANGED <<dataVars, lastRV, listing, cached>>

(* RevisionTooOldError: relistInformer fetches a list ...                  *)
RelistFetch ==
    /\ pc = "watch"
    /\ TooOld(lastRV)
    /\ listing' = List(InformerKind, Selector)
    /\ pc' = "relist"
    /\ UNCHANGED <<vars, lastRV, cached>>

(* ... and applies it; the loop goes on from the list's resourceVersion.   *)
RelistApply ==
    /\ pc = "relist"
    /\ cached' = replaceAll(cached, listing.items).objects
    /\ lastRV' = listing.rv
    /\ listing' = NoListing
    /\ pc' = "watch"
    /\ UNCHANGED vars

(* The event loop takes one event.                                         *)
HandleEvent ==
    LET event == Head(watch[Watcher].ch)
    IN  /\ pc = "events"
        /\ Recv(Watcher)
        /\ lastRV' = IF event.obj.rv > lastRV THEN event.obj.rv ELSE lastRV
        /\ cached' = Dispatch(cached, event).objects
        /\ UNCHANGED <<dataVars, pc, listing>>

(* The channel is closed and drained: Stop the watcher and go round.       *)
StopWatch ==
    /\ pc = "events"
    /\ watch[Watcher].closed /\ watch[Watcher].ch = <<>>
    /\ StopClose(Watcher)
    /\ pc' = "stopping"
    /\ UNCHANGED <<dataVars, lastRV, listing, cached>>

Reconnect ==
    /\ pc = "stopping"
    /\ removeWatcher(Watcher)
    /\ pc' = "watch"
    /\ UNCHANGED <<dataVars, lastRV, listing, cached>>

Informer ==
    \/ InitialList \/ InitialAdd \/ InitialSynced
    \/ OpenWatch \/ RelistFetch \/ RelistApply
    \/ HandleEvent \/ StopWatch \/ Reconnect

Writers == AcceptedWrites /\ UNCHANGED informerVars

SyncNext == Writers \/ Informer

(* The goroutine keeps running and its timers fire; writers owe nothing.   *)
SyncSpec == SyncInit /\ [][SyncNext]_syncVars /\ WF_syncVars(Informer)
-----------------------------------------------------------------------------
Visible(obj) == IF obj # NoObject /\ matchesSelectors(obj) THEN obj ELSE NoObject

(* The cache is a snapshot: at every step of the loop it holds exactly the *)
(* objects of the store at one revision, lastRV, across overflows,         *)
(* reconnections and relists (startInformer, watchInformer, replaceAll).   *)
CacheAtLastRV ==
    pc \notin {"list", "fill"} => \A key \in Keys : cached[key] = Visible(StateAt(InformerKind, key, lastRV))

(* With nothing left to receive on an open watch, the cache is the store.  *)
CaughtUpCacheIsStore ==
    pc = "events" /\ watch[Watcher].ch = <<>> /\ ~watch[Watcher].closed =>
        \A key \in Keys : cached[key] = Visible(objects[InformerKind][key])

(* Once writers pause for good, the cache becomes and stays equal to the   *)
(* store, however often the watch was closed or its revision compacted.    *)
CacheConverges ==
    <>[](\A key \in Keys : cached[key] = Visible(objects[InformerKind][key]))
=============================================================================
