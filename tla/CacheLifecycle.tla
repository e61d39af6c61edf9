--------------------------- MODULE CacheLifecycle ---------------------------
(***************************************************************************)
(* cache.go's storeCache: the registry of informers, and the goroutines    *)
(* that create, start, remove and wait for them.  Any thread may call any  *)
(* method.  What runs under c.mu is one step; startInformer runs without   *)
(* it, in the thread that called GetInformer (or a reader, or IndexField)  *)
(* or in Start, and then leaves the goroutine watchInformer behind.        *)
(*                                                                         *)
(* The informer's objects are abstracted to whether the initial list was   *)
(* put into it.  CacheSync has the loop of watchInformer in full; here a   *)
(* watch opens and closes.                                                 *)
(* Left out: calls that change nothing (GetInformer of a registered kind,  *)
(* a second Start, RemoveInformer of an unknown kind) and the retries of a *)
(* watch that does not open.                                               *)
(*                                                                         *)
(* Auxiliary: starts[x] counts the calls of startInformer for x; removed   *)
(* and raced tell whether an informer was ever removed, and while it was   *)
(* being started or about to be.                                           *)
(***************************************************************************)
EXTENDS Naturals

CONSTANTS
    Gvks,         \* group-version-kinds
    Informers,    \* storeInformers; each is created at most once
    Threads,      \* goroutines using the cache, ...
    Starters, Creators, Removers, Waiters,  \* ... those that call each method
    NoInformer,
    NoKind,       \* the kind of an informer not created yet
    MaxFailures   \* bound: failing lists

ASSUME LifecycleAssumption ==
    /\ Starters \cup Creators \cup Removers \cup Waiters \subseteq Threads
    /\ NoInformer \notin Informers /\ NoKind \notin Gvks /\ MaxFailures \in Nat

VARIABLES
    informers, synced, started,  \* fields of storeCache
    done,                        \* Start's context is done
    kind, filled, stopped,       \* of an informer: gvk, objects, stopped
    loop, open, known,           \* watchInformer, its watch, and i.watcher is that watch
    pc, mine, todo, waitFor,     \* of a thread
    failures, starts, removed, raced

registry == <<informers, synced, started, done>>
loops == <<loop, open, known>>
aux == <<failures, starts, removed, raced>>
lifecycleVars == <<registry, kind, filled, stopped, loops, pc, mine, todo, waitFor, aux>>

NewCache ==
    /\ informers = [gvk \in Gvks |-> NoInformer] /\ synced = {}
    /\ started = FALSE /\ done = FALSE
    /\ kind = [x \in Informers |-> NoKind] /\ filled = {} /\ stopped = {}
    /\ loop = [x \in Informers |-> "none"] /\ open = {} /\ known = {}
    /\ pc = [t \in Threads |-> "idle"]
    /\ mine = [t \in Threads |-> NoInformer]
    /\ todo = [t \in Threads |-> {}]
    /\ waitFor = [t \in Threads |-> {}]
    /\ failures = 0 /\ starts = [x \in Informers |-> 0]
    /\ removed = FALSE /\ raced = FALSE

Goto(t, there) == pc' = [pc EXCEPT ![t] = there]
-----------------------------------------------------------------------------
(* newStoreInformer.                                                       *)
Unused == IF \E x \in Informers : kind[x] = NoKind THEN CHOOSE x \in Informers : kind[x] = NoKind
          ELSE NoInformer

Register(t, gvk, x) ==
    /\ pc[t] = "idle"
    /\ informers[gvk] = NoInformer
    /\ x = Unused
    /\ kind' = [kind EXCEPT ![x] = gvk]
    /\ informers' = [informers EXCEPT ![gvk] = x]
    /\ UNCHANGED <<synced, started, done, filled, stopped, loops, todo, waitFor, aux>>

(* The kind has no informer: register a new one, which this thread has to  *)
(* start if the cache was started before.                                  *)
getOrCreateInformer(t, gvk, x) ==
    /\ Register(t, gvk, x)
    /\ IF started THEN /\ Goto(t, "check")
                       /\ mine' = [mine EXCEPT ![t] = x]
       ELSE UNCHANGED <<pc, mine>>

StartAgain(t) ==  \* mutant
    /\ pc[t] = "idle"
    /\ started' = TRUE
    /\ todo' = [todo EXCEPT ![t] = {informers[gvk] : gvk \in Gvks} \ {NoInformer}]
    /\ Goto(t, "Start")
    /\ UNCHANGED <<informers, synced, done, kind, filled, stopped, loops, mine, waitFor, aux>>

(* Start takes over the informers there are ...                            *)
Start(t) ==
    /\ pc[t] = "idle" /\ ~started
    /\ started' = TRUE
    /\ todo' = [todo EXCEPT ![t] = {informers[gvk] : gvk \in Gvks} \ {NoInformer}]
    /\ Goto(t, "Start")
    /\ UNCHANGED <<informers, synced, done, kind, filled, stopped, loops, mine, waitFor, aux>>

(* startInformer, up to its List.                                          *)
Begin(t, x) ==
    /\ mine' = [mine EXCEPT ![t] = x]
    /\ starts' = [starts EXCEPT ![x] = @ + 1]
    /\ UNCHANGED <<registry, kind, filled, stopped, loops, waitFor, failures, removed, raced>>

(* ... starts them one after the other, ...                                *)
StartNext(t, x) ==
    /\ pc[t] = "Start" /\ x \in todo[t]
    /\ todo' = [todo EXCEPT ![t] = @ \ {x}]
    /\ Goto(t, "Start list")
    /\ Begin(t, x)

(* ... and waits for its context.                                          *)
StartReturns(t) ==
    /\ pc[t] = "Start" /\ todo[t] = {} /\ done
    /\ Goto(t, "idle")
    /\ UNCHANGED <<registry, kind, filled, stopped, loops, mine, todo, waitFor, aux>>

CheckContext(t) ==
    /\ pc[t] = "check" /\ ~done
    /\ Goto(t, "list")
    /\ UNCHANGED todo
    /\ Begin(t, mine[t])

CacheStopped(t) ==
    /\ pc[t] = "check" /\ done
    /\ Goto(t, "undo")
    /\ UNCHANGED <<registry, kind, filled, stopped, loops, mine, todo, waitFor, aux>>
-----------------------------------------------------------------------------
(* The rest of startInformer, in GetInformer and in Start.                 *)
ListAndAdd(t) ==
    /\ pc[t] \in {"list", "Start list"}
    /\ filled' = filled \cup {mine[t]}
    /\ Goto(t, IF pc[t] = "list" THEN "mark" ELSE "Start mark")
    /\ UNCHANGED <<registry, kind, stopped, loops, mine, todo, waitFor, aux>>

(* Start gives up what it has not started yet.                             *)
ListFails(t) ==
    /\ pc[t] \in {"list", "Start list"} /\ failures < MaxFailures
    /\ failures' = failures + 1
    /\ IF pc[t] = "list" THEN Goto(t, "undo") /\ UNCHANGED <<mine, todo>>
       ELSE /\ Goto(t, "idle")
            /\ mine' = [mine EXCEPT ![t] = NoInformer]
            /\ todo' = [todo EXCEPT ![t] = {}]
    /\ UNCHANGED <<registry, kind, filled, stopped, loops, waitFor, starts, removed, raced>>

MarkInStartOnly(t) ==  \* mutant
    /\ pc[t] \in {"mark", "Start mark"}
    /\ synced' = IF pc[t] = "mark" THEN synced ELSE synced \cup {kind[mine[t]]}
    /\ loop' = [loop EXCEPT ![mine[t]] = "check"]
    /\ mine' = [mine EXCEPT ![t] = NoInformer]
    /\ Goto(t, IF pc[t] = "mark" THEN "idle" ELSE "Start")
    /\ UNCHANGED <<informers, started, done, kind, filled, stopped, open, known, todo, waitFor, aux>>

(* Marks the kind, then the informer, and leaves watchInformer to run.     *)
MarkSynced(t) ==
    /\ pc[t] \in {"mark", "Start mark"}
    /\ synced' = synced \cup {kind[mine[t]]}
    /\ loop' = [loop EXCEPT ![mine[t]] = "check"]
    /\ mine' = [mine EXCEPT ![t] = NoInformer]
    /\ Goto(t, IF pc[t] = "mark" THEN "idle" ELSE "Start")
    /\ UNCHANGED <<informers, started, done, kind, filled, stopped, open, known, todo, waitFor, aux>>

(* GetInformer returns the error, after deleting the kind's informer,      *)
(* whichever it is by now.                                                 *)
Undo(t) ==
    /\ pc[t] = "undo"
    /\ informers' = [informers EXCEPT ![kind[mine[t]]] = NoInformer]
    /\ mine' = [mine EXCEPT ![t] = NoInformer]
    /\ Goto(t, "idle")
    /\ UNCHANGED <<synced, started, done, kind, filled, stopped, loops, todo, waitFor, aux>>

(* A thread starts x or is going to.                                       *)
Claims(t, x) == x \in todo[t] \/ mine[t] = x

RemoveKeepsSynced(t, gvk) ==  \* mutant
    LET x == informers[gvk]
    IN  /\ pc[t] = "idle" /\ x # NoInformer
        /\ stopped' = stopped \cup {x}
        /\ open' = IF x \in known THEN open \ {x} ELSE open
        /\ informers' = [informers EXCEPT ![gvk] = NoInformer]
        /\ removed' = TRUE
        /\ raced' = (raced \/ \E s \in Threads : Claims(s, x))
        /\ UNCHANGED <<synced, started, done, kind, filled, loop, known, pc, mine, todo, waitFor, failures, starts>>

RemoveInformer(t, gvk) ==
    LET x == informers[gvk]
    IN  /\ pc[t] = "idle" /\ x # NoInformer
        /\ stopped' = stopped \cup {x}
        /\ open' = IF x \in known THEN open \ {x} ELSE open
        /\ informers' = [informers EXCEPT ![gvk] = NoInformer]
        /\ synced' = synced \ {gvk}
        /\ removed' = TRUE
        /\ raced' = (raced \/ \E s \in Threads : Claims(s, x))
        /\ UNCHANGED <<started, done, kind, filled, loop, known, pc, mine, todo, waitFor, failures, starts>>
-----------------------------------------------------------------------------
WaitForCacheSync(t) ==
    /\ pc[t] = "idle"
    /\ waitFor' = [waitFor EXCEPT ![t] = {gvk \in Gvks : informers[gvk] # NoInformer}]
    /\ Goto(t, "wait")
    /\ UNCHANGED <<registry, kind, filled, stopped, loops, mine, todo, aux>>

AllSynced(t) ==
    /\ pc[t] = "wait" /\ waitFor[t] \subseteq synced
    /\ waitFor' = [waitFor EXCEPT ![t] = {}]
    /\ Goto(t, "idle")
    /\ UNCHANGED <<registry, kind, filled, stopped, loops, mine, todo, aux>>

(* The context of WaitForCacheSync is done.                                *)
GiveUp(t) ==
    /\ pc[t] = "wait"
    /\ waitFor' = [waitFor EXCEPT ![t] = {}]
    /\ Goto(t, "idle")
    /\ UNCHANGED <<registry, kind, filled, stopped, loops, mine, todo, aux>>

Cancel ==
    /\ ~done
    /\ done' = TRUE
    /\ UNCHANGED <<informers, synced, started, kind, filled, stopped, loops, pc, mine, todo, waitFor, aux>>
-----------------------------------------------------------------------------
(* watchInformer.  It looks at its context, not at `stopped'.              *)
LoopStep(x, from, to) ==
    /\ loop[x] = from
    /\ loop' = [loop EXCEPT ![x] = to]
    /\ UNCHANGED <<registry, kind, filled, stopped, pc, mine, todo, waitFor, aux>>

LoopEnds(x) == done /\ LoopStep(x, "check", "ended") /\ UNCHANGED <<open, known>>

(* The store has opened the watch; i.watcher is still the one before.      *)
OpenWatch(x) ==
    /\ ~done
    /\ LoopStep(x, "check", "set")
    /\ open' = open \cup {x} /\ known' = known \ {x}

setWatcher(x) == LoopStep(x, "set", "events") /\ known' = known \cup {x} /\ UNCHANGED open

WatchEnded(x) == x \notin open /\ LoopStep(x, "events", "check") /\ UNCHANGED <<open, known>>

LeaveOpen(x) ==  \* mutant
    done /\ LoopStep(x, "events", "ended") /\ UNCHANGED <<open, known>>

(* ctx.Done in the event loop: stop the watcher.                           *)
LoopDone(x) == done /\ LoopStep(x, "events", "ended") /\ open' = open \ {x} /\ UNCHANGED known

(* The backend closes the channel of a slow consumer.                      *)
Overflow(x) ==
    /\ x \in open
    /\ open' = open \ {x}
    /\ UNCHANGED <<registry, kind, filled, stopped, loop, known, pc, mine, todo, waitFor, aux>>

Calls(t) ==
    \/ t \in Starters /\ Start(t)
    \/ t \in Creators /\ \E gvk \in Gvks, x \in Informers : getOrCreateInformer(t, gvk, x)
    \/ t \in Removers /\ \E gvk \in Gvks : RemoveInformer(t, gvk)
    \/ t \in Waiters /\ WaitForCacheSync(t)
    \/ GiveUp(t)

(* What a thread inside a call goes on to do.                              *)
Proceeds(t) ==
    \/ \E x \in Informers : StartNext(t, x)
    \/ StartReturns(t) \/ CheckContext(t) \/ CacheStopped(t)
    \/ ListAndAdd(t) \/ MarkSynced(t) \/ Undo(t) \/ AllSynced(t)

watchInformer(x) == LoopEnds(x) \/ OpenWatch(x) \/ setWatcher(x) \/ WatchEnded(x) \/ LoopDone(x)

LifecycleNext ==
    \/ \E t \in Threads : Calls(t) \/ Proceeds(t) \/ ListFails(t)
    \/ \E x \in Informers : watchInformer(x) \/ Overflow(x)
    \/ Cancel

(* Goroutines that can run do; nobody owes a call, a failure or a cancel.  *)
LifecycleSpec ==
    /\ NewCache /\ [][LifecycleNext]_lifecycleVars
    /\ \A t \in Threads : WF_lifecycleVars(Proceeds(t))
    /\ \A x \in Informers : WF_lifecycleVars(watchInformer(x))
-----------------------------------------------------------------------------
LifecycleTypeOK ==
    /\ informers \in [Gvks -> Informers \cup {NoInformer}]
    /\ synced \subseteq Gvks /\ started \in BOOLEAN /\ done \in BOOLEAN
    /\ kind \in [Informers -> Gvks \cup {NoKind}]
    /\ filled \subseteq Informers /\ stopped \subseteq Informers
    /\ loop \in [Informers -> {"none", "check", "set", "events", "ended"}]
    /\ open \subseteq Informers /\ known \subseteq Informers
    /\ pc \in [Threads -> {"idle", "Start", "check", "list", "mark", "undo", "wait",
                           "Start list", "Start mark"}]
    /\ mine \in [Threads -> Informers \cup {NoInformer}]
    /\ todo \in [Threads -> SUBSET Informers]
    /\ waitFor \in [Threads -> SUBSET Gvks]
    /\ failures \in Nat /\ starts \in [Informers -> Nat] /\ removed \in BOOLEAN /\ raced \in BOOLEAN

(* Between Start, which takes over the informers it finds, and GetInformer,*)
(* which starts its own if it finds the cache started, every informer has  *)
(* one starter: none is started twice, and none of a started cache is left *)
(* in the registry with nobody to start it, unless a List failed (Start,   *)
(* getOrCreateInformer).                                                   *)
StartedOnce ==
    \A x \in Informers :
        /\ starts[x] <= 1
        /\ \A gvk \in Gvks : started /\ informers[gvk] = x =>
              starts[x] = 1 \/ failures > 0 \/ \E t \in Threads : Claims(t, x)

(* WaitForCacheSync is told the truth: the informer of a kind marked as    *)
(* synced has its initial list, through failed starts and removals, unless *)
(* an informer was removed while it was being started: its start then      *)
(* marks the kind, for an informer that may be created later               *)
(* (startInformer, RemoveInformer).                                        *)
SyncedMeansFilled ==
    ~raced => \A gvk \in Gvks : gvk \in synced /\ informers[gvk] # NoInformer => informers[gvk] \in filled

(* WaitForCacheSync returns: once the cache was started every kind it      *)
(* waits for gets synced, whenever its informer was registered, unless an  *)
(* informer is removed, a List fails or Start's context is done.           *)
WaitReturns ==
    \A t \in Threads :
        pc[t] = "wait" /\ started ~> pc[t] # "wait" \/ removed \/ failures > 0 \/ done

(* Cancelling Start's context ends every watchInformer, those of removed   *)
(* and of newly created informers included, and leaves no watch open.      *)
CancelEndsWatches ==
    <>[](done => open = {} /\ \A x \in Informers : loop[x] \in {"none", "ended"})
=============================================================================
