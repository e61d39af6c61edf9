------------------------------ MODULE WatchLog ------------------------------
(***************************************************************************)
(* The revision counter, the bounded event log and the watchers of a       *)
(* backend (memory/store.go and memory/watcher.go; the filesystem backend  *)
(* repeats the same code).                                                 *)
(*                                                                         *)
(* Mutations and Watch run under the store's mutex s.mu.  What interleaves *)
(* with them is what does not take it: a consumer receiving from its       *)
(* channel, and the first half of Watcher.Stop.                            *)
(*                                                                         *)
(* Auxiliary: `history' is every event the store has emitted, and the      *)
(* field `cursor' of a watch the last revision its consumer has received   *)
(* (where the watch started, before the first).  No guard reads them.      *)
(***************************************************************************)
EXTENDS StoreTypes, FiniteSets

CONSTANTS
    Watchers,     \* watcher slots; a slot is reused after Stop returned
    EventLogMax,  \* eventLogMax, WithEventLogSize
    BufSize       \* the channel capacity Watch starts from (100 in the code)

ASSUME WatchLogAssumption == EventLogMax \in Nat /\ BufSize \in Nat \ {0}

VARIABLES
    revision,     \* the global revision counter
    eventLog,     \* the most recent events, oldest first
    watchers,     \* GVK -> registered watchers
    watch,        \* watcher slot -> the memoryWatcher in it
    history

logVars == <<revision, eventLog, history>>
watchVars == <<watchers, watch>>

(* `stage' is how far the consumer's Stop has come; `sel' is the label     *)
(* selector of the Watch call (an empty set selects everything).           *)
memoryWatcher == [stage : {"free", "open", "stopping", "stopped"}, gvk : Kinds,
                  sel : SUBSET Labels, ch : Seq(Event), cap : Nat,
                  closed : BOOLEAN, cursor : Nat]

NewWatchers == [gvk \in Kinds |-> {}]

NoWatch == [w \in Watchers |->
              [stage |-> "free", gvk |-> CHOOSE gvk \in Kinds : TRUE, sel |-> {},
               ch |-> <<>>, cap |-> 0, closed |-> FALSE, cursor |-> 0]]

NewLog ==
    /\ revision = 0
    /\ eventLog = <<>>
    /\ watchers = NewWatchers
    /\ watch = NoWatch
    /\ history = <<>>
-----------------------------------------------------------------------------
(* A label selector with the keys sel matches objects that carry them all. *)
Matches(sel, obj) == sel \subseteq obj.labels

DropWhenFull(w, event) ==  \* mutant
    IF ~w.closed /\ Len(w.ch) < w.cap THEN [w EXCEPT !.ch = Append(@, event)] ELSE w

(* Sends to a full channel close it, so that the consumer reconnects.      *)
send(w, event) ==
    IF w.closed THEN w
    ELSE IF Len(w.ch) < w.cap THEN [w EXCEPT !.ch = Append(@, event)]
    ELSE [w EXCEPT !.closed = TRUE]

notifyWatchers(gvk, event) ==
    LET active == {w \in watchers[gvk] : ~watch[w].closed}
    IN  /\ watchers' = [watchers EXCEPT ![gvk] = active]
        /\ watch' = [w \in Watchers |->
                       IF w \in active THEN send(watch[w], event) ELSE watch[w]]

TrimNewest(log) ==  \* mutant
    IF Len(log) > EventLogMax THEN SubSeq(log, 1, EventLogMax) ELSE log

(* The log with an entry appended and cut to its newest EventLogMax.       *)
Trimmed(log) ==
    IF Len(log) > EventLogMax THEN SubSeq(log, Len(log) - EventLogMax + 1, Len(log)) ELSE log

logEvent(entry) ==
    /\ eventLog' = Trimmed(Append(eventLog, entry))
    /\ history' = Append(history, entry)

(* The tail every mutation shares: take the next revision, log the event   *)
(* and notify the watchers.                                                *)
Emit(gvk, type, obj) ==
    LET event == [type |-> type, obj |-> obj]
    IN  /\ revision' = revision + 1
        /\ logEvent([revision |-> revision + 1, gvk |-> gvk, event |-> event])
        /\ notifyWatchers(gvk, event)
-----------------------------------------------------------------------------
TooOldEarly(from) ==  \* mutant
    /\ from < revision
    /\ eventLog = <<>> \/ from < eventLog[1].revision

(* eventsSince's RevisionTooOldError.                                      *)
TooOld(from) ==
    /\ from < revision
    /\ eventLog = <<>> \/ from + 1 < eventLog[1].revision

SinceInclusive(from, gvk) ==  \* mutant
    {i \in DOMAIN eventLog : eventLog[i].revision >= from /\ eventLog[i].gvk = gvk}

(* The log entries eventsSince goes through that it returns.               *)
Since(from, gvk) ==
    {i \in DOMAIN eventLog : eventLog[i].revision > from /\ eventLog[i].gvk = gvk}

(* eventsSince's events, when it returns no error.                         *)
eventsSince(from, gvk) ==
    IF from >= revision THEN <<>>
    ELSE LET entries == Pick(eventLog, Since(from, gvk))
         IN  [i \in DOMAIN entries |-> entries[i].event]

(* A label selector filters the replayed events, not the live ones.        *)
filterReplay(replay, sel) ==
    Pick(replay, {i \in DOMAIN replay : Matches(sel, replay[i].obj)})

chanCapFixed(replay) == BufSize  \* mutant

chanCap(replay) ==
    IF Len(replay) > BufSize THEN Len(replay) + BufSize ELSE BufSize

(* Preloads the replay and registers the watcher in one critical section.  *)
openWatch(w, gvk, sel, replay, cursor) ==
    /\ watch[w].stage \in {"free", "stopped"}
    /\ watch' = [watch EXCEPT ![w] =
                   [stage |-> "open", gvk |-> gvk, sel |-> sel, ch |-> replay,
                    cap |-> chanCap(replay), closed |-> FALSE, cursor |-> cursor]]
    /\ watchers' = [watchers EXCEPT ![gvk] = @ \cup {w}]
    /\ UNCHANGED logVars

(* Watch with WatchFromRevision(from).                                     *)
WatchFrom(w, gvk, from, sel) ==
    /\ ~TooOld(from)
    /\ openWatch(w, gvk, sel, filterReplay(eventsSince(from, gvk), sel), from)

(* Watch without WatchFromRevision: live events only.                      *)
WatchLive(w, gvk) ==
    openWatch(w, gvk, {}, <<>>, revision)

(* The consumer takes the next event from its channel.                     *)
Recv(w) ==
    /\ watch[w].stage # "free"
    /\ watch[w].ch # <<>>
    /\ watch' = [watch EXCEPT ![w].ch = Tail(@), ![w].cursor = Head(watch[w].ch).obj.rv]
    /\ UNCHANGED <<logVars, watchers>>

(* Stop, first half: close the channel under w.mu.                         *)
StopClose(w) ==
    /\ watch[w].stage = "open"
    /\ watch' = [watch EXCEPT ![w].stage = "stopping", ![w].closed = TRUE]
    /\ UNCHANGED <<logVars, watchers>>

removeLazily(w) ==  \* mutant
    /\ watch[w].stage = "stopping"
    /\ watch' = [watch EXCEPT ![w].stage = "stopped"]
    /\ UNCHANGED <<logVars, watchers>>

(* Stop, second half: removeWatcher under s.mu.                            *)
removeWatcher(w) ==
    /\ watch[w].stage = "stopping"
    /\ watch' = [watch EXCEPT ![w].stage = "stopped"]
    /\ watchers' = [watchers EXCEPT ![watch[w].gvk] = @ \ {w}]
    /\ UNCHANGED logVars

Consume ==
    \E w \in Watchers :
        \/ \E gvk \in Kinds, from \in 0..revision, sel \in SUBSET Labels : WatchFrom(w, gvk, from, sel)
        \/ \E gvk \in Kinds : WatchLive(w, gvk)
        \/ Recv(w)
        \/ StopClose(w)
        \/ removeWatcher(w)
-----------------------------------------------------------------------------
LogTypeOK ==
    /\ revision \in Nat
    /\ eventLog \in Seq(eventLogEntry)
    /\ watchers \in [Kinds -> SUBSET Watchers]
    /\ watch \in [Watchers -> memoryWatcher]
    /\ history \in Seq(eventLogEntry)

(* The event log is the most recent part of the history, however often it  *)
(* was trimmed, in the order of its revisions: eventsSince decides from    *)
(* the oldest entry alone whether a revision can be resumed (logEvent).    *)
LogIsRecentHistory ==
    /\ \A i, j \in DOMAIN history : i < j => history[i].revision < history[j].revision
    /\ \A i \in DOMAIN history :
          history[i].revision <= revision /\ history[i].event.obj.rv = history[i].revision
    /\ Len(eventLog) = IF Len(history) < EventLogMax THEN Len(history) ELSE EventLogMax
    /\ \A i \in DOMAIN eventLog : eventLog[i] = history[Len(history) - Len(eventLog) + i]

(* The events of the history that a watch of gvk from a revision is due.   *)
Due(gvk, from) == {i \in DOMAIN history : history[i].revision > from /\ history[i].gvk = gvk}

(* Strictly increasing resourceVersions.                                   *)
InOrder(events) == \A i, j \in DOMAIN events : i < j => events[i].obj.rv < events[j].obj.rv

(* Resumption is exact.  RevisionTooOldError only when a revision after    *)
(* the one asked for is not in the log any more; otherwise every event of  *)
(* the kind after it, once each and in revision order (eventsSince).       *)
EventsSinceExact ==
    \A from \in 0..revision :
        /\ TooOld(from) => \E r \in (from + 1)..revision :
                              \A i \in DOMAIN eventLog : eventLog[i].revision # r
        /\ ~TooOld(from) =>
             \A gvk \in Kinds :
                LET events == eventsSince(from, gvk)
                IN  /\ {events[i] : i \in DOMAIN events} = {history[i].event : i \in Due(gvk, from)}
                    /\ InOrder(events)

(* What a watch still has to deliver: events of the history its consumer   *)
(* has not received yet, once each and in revision order, replayed and     *)
(* live events together (Watch, send).                                     *)
WatchOrdered ==
    \A w \in Watchers : watch[w].stage # "free" =>
        /\ \A n \in DOMAIN watch[w].ch :
              \E i \in Due(watch[w].gvk, watch[w].cursor) : watch[w].ch[n] = history[i].event
        /\ InOrder(watch[w].ch)

Buffered(w) == {watch[w].ch[n].obj.rv : n \in DOMAIN watch[w].ch}

(* No gap: no event after the consumer's position is missing from a watch  *)
(* without selector.  While the watch is open all of them are buffered;    *)
(* once it is closed, by Stop or by overflow, what is buffered is still a  *)
(* gapless run from the consumer's position, so that it can resume from    *)
(* the last revision it received (replay, registration and send).          *)
WatchNoGap ==
    \A w \in Watchers : watch[w].stage # "free" /\ watch[w].sel = {} =>
        \A i \in Due(watch[w].gvk, watch[w].cursor) :
            \/ history[i].revision \in Buffered(w)
            \/ watch[w].closed /\ \A b \in Buffered(w) : b < history[i].revision

(* The send of Watch's preload never blocks: it runs under s.mu, so a      *)
(* replay longer than the channel would stop the whole store for ever.     *)
NeverBlocksOnPreload ==
    \A w \in Watchers : Len(watch[w].ch) <= watch[w].cap

(* The registry follows the watchers: an open, unclosed watch is           *)
(* registered under its kind, and once Stop has returned no list of the    *)
(* store still holds the watcher, however Stop and notifyWatchers race.    *)
RegistryMatches ==
    \A w \in Watchers :
        /\ watch[w].stage = "open" /\ ~watch[w].closed => w \in watchers[watch[w].gvk]
        /\ watch[w].stage \in {"free", "stopped"} => \A gvk \in Kinds : w \notin watchers[gvk]
=============================================================================
