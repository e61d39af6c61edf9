--------------------------- MODULE PostgresCache ---------------------------
(***************************************************************************)
(* cache.go's watchInformer over the PostgreSQL backend: the cache of one  *)
(* kind in one ShardedStore, resuming watches by resourceVersion.          *)
(*                                                                         *)
(* A list carries the bucket's sequence number and an event its object's   *)
(* own version, and lastRV takes both for positions in the bucket.  The    *)
(* backend adds a condition of its own to each watch: the compaction       *)
(* horizon, checked before the watch opens.                                *)
(*                                                                         *)
(* The driver's poll is external: one snapshot of the rows past its        *)
(* position, in order; it ends the stream when the timeline has changed or *)
(* its position was compacted, and takes position 0 for the start of the   *)
(* bucket whatever the horizon.  A row is Added when its version is 1.     *)
(* Left out: the order in which a list's items are added (CacheSync has    *)
(* it), and the capacity of watchBridge's channel.                         *)
(***************************************************************************)
EXTENDS PostgresStore, InformerOps

VARIABLES
    timeline,               \* cluster_epoch
    clusterEpoch,           \* the highest timeline the store's lists have seen
    pc, lastRV, cached,     \* watchInformer
    open, position, epoch,  \* the driver's poll, and the RV it started from
    out                     \* watchBridge.out

pollVars == <<open, position, epoch>>
cacheVars == <<pc, lastRV, cached, pollVars, out>>
pgCacheVars == <<pgVars, timeline, clusterEpoch, cacheVars>>

Init ==
    /\ NewDatabase
    /\ timeline = 1 /\ clusterEpoch = 0
    /\ pc = IF deployment.informer THEN "list" ELSE "off"
    /\ lastRV = 0 /\ cached = NoObjects
    /\ open = FALSE /\ position = 0 /\ epoch = 0
    /\ out = <<>>

Live(key) == IF rows[key] = NoObject \/ rows[key].deleted THEN NoObject ELSE rows[key].obj

(* List: the live rows, and the bucket's sequence number.                  *)
Items == {Live(key) : key \in Keys} \ {NoObject}

SeenEpoch == IF clusterEpoch > timeline THEN clusterEpoch ELSE timeline
-----------------------------------------------------------------------------
(* startInformer.                                                          *)
InitialList ==
    /\ pc = "list"
    /\ cached' = [key \in Keys |-> Live(key)]
    /\ lastRV' = current_seq
    /\ clusterEpoch' = SeenEpoch
    /\ pc' = "watch"
    /\ UNCHANGED <<pgVars, timeline, pollVars, out>>

HorizonUnchecked(hwm) == TRUE  \* mutant

(* checkCompactionHorizon finds nothing against the revision.              *)
checkCompactionHorizon(hwm) == hwm = 0 \/ hwm > horizon

OpenWatch ==
    /\ pc = "watch"
    /\ open' = TRUE /\ position' = lastRV /\ epoch' = clusterEpoch
    /\ pc' = "events"
    /\ UNCHANGED <<timeline, clusterEpoch, lastRV, cached, out>>

Watch == checkCompactionHorizon(lastRV) /\ OpenWatch /\ UNCHANGED pgVars

Fault ==
    /\ faults < deployment.faults
    /\ faults' = faults + 1
    /\ UNCHANGED <<tables, now, leaseVars, call, lastGrant>>

(* The horizon cannot be read: the watch opens all the same.               *)
WatchUnchecked == OpenWatch /\ Fault

RevisionTooOld ==
    /\ pc = "watch"
    /\ ~checkCompactionHorizon(lastRV)
    /\ pc' = "relist"
    /\ UNCHANGED <<pgVars, timeline, clusterEpoch, lastRV, cached, pollVars, out>>

relistInformer ==
    /\ pc = "relist"
    /\ cached' = replaceAll(cached, Items).objects
    /\ lastRV' = current_seq
    /\ clusterEpoch' = SeenEpoch
    /\ pc' = "watch"
    /\ UNCHANGED <<pgVars, timeline, pollVars, out>>

ResumeAtPosition(obj) == position  \* mutant

(* The event loop, and the version it resumes from.                        *)
Resume(obj) == IF obj.rv > lastRV THEN obj.rv ELSE lastRV

HandleEvent ==
    /\ pc = "events" /\ out # <<>>
    /\ lastRV' = Resume(Head(out).obj)
    /\ cached' = Dispatch(cached, Head(out)).objects
    /\ out' = Tail(out)
    /\ UNCHANGED <<pgVars, timeline, clusterEpoch, pc, pollVars>>

Reconnect ==
    /\ pc = "events" /\ out = <<>> /\ ~open
    /\ pc' = "watch"
    /\ UNCHANGED <<pgVars, timeline, clusterEpoch, lastRV, cached, pollVars, out>>
-----------------------------------------------------------------------------
(* The driver's poll, and watchBridge's translation of its events.         *)
Gone == epoch # timeline \/ (0 < position /\ position < horizon)

News == {key \in Keys : rows[key] # NoObject /\ rows[key].seq > position}

translate(key) ==
    [type |-> IF rows[key].deleted THEN "DELETED" ELSE IF rows[key].obj.rv = 1 THEN "ADDED" ELSE "MODIFIED",
     obj |-> rows[key].obj]

Poll ==
    /\ open /\ ~Gone
    /\ \E n \in 1..current_seq : \E inOrder \in [1..n -> News] :
          /\ \A key \in News : \E i \in 1..n : inOrder[i] = key
          /\ \A i, j \in 1..n : i < j => rows[inOrder[i]].seq < rows[inOrder[j]].seq
          /\ position' = rows[inOrder[n]].seq
          /\ out' = out \o [i \in 1..n |-> translate(inOrder[i])]
    /\ UNCHANGED <<pgVars, timeline, clusterEpoch, pc, lastRV, cached, open, epoch>>

PollGone ==
    /\ open /\ Gone
    /\ open' = FALSE
    /\ UNCHANGED <<pgVars, timeline, clusterEpoch, pc, lastRV, cached, position, epoch, out>>

PollFails ==
    /\ open
    /\ open' = FALSE
    /\ Fault
    /\ UNCHANGED <<timeline, clusterEpoch, pc, lastRV, cached, position, epoch, out>>

(* A standby takes over, with all that was committed.                      *)
Failover ==
    /\ pc # "off"
    /\ timeline' = timeline + 1
    /\ Fault
    /\ UNCHANGED <<clusterEpoch, cacheVars>>

(* Anybody else lists through the same store.                              *)
ListElsewhere ==
    /\ pc # "off"
    /\ clusterEpoch' = SeenEpoch
    /\ UNCHANGED <<pgVars, timeline, cacheVars>>

Informer == InitialList \/ Watch \/ RevisionTooOld \/ relistInformer \/ HandleEvent \/ Reconnect
Driver == Poll \/ PollGone
Faults == WatchUnchecked \/ PollFails \/ Failover

Next ==
    \/ PgNext /\ UNCHANGED <<timeline, clusterEpoch, cacheVars>>
    \/ Informer \/ Driver \/ Faults \/ ListElsewhere

(* The informer's goroutine runs and the poll's timer fires.               *)
Spec == Init /\ [][Next]_pgCacheVars /\ WF_pgCacheVars(Informer) /\ WF_pgCacheVars(Driver)
-----------------------------------------------------------------------------
(* An object's version never exceeds the sequence number of its write, so  *)
(* lastRV, the highest version seen, is a safe place to resume: a key the  *)
(* cache is behind on has a row past lastRV, which the next watch sends    *)
(* again, or lastRV is within the horizon and the cache relists.  No       *)
(* reconnection, failover or compaction makes the cache skip a change for  *)
(* good (watchInformer's lastRV, checkCompactionHorizon).                  *)
ResumeNeverSkips ==
    pc \notin {"off", "list"} => \A key \in Keys : cached[key] # Live(key) =>
        \/ rows[key] # NoObject /\ rows[key].seq > lastRV
        \/ lastRV # 0 /\ lastRV <= horizon

(* Once writers and faults stop, the cache becomes and stays equal to the  *)
(* live rows, unless the timeline has changed since the store last listed: *)
(* the end of the stream is then not turned into a RevisionTooOldError,    *)
(* and the cache goes on asking for the old timeline.                      *)
PgCacheConverges == <>[](pc = "off" \/ clusterEpoch < timeline \/ \A key \in Keys : cached[key] = Live(key))

(* A revision that is too old costs a relist, after which a watch opens.   *)
RelistEnds == pc = "relist" ~> pc = "events"
=============================================================================
