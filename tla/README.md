# storectrl in TLA+

storectrl lets controllers written against controller-runtime run on a store
that is not a Kubernetes API server. This directory models its backends, its
client and its cache, checks the models with TLC on small instances, and proves
with TLAPS for all instances: the data and watch rules of the in-memory
backend and that it implements the Store contract; that the cache over it is
always a snapshot of it; that the informer's index, queue and handlers follow
the cache; that a consumer of the ListerWatcher adapters follows the store; what
the files of the filesystem backend and its watches keep through failures and
crashes; the lease protocol of the Postgres backend and that a cache over it
skips nothing; and the start of informers.

## 1. The system

| Part | Code | State | Operations |
| --- | --- | --- | --- |
| Store contract | `store.go`, `object.go`, `watcher.go` | none | the rules every backend follows: one revision counter, optimistic concurrency, status written apart from spec, watches that resume without a gap |
| Memory backend | `memory/` | objects by kind and key, revision and UID counters, bounded event log, registered watchers | Create, Update, UpdateStatus, Delete, Get, List, Watch, Stop |
| Filesystem backend | `filesystem/` | one JSON file per object, `.revision`, `.uid-counter`; event log and watchers in memory | the same, each writing several files; restart |
| Postgres backend | `postgres/` | tables: rows with their sequence numbers, a counter and a compaction horizon per bucket, a lease per domain (spec, status); in each instance the epochs of its leases and the highest cluster epoch seen | acquire, renew and release both leases; the writes through the stored procedure `pgctl_write`, fenced by epoch; List; Watch, bridged from the driver's polling stream |
| Cache, stream side | `cache.go` | the cached objects, the position `lastRV`, the current watcher | initial list, watch, reconnect, relist |
| Cache, informer | `cache.go` | objects, indexes, coalescing event queue, handler list | add, update, delete, replaceAll, resync, list by index, enqueue, drain, add/remove handler |
| Cache, lifecycle | `cache.go` | the informers by kind, the synced kinds, the started flag | Start, getOrCreateInformer, RemoveInformer, WaitForCacheSync, cancellation |
| Client | `client.go` | none | delegation; Patch, Status().Patch and DeleteAllOf in several calls |
| ListerWatcher | `listerwatcher.go` | a relay goroutine and channel per watch | List, Watch, watchList with initial events and bookmark |
| Conformance suite | `storetest/` | none | tests; read here as statements about backends |

How they interact. A mutation runs under the store's mutex. It changes the
object, takes the next revision, appends to the event log and sends the event
to the channel of every registered watcher. A watcher that does not keep up is
closed, and its consumer opens a new watch from the last revision it received.
That watch is served from the event log, or refused (`RevisionTooOldError`) if
the log was trimmed past that revision. One goroutine per informer does this
for the cache, and relists when it is refused. Each change of the cache is put
in a queue that merges events per key; a second goroutine drains it and calls
the handlers. Handlers are added by other goroutines at any time. Informers
are created on demand by whoever asks for a kind, and started by Start or, once
the cache is started, by the goroutine that created them.

Over Postgres several instances contend for a bucket. A goroutine of each
renews its two leases; a write carries the epochs the instance believes in, may
wait on its way, and is refused by the database if a lease has since expired or
changed hands. The cache is the same, but its watch is a poll of the driver and
the revision to resume from is checked against the compaction horizon.

What makes it hard is listed line by line under `hazards` in `PROJECT.json`:
channels and logs at their limit, off-by-one in resumption, state changed in
two critical sections (Stop, informer operations, AddEventHandler), merging of
events in flight, writes of several files with a crash between them, leases
that expire under delayed writes, replies lost after their effect, starts that
race removals, and writes by callers who hold stale versions.

## 2. The modules

| Module | Models | State and actions |
| --- | --- | --- |
| `StoreTypes` | objects, events, log entries; JSON decoding over an existing object; the filtering loop `Pick` | operators only |
| `StoreContract` | the comments of the `Store` interface and its methods, as a specification | a map of objects, an unbounded log with the call that made each entry, and each watch as a position in it; `Mutate`, and what a consumer may do with a watch |
| `WatchLog` | revision counter, event log, watchers: the part of `memory/` that `filesystem/` repeats | `Emit` is the tail of every mutation; `WatchFrom`, `WatchLive`, `Recv`, `StopClose`, `removeWatcher` are actions |
| `MemoryStore` | `memory/store.go` | extends `WatchLog` by the object map and UID counter; one action per mutation; `Contract` is the refinement mapping to `StoreContract` |
| `StoreClient` | `client.go`, composed with `MemoryStore` | `request` is the call a client has under way; one action per call of the store that Patch, Status().Patch and DeleteAllOf make; `Watching` lets watchers run beside the clients |
| `FileStore` | `filesystem/store.go` | extends `WatchLog` by the files; one action per mutation and outcome (ok, a failed write, a crash between two writes), `Crash`, `Restart` |
| `PostgresStore` | the leases and writes of `postgres/store.go`, and the tables and stored procedures of `schema.sql` | one action per transaction: `acquireBothLeases`, `renewBothLeases`, `releaseBothLeases`, `Write`, `Compact`; `SetEpochs`, `GrantLost` are the reply to a grant, `RenewFails` is a renewal that returns an error; `Call` starts a write that waits in `call` |
| `PostgresCache` | `watchInformer` over the Postgres backend: List, Watch, `checkCompactionHorizon`, `watchBridge` | extends `PostgresStore` by the loop, the driver's poll (external) and failover |
| `InformerOps` | the sequential code of `storeInformer` and `eventQueue` | operators: what an event does to the cached objects, which cache events it queues, how the queue merges them |
| `CacheSync` | `startInformer`, `watchInformer`, `relistInformer`, composed with `MemoryStore` | one action per step of the goroutine, interleaved with all writers |
| `Informer` | `storeInformer` with its queue, the processor goroutine and handlers | what the store gives the informer (a list, live events, a filtered replay, a relist), the informer's operations, `Enqueue`, `drain`, `CopyHandlers`, `CallHandler`, `AddEventHandler`, `OnAddExisting`, `RemoveEventHandler`, `closeQueue` |
| `CacheLifecycle` | `storeCache`: registry, start, removal and wait | `pc`, `mine` and `todo` say where each calling goroutine is; `loop`, `open` where each `watchInformer` is |
| `WatchAdapter` | `listerwatcher.go`, composed with `MemoryStore` | `relayPC`, `inHand` and `out` are the relay goroutine and its channel; one action per case of its selects, per step of Stop and per store call of Watch; client-go's Reflector is the external consumer |
| `MCStoreClient`, `MCInformer`, `MCPostgres` | values of `Loads` and `Deployments` for TLC | |
| `WatchLogProofs`, `MemoryStoreProofs`, `FileAndRegistryProofs` (of `FileStore` and `CacheLifecycle`), `StoreUsersProofs` (of `CacheSync` and `StoreClient`), `InformerProofs`, `AdapterRelayProofs` and `WatchAdapterProofs`, `PostgresProofs` | lemmas and theorems (section 4) | |

Definitions keep the names of the code; `map` in `PROJECT.json` gives the lines
of each. Operators marked `\* mutant` are plausible wrong versions of the
definition below them; nothing uses them. They record, for each property, a
mistake that the property detects.

`Loads` and `Deployments`. Exploring all dimensions of a module at once is out
of reach, and one bound for all of them would hide the interesting cases. Where
this is so, a constant holds a set of records, each saying what is deployed or
done (which handlers, keys and contents; which instances) and how far it is
explored. The initial state picks one. So one run of `Informer` covers one
object with every content, one object for longer and for longer still, two
handlers, and two objects; the theorems hold for any set.

### Granularity

* A mutation, a List and a Watch hold `s.mu` throughout, so each is one action.
  Receiving from a channel and the first half of Stop do not take it, so they
  are actions of their own.
* A client's Patch is a Get and an Update, DeleteAllOf a List and one Delete
  after the other; the writers of the store come in between.
* The informer changes its objects under `i.mu` and enqueues the event after
  releasing it. In `Informer` the event waits in `outbox` in between.
  AddEventHandler registers and takes its snapshot in one critical section
  (`handlerMu`, then `mu`), then calls the handler for each object holding no
  lock. processEvents copies the handler list once per drained batch.
* In `CacheLifecycle` what runs under `c.mu` is one action; `startInformer` runs
  without it, and its check of the context, list and marking are separate.
* In `FileStore` a mutation is one action because it holds `s.mu`, but its
  outcome says how far it came.
* In `PostgresStore` a call of a stored procedure is one transaction, so one
  action. Reading the epochs and reaching the database are two, and so are the
  grant of a lease and the arrival of its reply.

### Abstraction of data

`spec` and `status` are opaque values and `labels` is a set of keys that stands
for any map-valued metadata. A selector is the set of label keys it requires.
JSON is modelled by what decoding does to an object that already has content:
fields that are present replace, absent ones (zero values under `omitempty`)
leave the old value, and maps are merged. `OmitEmpty` says whether the type's
tags omit zero values. A resourceVersion is the number it prints; 0 is "none".
A patch is what it names: values to set, label keys to add or remove, a
resourceVersion to insist on. Time in `PostgresStore` is a clock that ticks. In
`CacheLifecycle` an informer's objects are whether the initial list is in them.

### Auxiliary state

`history`, `calls`, `changes`, `uids`, `cursor`, `added`, `view`, `due`,
`skipped`, `readded`, `has`, `listed`, `starts`, `removed`, `raced`, `grants`,
`lastGrant` and `released` record the past for the properties. No guard of an
action depends on them, except that `RemoveEventHandler` and `AddEventHandler`
use `added` to add a handler once, and that `grants` bounds `RenewFails`.

## 3. What TLC checks

A run is a configuration file. "pass" runs hold; "violation" runs show, each
with one property, that the code does not do what one of its documents,
comments or tests says.

| Run | Question | Bounds and why they suffice |
| --- | --- | --- |
| `memory_store` | Do the data rules hold for any sequence of writes, do Patch and DeleteAllOf keep theirs among other writers, do watches deliver every event once, in order, through overflow, Stop and resumption, and does the backend implement the contract? | Four loads of 4 revisions. *Writing*: one object with two specs, two statuses, one label, every resourceVersion handed out: create, two writes of different callers and a delete or re-create. *Patchers*: a client patches while others write spec, status or label. *Deleters*: two objects, so that DeleteAllOf has a rest to leave. Watchers do not matter to these three, so they have none. *Watched*: two kinds share the counter and the log; a log of 2 and a channel of 1 let the log be trimmed twice, a channel overflow, and a replay be longer than the channel. |
| `cache_sync` | Is the cache always the store at one revision, and does it converge? | One cached kind, one other; 6 revisions over a log of 2, so that two relists, each followed by live events, occur. |
| `informer_stream` | Do the lives of objects reach cache, index and handlers unchanged? | Five loads. One object with specs accepted and rejected by the transform and a label that starts and stops matching, 2 changes; one object for 3 changes; one for 5 changes with handlers added before Start only, so that an object whose deletion the replay left out is created again; two handlers, for the copied handler list; two objects, for batches. In the others handlers are added before or after Start, and removed. The watch is lost and resumed, with a replay or a relist, at any point. |
| `file_faults` | What survives failing writes, crashes and restarts? | 3 changes of files and 2 faults, so that a fault can follow the recovery from another; one watcher. |
| `watch_adapter` | Does a reflector on the adapters see the store, and does Stop end the relay? | One object with and without a label, every selector; log of 2, both channels of 1, 4 revisions and one stop out of turn: both channels fill up, the store closes the watch, the log is trimmed past the reflector. |
| `cache_lifecycle` | Is every informer started exactly once, do waiters return, and does cancellation end everything? | Two kinds, two informers, three goroutines: one starts, one creates and removes, one does everything but remove; one failing list. A removed kind can be created again, by another goroutine than its first starter. |
| `postgres` | Does the fence order delayed writes, do the leases stay together, and does a cache over the backend skip nothing? | Three deployments. *Contention*: two instances, a lease of 1 tick, 4 ticks, 2 accepted writes, 1 lost reply, and renewals that fail until the second grant: a lease expires, is taken over and regained, or acquired again by its holder, while writes wait. *OneKey*, *TwoKeys*: a cache, 4 and 3 writes, 1 fault (failover or failed connection), so that a key can be deleted, compacted and re-created behind the cache. |
| `memory_status` (violation) | Does a status write leave the metadata alone? | 3 revisions, one label |
| `cache_selector` (violation) | Does a cache with a label selector follow its store? | 4 revisions |
| `informer_late` (violation) | Is a handler told when an object it was told of is gone? | 3 changes |
| `file_reuse` (violation) | Do resourceVersions increase over restarts? | 4 changes, crashes only |
| `postgres_relist` (violation) | Does a relist end with an open watch? | 2 writes, no faults |

The properties, in words, with the code they are about, stand above their
definitions. In short:

* **Data** (`MemoryStore`). `StoreIsHistory`: replaying the events gives the
  stored objects. `NoLostUpdate`: a write that presents a resourceVersion was
  applied to that very version. `GenerationTracksSpec`, `SplitWrites`,
  `NoopSuppressed`: what each write path may touch.
* **Contract**. `ImplementsContract`: with objects, history and the positions
  of the consumers mapped to `StoreContract`, every step of the backend is one
  of the contract or invisible to it. The contract has the rules of the
  methods' comments: a write is on the resourceVersion it presents, Update keeps
  the status and takes no revision without a change, the generation counts
  changes of the spec, UpdateStatus keeps spec, labels and generation. Steps
  that are not `WritesBack` are excepted: an Update with another generation than
  the stored one, and an UpdateStatus with label keys of its own.
  `StatusWritesStatusOnly` is the rule the latter breaks, and the run
  `memory_status` shows that it does.
* **Watches** (`WatchLog`). `LogIsRecentHistory`, `EventsSinceExact`: the log
  is the recent history, and resumption is refused only if an event is gone and
  is otherwise exact. `WatchOrdered`, `WatchNoGap`: no duplicate, no gap,
  before and after a close. `NeverBlocksOnPreload`: the sends Watch makes while
  it holds the store's mutex never block. `RegistryMatches`: registration and
  Stop agree under every interleaving.
* **Client** (`StoreClient`). `PatchAppliesDiff` (an action property): a patch
  changes the object as it is when the patch is written, by what the patch
  names only. `DeletesWhatItListed`.
* **Cache** (`CacheSync`). `CacheAtLastRV`: the cache is the store at `lastRV`,
  always. `CacheConverges` (liveness). `CaughtUpCacheIsStore` holds without a
  selector (section 4); the run `cache_selector` shows that it fails with one.
* **Informer**. `CacheIsStore`: while the watch is up and its replay is
  received the cache holds what the selectors let through, except for objects
  the transform rejects and stale ones of which the filtered replay left out a
  change; `IndexExact`: a list through an index is a list
  by scanning; `StreamLeadsToCache`: the events a handler has still to be given
  lead, each fitting the one before, from what it was told to what is cached,
  except for keys that were added over a stale object; `LiveObjectsAnnounced`: no handler misses an object, whenever it was added;
  `HandlersConverge` and `ProcessorExits` (liveness).
* **Lifecycle** (`CacheLifecycle`). `StartedOnce`, `SyncedMeansFilled`; and
  `WaitReturns`, `CancelEndsWatches` (liveness).
* **Adapters** (`WatchAdapter`). `FollowsStore`: from the bookmark on the
  consumer has the store at its position. `RelayNoGap`: nothing is lost between
  the two channels. `StopEndsRelay`, `ReflectorConverges` (liveness).
* **Files** (`FileStore`). `RevisionsIncreaseInRun`, `UIDsUnique`,
  `RevisionLagBounded`, `WatchSeesStore`, and `SplitWrites`.
* **Postgres** (`PostgresStore`, `PostgresCache`). `LeasesTogether`;
  `HolderNotFenced`: who holds the leases is not fenced; `FencingOrdersWrites`
  (an action property): no write of an earlier grant after one of a later.
  `ResumeNeverSkips`: where the cache is behind, the next watch or a relist will
  show it. `PgCacheConverges` (liveness).

Several properties carry a condition under which the code does not promise
more: no lost reply, no release, no removal that meets a start, no failed list.
The comment above each says what happens otherwise, and section 6 lists it.

Deadlock is checked where the system cannot stop. It is switched off in the
runs whose bound on revisions, changes or faults ends every behaviour.

### Fairness

* `CacheSync`: weak fairness of the informer's goroutine. It is a loop whose
  waits end: on a timer, on a channel the store sends to or closes, or on a
  mutex held for bounded time. Writers owe nothing.
* `Informer`: weak fairness of the watch goroutine and of the processor
  goroutine. This assumes handlers return. The store, users and close are not
  fair.
* `CacheLifecycle`: weak fairness of each goroutine that is inside a call
  (`Proceeds`) and of each `watchInformer`. Nobody owes a call, a failing list,
  an overflow or a cancellation.
* `WatchAdapter`: weak fairness of the relay goroutine and of the reflector's
  loop, which reads its channel until it is closed and then starts over. A stop
  out of turn and the writers are not fair.
* `PostgresCache`: weak fairness of the informer's goroutine and of the
  driver's poll, which a timer repeats. Leases, writers, compaction and faults
  are not fair.

The liveness properties are of the form "once the store settles": the bound on
changes makes every behaviour settle.

## 4. What TLAPS proves

Every theorem holds for any values of the constants: any kinds, keys,
contents, watchers, instances, goroutines, log and channel sizes, and any
bounds.

| Module | Theorem | States |
| --- | --- | --- |
| `MemoryStoreProofs` | `TypeCorrect`, `RevisionsAreDense` | `[]TypeOK`, `[]RevisionsDense` |
| | `LogIsRecent` | `[]LogIsRecentHistory` |
| | `HistoryIsStore` | `[]StoreIsHistory` |
| | `NoUpdateLost` | `[]NoLostUpdate` |
| | `NoopsSuppressed` | `[]NoopSuppressed` |
| | `GenerationCounts` | `[]GenerationTracksSpec`, if `~OmitEmpty` |
| | `WritesAreSplit` | `[]SplitWrites`, if `~OmitEmpty` |
| | `WatchesOrdered`, `WatchesHaveNoGap` | `[]WatchOrdered`, `[]WatchNoGap` |
| | `RegistryFollows` | `[]RegistryMatches` |
| | `ResumesExactly` | `[]EventsSinceExact` |
| | `PreloadFits` | `[]NeverBlocksOnPreload` |
| | `MemoryImplementsContract` | `ImplementsContract`, if `~OmitEmpty` |
| | `WritingBackGetsContract` | `StoreContract`'s specification, if `~OmitEmpty` and every step is `WritesBack` |
| `FileAndRegistryProofs` | `RevisionsIncreaseWhileUp` | `[]RevisionsIncreaseInRun` |
| | `UIDsNeverReused` | `[]UIDsUnique` |
| | `RestartLagBounded` | `[]RevisionLagBounded` |
| | `FileWritesSplit` | `[]SplitWrites` of `FileStore`, if `~OmitEmpty` |
| | `WatchesSeeChanges` | `[]WatchSeesStore` |
| | `OneStarter`, `SyncedIsFilled` | `[]StartedOnce`, `[]SyncedMeansFilled` of `CacheLifecycle` |
| `StoreUsersProofs` | `CacheIsSnapshot` | `[]CacheAtLastRV`, if there is no label selector and the transform accepts every object |
| | `CaughtUpWithoutSelector` | `[]CaughtUpCacheIsStore`, under the same conditions |
| | `ClientsLoseNoUpdate` | `[]NoLostUpdate`, `[]NoopSuppressed`, `[]StoreIsHistory` with clients that patch and delete; `[]GenerationTracksSpec` and `[]SplitWrites` too if `~OmitEmpty` |
| | `DeletesOnlyListed` | `[]DeletesWhatItListed` |
| | `PatchIsAtomic` | `PatchAppliesDiff`, if `~OmitEmpty` |
| `InformerProofs` | `InformerTypes` | `[]TypeOK` of `Informer` |
| | `CacheMatchesStore` | `[]CacheIsStore` |
| | `IndexIsExact` | `[]IndexExact` |
| | `HandlersMissNothing` | `[]LiveObjectsAnnounced` |
| | `CoalescedStreamLeads` | `[]StreamLeadsToCache` |
| `WatchAdapterProofs` | `ConsumerFollowsStore` | `[]FollowsStore` |
| | `RelayHasNoGap` | `[]RelayNoGap` |
| `PostgresProofs` | `LeasesAlwaysTogether`, `HolderNeverFenced` | `[]LeasesTogether`, `[]HolderNotFenced` |
| | `FencedWritesOrdered` | `FencingOrdersWrites` |
| | `LeasesWithInformer` | the three above, with an informer and failovers |
| | `InformerResumes` | `[]ResumeNeverSkips`, if the informer is for all objects of the kind |

Assumptions on constants: `KindsAssumption` (there is a kind),
`NoObjectAssumption` (NoObject is no object), `WatchLogAssumption` (sizes are
naturals, the channel is not of size 0), `BoundsAssumption`, `OutcomesAssumption`,
`SelectorAssumption` and `InformerAssumption` (the informer's parameters are of
their types), `LifecycleAssumption` and `PostgresAssumption` (the "none" values
are none of the others, a lease lasts at least a tick). The conditions in the
table are hypotheses of the theorems, which are false without them.

**The store's data.** Each of Create, Update, UpdateStatus and Delete is shown
to be a `Mutation`: one predicate that says how the new object relates to the
stored one and to the call (`CreateMutates` and its siblings). Everything else
is proved about `Mutation`, once. `StoreInv` is the inductive invariant of the
data. `NoLostUpdate` is not inductive: it compares a write with the one before
it, while the code compares the caller's resourceVersion with the stored
object. What closes the gap is to know which write the stored object comes
from. `RevisionsDense` makes the history an array indexed by revision,
`LogIsRecentHistory` stamps each event's object with its revision, and
`StoreIsHistory` says the stored object is that of the latest write of its key.
`NewConsecutive` uses them to show that a mutation adds at most one pair of
consecutive writes, whose first member stored the object being replaced.

**Watches.** `WatchLogProofs` compares the channel of a watch with what the
history owes its consumer. `Stream` says that the channel holds events that are
due, in order, and that each one due is covered: in the channel, left out by
the selector, or, if the channel is closed, after its end. `StreamOpen`,
`StreamSend`, `StreamRecv`, `StreamClose` say what Watch, send, Recv and Stop do
to it. It is inductive only together with the registry (`WatcherOK`): an open
watch is registered under its kind, so no event passes it by. `BackendInv` is
`StoreInv` with this for every watcher.

**The contract.** The mapping takes the history for the log, the recorded calls
for its calls and the auxiliary `cursor` for a consumer's position. A `Mutation`
that is `WritesBack` is a mutation of the contract: the version presented is
that of the stored object, and with its generation an Update that got past
`contentEqual` changes something. Watch and Stop are the contract's, Recv
delivers the next event due because of `Stream`; an overflow and the removal of
a watcher are invisible. `WritingBackGetsContract` draws the conclusion for
callers that keep to `WritesBack` throughout: they get the contract whole.

**The cache.** The composed system takes steps of the store only
(`SyncIsStoreStep`), so `BackendInv` holds in it. `SyncOK` adds that cache, list
and watch each stand for a revision: the cache shows the states at `lastRV`,
the list the states at its own revision, a list being added holds what the
cache lacks, and the watch's consumer is at `lastRV`. States of the past are
taken from the history (`StateIn`) and do not change when it grows
(`StateFrozen`). The event received is the next of its kind after `lastRV`
(`NextEvent`, from `Stream`), so it changes the state of its own key only
(`StateNext`), and `Dispatch` does the same to the cache (`DispatchStores`).

**The client.** What Patch writes need not be anything a caller of the store
could pass (it carries the stored UID and perhaps an old generation), so the
composed system does not take steps of the store's `Next`; its writes are
`Mutation`s all the same (`ClientMutation`). `ClientOK` says what a call under
way relies on. Of a patch: the document is the patch applied to some version of
the object, and the resourceVersion it will present is no newer than that
version. When the write is accepted it presents the version stored now, which no
earlier write of the key can exceed (`CurrentWrite`), so the version read is the
version replaced (`PatchReadsCurrent`), also where the patch carries a
resourceVersion of its own. Of a DeleteAllOf: every object still to be deleted
has a resourceVersion, and every one deleted was deleted by the write that
follows the version listed. Both are stated over the history and survive its
growth (`RequestStays`).

**Files and counters.** `FileInv` adds to the properties what the files say
about the counters. `UIDsPersisted`: `.uid-counter` is at or past every UID
given out, so a restart loses none. `RunBehindRevision`: changes of the present
run are not past the counter, and a dead store has made none in the run its
restart begins. `RevisionFileLag`: `.revision` is behind the counter by failed
writes only, and behind the files by these and one crash. The bound does not
grow with the number of crashes because a change that a crash interrupts has
the revision after the counter, and the counter starts again from `.revision`
each time. Each mutation is shown to be a `Mutation`, and `WriteOutcomes`
reduces its outcomes to what they leave in the files and the counters.

**Watches of the filesystem backend.** The log and the watchers are those of
the memory backend, but failed writes leave holes in the revisions, so the
history is no array indexed by revision. `FileLog` therefore keeps `Stream`, the
log as the recent history, and `Announced`: each change announced in this run is
in the history under its revision and kind. A dead store has an empty log, which
satisfies them at whatever revision the next start reads from `.revision`.

**Leases.** `PgInv` says that the two leases are equal, that unless one was
released the epoch counts the grants, that no instance knows of a later grant
than was made, and that a reply on its way is to the last grant. Then a write
accepted by the fence was started under the last grant.

**Starting informers.** `LifecycleInv` says which goroutine claims which
informer: at most one claims each, one not started yet in a started cache is
claimed by somebody or left over by a failed list, and how far each claimant is
agrees with whether the informer was started and holds its list.

**The informer.** Every change of the cached objects is an *effect* that passes
`EffectOK`: each key either keeps its object and has no event, or has one event
that fits the old object and leads to the new (`Leads`). This is shown once for
each of add, update, delete, replaceAll and resync. `CacheIsStore` is not
inductive: whether update drops an event depends on resourceVersions, so
`CacheOK` adds that equal versions of a key mean equal objects, that none is
ahead of the store, that the replay still to be received is in order and its
last event for a key ends at the stored object or before a change left out, and
that a key is cached as it should be unless a list item or an event of the
replay is still to come for it. `IndexOK`: the index is the one built from the
cached objects.

A handler is fed from four places: the outbox, the queue, the batch and the
snapshot. For `LiveObjectsAnnounced` the invariant `CallsComing` says that while
a cached object is due to a handler, one of the four is going to bring it there,
by whichever copy of the handler list is in use. It survives merging because two
events of a key merge into none only if the object is gone. For
`StreamLeadsToCache` the invariant `StreamOK` says that the sequence in transit
is a `Path` from what the handler was told to the cached object. That pushing an
event through `coalesceEvents` leaves a path (`PushPath`), and that drain
concatenates the pending events key by key without touching the path of any one
key, is where the work lies.

**The adapters.** The composed system takes steps of the store only
(`AdapterIsStoreStep`), so `BackendInv` holds. `AdapterOK` treats the adapter's
channel and the event in the relay's hand as one *pipe*. Up to the bookmark the
pipe, the view and the items still to be sent make up the list at its revision
(`Filled`); after it the pipe holds what matches of the store's events, in
order, up to where the relay is in the store's watch (`Piped`). The relay extends
the pipe by the next event due (from `Stream`), the consumer takes its head, and
a stop, an overflow or a closed watch leaves a prefix. The position where the
bookmark stands is the witness that each step moves by one or keeps.

**Resuming over Postgres.** A resourceVersion of an object counts the writes of
its row, while lists and watches go by the bucket's sequence number; the loop
takes both for `lastRV`. `RowsOK` says that a version never exceeds the
sequence number of its write and that every tombstone left is past the horizon.
So `lastRV` may fall behind the poll's position and never gets ahead of it.
`Following` relates the events in transit to the sequence numbers they were sent
for and says what the cache becomes as they are handled one by one: each key
then has its row's object or a row past the position, unless the position was
compacted, in which case the next watch is refused. Replaying events the cache
has seen already is harmless because the last one for each key is the row's own
(`LastSent`).

`WatchLogProofs` proves what the filtering loop `Pick` computes, by the least
counterexample to its recursion, what trimming does to the log, and that every
action on the log and the watchers preserves its types.

Only model-checked: liveness (`CacheConverges`, `HandlersConverge`,
`ProcessorExits`, `WaitReturns`, `CancelEndsWatches`, `StopEndsRelay`,
`ReflectorConverges`, `PgCacheConverges`), since fairness is beyond the prover.
Every safety property that a passing run checks is also proved.

## 5. What is not modelled

* The cache's options, which only carry values: selectors, the transform and
  resync appear as constants and actions. Error messages and codes; a call that
  returns an error and changes nothing is a guard that does not hold.
* The duration of backoff and polling; errors of List in `CacheSync`
  (`CacheLifecycle` has them for the initial list), and of Watch other than
  `RevisionTooOldError`.
* In `StoreClient`: patches that do not apply or decode; the namespace and
  field selectors of DeleteAllOf.
* In `CacheLifecycle`: calls that change nothing, such as a second Start.
* In `WatchAdapter`: a watch that starts before the goroutine of the previous
  one returned (they share nothing), and Watch without a revision, which the
  Reflector does not ask for.
* In `FileStore`: files truncated by a crash inside `os.WriteFile`, data lost
  with the page cache, path encoding, two processes on one directory.
* In `PostgresStore`: the values calls return (`mapConflictToNotFound`), more
  than one bucket and kind, calls that fail without effect. The driver (its
  client, poll and compaction) and the database's failover are external: they
  are modelled from how `postgres/store.go` and `schema.sql` use and define
  them.
* Overflow of the 64-bit counters: no run of the program gets there.
* What a transform makes of an object; only that it may refuse one.
* The conformance suite, which is tests.

## 6. Where code and documents disagree

Shown by a run (`findings` in `PROJECT.json` quotes the texts):

* `cache_selector`: Watch applies the label selector to replayed events, so a
  reconnecting cache never learns that an object stopped matching.
* `memory_status`: UpdateStatus decodes the stored object over a copy of the
  input, so label keys that only the input has are stored with the status.
  `SplitWrites` speaks of spec and generation only.
* `informer_late`: a handler gets an object from its snapshot while the
  object's add event is still queued; a delete then cancels against the queued
  add, and the handler is never told.
* `file_reuse`: the object file is written before `.revision`; a crash between
  the two makes the next process hand out the same resourceVersion again.
* `postgres_relist`: when the newest write of a bucket is a deletion whose
  tombstone was compacted, the horizon equals the revision a list returns; the
  watch from it is refused, and the cache relists for ever without backoff.

Seen while modelling, kept out of the properties and not shown by a run:

* `memory/store.go:297` compares for a no-op before the generation is restored.
  A caller that sends generation 0 gets an event for unchanged content, though
  `docs/backends.md:114` promises suppression and `store.go:71-73` asks for it.
  `NoopSuppressed` and `ImplementsContract` are therefore stated for callers
  that keep the generation they read.
* `memory/store.go:283`: for a type with `omitempty`, Update lets the input's
  status through when the stored one is the zero value, against
  `store.go:69-70`. This is why seven theorems assume `~OmitEmpty`, and the
  runs set it to FALSE.
* `client.go:62`: Patch decodes into the caller's own object, so label keys it
  has come back although another writer or the patch removed them
  (`docs/usage.md:20`: "Get + apply diff + Update"). `PatchAppliesDiff` excepts
  them.
* `filesystem/store.go:361`: when `.revision` cannot be written, the change
  stays on disk, the caller gets an error and no event is emitted.
  `WatchSeesStore` excepts such changes.
* `filesystem/store.go:315` compares indented with compact JSON, so every
  Update of an object with a non-empty spec counts as a change of the spec,
  against `docs/backends.md:73`. `FileStore` models it so.
* `memory/store.go:523` and `cache.go:1017`: a change that the filtered replay
  leaves out may be the one by which an object stopped matching, and its
  deletion too if it had stopped matching before. The stale object stays cached
  until the next list or change of its key. If that change is the creation of
  another object, add stores it over the stale one and queues an Add for a key
  the handlers know; a deletion that follows before the Add is delivered cancels
  against it, and the handlers keep the stale object. `CacheIsStore`,
  `StreamLeadsToCache` and `HandlersConverge` except such keys.
* `cache.go:1070`: when the transform refuses an update, the version before it
  stays cached until a change it accepts, or a relist. `CacheIsStore` excepts
  objects the transform refuses at present.
* `listerwatcher.go:187`: the adapter drops live events whose object does not
  match the selector, the one by which it stopped matching included, so a
  reflector keeps the object. `FollowsStore` and `ReflectorConverges` let it
  stay.
* `cache.go:496`: RemoveInformer during a start is followed by that start's
  `synced[gvk] = true`, for an informer that may be created later; a failed
  start deletes the kind's informer, which may be another one by then; the loop
  of a removed informer keeps reopening watches until the context is done. When
  Start returns an error, the cache stays marked as started and the remaining
  informers are never started. WaitForCacheSync polls for ever for a kind whose
  informer was removed or failed. A second GetInformer returns an informer
  before its list is in.
* `postgres/store.go:127`: when the reply to a grant is lost, `s.epochs` stays
  behind; renewals look at the holder only and succeed, so every write of the
  holder is fenced. `HolderNotFenced` excepts lost replies.
* `postgres/store.go:638`: releasing deletes the lease rows, so epochs start
  again from 1 and a write delayed from before can pass the fence.
  `FencingOrdersWrites` speaks of behaviours without a release.
* `postgres/store.go:676`: a change of the cluster epoch ends the driver's
  stream but is not mapped to `RevisionTooOldError`, so the cache goes on asking
  for the old timeline until something lists. `PgCacheConverges` excepts this.
* In `pgctl_write` the suppression of no-ops comes before the version check,
  and a soft-deleted row blocks the re-creation of its key until it is
  compacted; Update writes the caller's status; a delete without
  resourceVersion fails if a write comes between its read and its delete.

## 7. What could follow

* Proofs of the liveness properties, with a prover that has the rules for
  fairness.
* Torn file writes in `FileStore`, once it is settled what a file system may
  leave.
