# Verification of NitromelonDB

TLA+ models of NitromelonDB's own logic, the TLC runs that check them on small
instances, and TLAPS proofs of what matters most for every instance. Paths such
as `src/Database/WorkQueue.ts` are relative to the repository.

## 1. The system

NitromelonDB is an offline-first reactive database for JavaScript apps. One
JavaScript thread holds the *Models*; an *adapter* holds the rows, in SQLite
(synchronously through Nitro/JSI or Node, asynchronously through a bridge or a
wa-sqlite worker) or in LokiJS; `synchronize()` keeps the rows in step with a
server of the app's own.

| component | state | operations | talks to |
|---|---|---|---|
| **WorkQueue** `src/Database/WorkQueue.ts` | `_queue`, the running item, sub-action bookkeeping, `_stuckWatchdog` | `enqueue`, `subAction`, `_executeNext`, `_abortPendingWork`, the guard against nested calls | every `read`/`write` of the app, sync, seed, reset |
| **Database** `src/Database/index.ts`, `seed.ts` | collections, subscribers, `_ready`, `_seeding`, `_resetCount`, pending notifications | `batch`, mass destroy, `unsafeResetDatabase`, `_runSeed`, `experimentalBatchNotifications`, `_notify` | WorkQueue, Collections, adapter |
| **Record caches** `src/Collection/RecordCache.ts`, the drivers | `RecordCache.map` in JavaScript; `cachedRecords` (ids sent) in the driver | fetch, find, batch, destroy, reset, invalidation by another tab | Collection <-> driver, by ordered calls and answers |
| **Models, raw records** `src/Model`, `src/RawRecord` | `_raw` with `_status`/`_changed`, `_preparedState` | create, update, mark as deleted, destroy | Database, sync |
| **Sync** `src/sync` | `lastPulledAt`, schema version of the last pull, the call's own variables | pull, apply, push, mark as synced | a server; WorkQueue, adapter |
| **Observation** `src/observation`, `src/utils/subscriptions` | subscribers, last emission, observed lists, activation counts | subscribe, notify, refetch, invalidate | Collection and Database subscriptions |
| **Adapters** `src/adapters` | connection state, queued calls, rows | set up, migrate, batch, query, reset, close | drivers |
| **wa-sqlite dispatcher and worker** `makeDispatcher/index.web.ts`, `sqlite-wasm` | set-up state, calls in flight, connections and their reference counts | call, flush, fail, invalidate | workers of other tabs |
| **LokiJS adapter** `src/adapters/lokijs` | an action queue, collections | batch (not a transaction), query, clear cached records | IndexedDB |
| **Native core** `native/shared` | SQLite handle, statement cache, ids sent | batch, query, turbo sync, migrate, reset | SQLite |
| **Migrations, queries, React, diagnostics** | little or none | mostly pure | the above |

What makes it hard:

* *interleaving*: everything that awaits gives other code a turn. The queue lets
  sub-actions and batches of one item interleave, and a reader or writer call
  made anywhere lands in the same queue.
* *ordering*: the driver answers queries against its set of ids at one moment
  and JavaScript uses the answer at another.
* *crashes and failures*: an app may be killed between any two transactions;
  batches fail; a push may succeed and its answer be lost.
* *concurrency with others*: other tabs on the same database, other clients of
  the same server, the user editing during a sync.
* *nested calls*: a writer that awaits another writer waits for itself.

What has to hold: items of the queue do not overlap and all settle; no id comes
back from the driver that JavaScript cannot resolve; Models show the rows;
no edit is lost by a sync and both sides agree in the end; an observer ends up
with what a fetch would return; every adapter call is answered once; a reset or
an interrupted set-up can be recovered from. `PROJECT.json` lists the hazards
at their lines, and the property that covers each one or the module planned for
it.

## 2. Modules

| module | what it is |
|---|---|
| `SerialQueue` | abstract: a first-come-first-served service with withdrawal |
| `WorkQueue` | `WorkQueue.ts` in detail; implements `SerialQueue` |
| `WorkQueueProofs` | its theorems |
| `RecordCache` | a table's two caches, the driver between them |
| `RecordCacheProofs` | its theorems on the driver's set of ids |
| `RecordModelProofs` | its theorem that Models show their rows |
| `Sync` | `synchronize()` for a table, against a server |
| `SyncProofs` | its theorems |
| `Startup` | set-up, migration, seed steps, reset: one database over many launches |
| `StartupProofs` | its theorems |
| `StatementCache` | the LRU list of prepared statements, as operators |
| `StatementCacheProofs` | what they compute |
| `NativeDatabase` | the C++ core, one SQLite statement at a time; uses `StatementCache` |
| `NativeDatabaseProofs` | its theorems |
| `Observation` | observers of queries: fetches, notifications, shared subscriptions |
| `ObservationProofs` | its theorems |
| `MC...` | the instances of each for TLC |

They compose by abstraction. `Sync` uses of the queue only what `WorkQueue`
establishes (a writer excludes every other writer and reader: `Writing`), and
of the caches only what `RecordCache` establishes (a fetch inside a writer sees
the rows). `Observation` takes from `RecordCache` that answers come in order and
carry Models (`ModelsAreCurrent`; the records of failed updates are its
`spoiled`, too), and from `WorkQueue` that one batch is under way at a time.
`Startup` takes from the queue that a reset runs after the seed job, and from
the drivers that a set-up is a transaction. `NativeDatabase` is what
`RecordCache` takes for granted of the native driver: a batch is all or nothing
(`AllOrNothing`) and an id is marked only if it was delivered or written
(`MarkedIsKnown`).

### 2.1 WorkQueue

A *call* is one execution of `database.read()`/`write()`. It is either a queue
item or, through `callReader`/`callWriter`, a sub-action of one. A *flow* is the
asynchronous body of a call, or `None` for code outside of any. One step is one
synchronous stretch of JavaScript. `EnqueueAndStart`/`EnqueueBehind` are the two
outcomes of `enqueue`; `Await`/`AwaitNested` what happens when the caller
subscribes to the promise (the guard on `then`); `FinishItem` and `ExecuteNext`
the two halves of `_executeNext`, with the `setTimeout` between them (`exec =
"scheduled"`); `AbortPendingWork` what a reset does to the queue;
`WatchdogFires` the timer of `_stuckWatchdog`; `Batch`/`BatchDone` a batch
from `_ensureInWriter` to the adapter's answer. `Detect` is
`experimentalDetectNestedWriters`. `Disciplined` restricts the bodies, never
the library: a body ends after what it started, and only bodies batch or reset.

The development build is modelled (the watchdog is off in production) and, for
`Detect`, an engine with AsyncLocalStorage or AsyncContext.

### 2.2 RecordCache

`rows` are the committed rows, `sent` the driver's set of ids, `cache` the raws
of the Models held. Calls are queued to the driver (`calls`), served in order
(`Serve...`), and their answers acted upon in order (`Handle...`). With
`AtOnce`, the answer of a query is used inside the call, before code that
awaits an earlier batch: Nitro and Node. `OtherCommits`/`Invalidate` are a
write of another tab and its message. Versions of a row are numbers given out
by `clock`. A record is one number and a deleted flag; which columns there are
does not matter here. A query is the set of ids its conditions can match.
`destroyDeletedRecords` is only called for records marked as deleted and with
no change under way, which is what sync does (see `Sync`).

Two variables only record, for `ModelsAreCurrent`, what sets a Model and its row
apart for good: `apart` holds the ids of failed updates and of other tabs'
writes, `revived` the ids updated while a removal of theirs was on its way. The
latter is real: a Model can still be updated between a mass destroy's call and
its answer (`Database/index.ts:607`). The driver then updates no row or a row
marked as deleted, which comes back; the answer drops the Model; a query builds a
second one; and a second update of the first Model, made meanwhile, writes a row
the second never shows. It takes four calls on their way, more than
`recordcache_queued` has; the theorem has no such bound, and found it.

### 2.3 Sync

One action per stretch between two awaits of `synchronize()`:
`Start` (read `lastPulledAt`, call the server), `StartApply` (the writer's
checks and `destroyAllDeletedRecords`), `Recreate` (the `destroyDeletedRecords`
that nobody awaits, when the server lists as created what was deleted here),
`Batch`, `Stamp` (`setLastPulledAt`), `FetchLocal`, `Answered` (`ensureSameDatabase`), `Mark` and `Forget` (the batch
and `destroyDeletedRecords` of `markLocalChangesAsSynced`). The user's writers
are `Create`, `Update` and `MarkAsDeleted`; `StartReset`/`EndReset` are the two
ends of `unsafeResetDatabase()`, between which a writer may already be queued
for the new database. `Crash` keeps the database only; `DriverFails` is a
transaction of the apply writer that fails, so that `synchronize()` throws and
the app goes on. Each of `Recreate`, `Batch` and `Stamp` is a transaction, and
both may come between any two. A new record names in `_changed` the columns its
builder set (`Model._prepareCreate`): `Drafts` are the sets of columns that may
be, and the others have their defaults. Each value is the number
of the edit that wrote it, so equal raws always mean equal histories;
`mine`, `received` and `removed` record what the user did and what the server
got, for the properties only.

The server is external: `Answers`, `Conflicts`, `ServerAccepts` and
`ServerRefuses` are the endpoints that `docs-website/docs/docs/Sync/Backend.md`
asks for and `examples/sync-server` has. It may list records created since the
last pull as created or as updated, send the whole table for replacement
(then also listing deleted ids), and reject ids (`experimentalRejectedIds`).
A call of the server takes effect before its answer or not at all: a push that
reaches the server after its sync has ended is not modelled.

Found while building it, and kept out of the properties: (1) a replacement pull
that does *not* list deleted ids keeps a record that is `created` locally; if
the server had received it (answer lost) and deleted it since, the record stays
`created` and each later push of it is refused; (2) with `server_created_at` a
deletion of a record that the server lists as created is undone: `Backend.md`
says so, and `DeletionsKept` has that exception. The deletion is given up when
`Recreate` is committed; should the batch behind it fail, the record is gone
here and live on the server, with nothing to tell why, until the next pull,
which `Current` says is still to bring it.

### 2.4 Startup

One database file over the launches of an app whose version may go up or down.
The file is its version, tables, whether it has rows of the user, the seed
marker, and the seed steps whose rows it holds; a schema of version v is the
set 1..v, and 0 stands for tables of another program. `pc` is where the adapter
and the Database are: `Initialize` is the look at the version in
`initialize()`/`_init`, with its three outcomes; `Vacuum`/`Populate` (native),
`SetUpWithSchema` (Node, wa-sqlite) and `Migrate`/`MigrateRechecks` set the file
up; `GetMarker`, `RunStep`, `StepThrows`, `SetMarker` are `_runSeed`; `Read` and
`ReadAnswered` a raw read that waits for `_whenReady` and for the set-up.
`UnsafeResetDatabase` is its adapter part and what follows. Every step can fail
and the process can die between any two; a failed native schema aborts the
process, as `std::abort()` does. `OtherSetsUp` is a second context of the same
app version that completes its set-up after this one looked at the version.
A seed step is one that writes rows of its own; what a retried step does with
rows its first attempt left is the app's business.

### 2.5 NativeDatabase and StatementCache

`op` is the call of JavaScript that runs: which, where it is in its code, its
arguments, the rows still to be stepped through, the operations still to be
done. One action is one SQLite statement; its SQL is a name. `Prepares` is
`prepareQuery` with the cache's `get`, `insert` and eviction; `held` are the
statements the call has a pointer to. `Fails` lets any statement fail, prepared
or not; `TryFails`, `ConstraintFails` and `Rollback` are the catch blocks, and
`TryFails` leaves open whether SQLite has rolled back by itself. `draft` are
the rows inside the transaction, `rows` the committed ones, `target` what the
call is to make of them (computed from its arguments when it is made, for
`AllOrNothing` only). `ReleaseMemory` and `Destroy` come from other threads
and take the mutex. `known` and `spoiled` say which marked ids JavaScript was
given, and which a failed query left behind.

`isDestroyed` starts with any value: the constructor does not set it.
`unsafeExecuteMultiple` is the one call that does not take the mutex; it is a
script of the app and here deletes a row. A sync JSON is a sequence of ids with
a value of the right type, of the wrong one, or none, so that bindings left
from the record before would show.

### 2.6 Observation

A query is observed in one of four ways: simply (`subscribeToSimpleQuery`), by
reloading (`subscribeToQueryReloading`, for joins), and each of these with
columns. `js` is what JavaScript has: for each query its observers (`subs`), the
list they were last given, the records it observes, the age that tells a fetch
of an earlier subscription from one of this; the two lists of subscribers
(`db`, `col`), iterated in place as the code does; `raw`, the Models in the
cache; and what each consumer saw (the list, the columns' values it read then,
and which of them no notification had announced yet).
`sent`/`answers` are the fetches and the batch on their way to a driver that is
asynchronous, or (`sync`) empty for one that answers inside the call.
`Subscribe`/`Unsubscribe` include everything that `SharedSubscribable` does in
the call (replaying the last emission, starting the source, ending it), and a
consumer that leaves inside a notification (`once`: Rx `first()`, `take(1)`).
`NotifyDatabase` and `NotifyCollection` are one entry of each list at a time;
`BeginBatching`/`EndBatching` a scope of `experimentalBatchNotifications`;
`ResetObservables` the invalidation after raw SQL. A record has one value,
which decides whether the query matches it and what its column shows.

## 3. Runs

| run | instance | what it shows |
|---|---|---|
| `queue_disciplined` | `WorkQueueDisciplined.cfg` | types, `OneItemAtATime`, `TurnIsolation`, `NoSelfWait`, `BacklogIsWatched`, `RejectedNeverRuns`, `EveryCallSettles`, and that `SerialQueue` is implemented, liveness included |
| `queue_undisciplined` | `WorkQueueUndisciplined.cfg` | bodies that leave work behind, no detection: items still do not overlap, and one that blocks others is reported |
| `recordcache_queued` | 2 records, 3 changes, 2 calls on their way, failing batches, another tab | `NothingMissing`, `SentIsCovered`, `ModelsAreCurrent` |
| `recordcache_at_once` | violation | `NothingMissing` with a synchronous driver: finding 1 |
| `sync_one_call` | 2 records, 2 columns, new records built with one column or both, 3 edits, 1 fault; records and columns interchangeable | `EditsKept`, `DeletionsKept`, `Current` |
| `sync_converges` | 1 record, 2 columns, new records built with any of them, 3 edits, 2 faults, fair | `Converges` |
| `sync_two_calls` | violation | `Current` with two overlapping calls: finding 2 |
| `startup` | the 3 drivers, 3 app versions, seed steps for versions 1 and 3, 1 retry, 3 launches, 3 failures | `VersionTellsSchema`, `MarkerImpliesSeeded`, `DataKept`, `ReadsWaitForSetUp`, `ReadsAnswered` |
| `native` | 2 records, 3 calls, 1 failure, a cache of 3 or 4 statements | `HeldIsPrepared`, `CacheOwnsStatements`, `NoTransactionLeftOpen`, `MarkedIsKnown`, `AllOrNothing`, `CallsReturn` |
| `native_uninit` | violation | `DestroyCloses`: finding 3 |
| `observation` | 1 query of each kind, 2 consumers, 2 records, 3 subscriptions, 2 batches, 1 failing fetch | `ConsumersAreCurrent`, `NoEntryLeaks`, `NoEmissionAfterEnd` |
| `observation_skipped` | violation | `ConsumersAreCurrent` when an observer leaves in a notification: finding 4 |

Each passing run but `queue_undisciplined` and `sync_converges` also checks its
module's `TypeOK`.

Bounds. WorkQueue: each call is made at most once. `queue_disciplined` has one
reader and three writers: one item runs, two wait behind it, and sub-actions,
aborts and the watchdog meet a queue that shrinks and grows. The run without
the discipline has two writers, enough for an item that leaves work behind and
one that runs in its turn. RecordCache: two calls or answers on their way are
what an answer needs to be overtaken by a batch; two records are what a query
needs to be answered partly bare; three changes are a create, a change or
removal, and a re-creation. Sync: two records are what a push needs to be partly
rejected; two columns what a merge needs; three edits reach create, concurrent
edits on both sides and an edit during the push; one fault is any of them, at
any step. Liveness is checked for one record, which meets all of this but a push
that is partly rejected, and with two faults: a record lost between its removal
and its re-creation, and a lost answer after that. The theorems hold for any
number of records and faults. Startup: three versions are what a migration
over a gap, a downgrade and a `minVersion` need; three launches an interrupted
set-up, its repair and an upgrade; three failures exhaust a step's retries and
leave one. Native: three calls are what a mark needs to be set, lost and used;
a cache of three statements is the least that holds a mass destroy, so every
eviction happens that can; two records are what a batch needs to fail half-way.
The theorems cover the rest. Observation: two consumers share a query or follow
each other; three subscriptions are a return after leaving; two batches are a
change that overtakes the answer to the first one. Consumers that leave inside a
notification are in `observation_skipped` only: with them the property fails.
Runs without deadlock checking are those whose bounds end the behaviours.

Fairness. WorkQueue: timers fire, the adapter answers a batch, and if again and
again some body is not suspended, one of them ends (strong fairness on their
disjunction); nothing is assumed of bodies that await a call that never
settles. Sync: the app keeps calling `synchronize()`, and calls of the server
that do not fail are answered; edits and faults stop because they are bounded.
Startup: the driver goes on (`Proceed`) and a read that may go is answered;
nothing makes the app launch, write or reset. Native: the JavaScript thread goes
on with a call it has begun (`JsStep`), which it only does if the step it is at
needs no mutex it holds; alerts and calls need never come.

## 4. Findings

Each is shown by a run that TLC ends with a counterexample.

1. `recordcache_at_once`: with a synchronous driver, a query made while the code
   after `await adapter.batch()` has not run gets the bare id of a record that
   is not in the cache yet and throws (`src/Database/index.ts:527`).
2. `sync_two_calls`: a `synchronize()` begun while another one waits for
   `pushChanges()` is not aborted; the first then marks a record as synced over
   a newer server version that the second has already pulled, and
   `lastPulledAt` is past that version: the two sides differ until the record
   changes again (`src/sync/impl/synchronize.ts:78`; `Sync/Frontend.md:108` says
   a second call "will safely abort").
3. `native_uninit`: `isDestroyed_` is read by `destroy()` and `releaseMemory()`
   and set by no constructor or initializer; with a nonzero byte there,
   `destroy()` returns at once and the connection stays open
   (`native/shared/Database.cpp:59`).
4. `observation_skipped`: `Collection._notify` and
   `Database._notifySubscribers` iterate their lists in place; an observer that
   leaves inside the call makes `forEach` skip the next entry, whose observers
   miss the change (`src/Collection/index.ts:382`, `src/Database/index.ts:694`;
   `SharedSubscribable/index.ts:71` explains why its own loop takes a snapshot).

### Observed without a run

Seen while modelling, and stated by no run of the present set:

* `isWriterRunning` looks at the first queued item, not at whether it has
  started. Between the shift of a finished item and the `setTimeout` that starts
  the next, a continuation of the finished one can `batch()` although no writer
  runs (`src/Database/WorkQueue.ts:305`).
* The nested-call guard rejects a call when *any* code in the writer's context
  subscribes to it, awaited by the writer or not; the documentation promises
  that fire-and-forget calls queue (`src/Database/WorkQueue.ts:392`).
* After another tab's commit the complete row is decoded again and dropped in
  favour of the Model held (`src/Collection/RecordCache.ts:126`).
* A failed batch leaves Models with values that no row has: their pending state
  is cleared before the adapter is called. `ModelsAreCurrent` sets such records
  apart (`src/Database/index.ts:514`).
* A native query that throws half-way has marked the records it stepped over as
  sent; later queries answer bare ids for them. `MarkedIsKnown` exempts them
  (`spoiled`, `native/shared/Database-query.cpp:76`).
* A consumer that leaves at the value it is given while `invalidate()`
  subscribes again leaves the source subscribed: `_unsubscribeSource` is not set
  yet (`src/utils/subscriptions/SharedSubscribable/index.ts:62`). The passing
  run has no such consumers (`OnceAllowed`).
* If a reset of the adapter fails, the Database keeps the ErrorAdapter: `broken`
  in `Startup`, left only by a new launch (`src/Database/index.ts:888`).
* On native and Node, unlike wa-sqlite, the schema is set up without a second
  look at the version: a second context that was first loses what its user has
  written meanwhile. `DataKept` names the case (`raced`).

## 5. Proofs

`WorkQueueProofs` proves, for every set of calls, from the assumptions
`WritersAssumption`, `NoneAssumption` and `FlagsAssumption` of `WorkQueue`:
`Typing`, `Exclusion` (`OneItemAtATime`), `Isolation` (`TurnIsolation`, when
disciplined), `NestedDetection` (`NoSelfWait`), `Watching`
(`BacklogIsWatched`), `Rejection` (`RejectedNeverRuns`) and `Refinement` (each
step is a step of `SerialQueue` or a stutter).

The argument. `OneItemAtATime` is not inductive: it does not say that a call
waits in the queue at most once, nor that queued calls own themselves.
`QueueShape` adds that the queue has no duplicates and that its items, from the
second on or from the first when none runs, are exactly the queued calls.
`FlowShape` says what the bodies of sub-actions may be doing relative to the
item they belong to. For `TurnIsolation` a tree is needed: who called whom
(`CallTree`), with a well-foundedness statement (every nonempty set of calls
has one whose caller is outside it), because a body ends only after the bodies
it called, and so none is left when its item ends. `Shape` is the conjunction
that all theorems cite. Sequence facts (`Append`, `Tail`, removing an element)
are lemmas at the head of the module.

`StartupProofs` proves, for any versions, seed steps, retries, launches and
failures, from `DriversAssumption`, `BoundsAssumption`, `VersionAssumption` and
`SeedAssumption`: `StartupTyping`, `Versioning` (`VersionTellsSchema`),
`SeedMarking` (`MarkerImpliesSeeded`), `Keeping` (`DataKept`) and `Waiting`
(`ReadsWaitForSetUp`). What is missing from the properties is the state of the
adapter between two looks at the file: `SetUpShape` says that between
`initialize()` and the set-up the version is the one found unless another
context was first, and why an empty or unmigratable file was chosen for a
wipe; `SeedShape` that the steps left are those after the marker and that the
rows of a step are there before its marker is set; `GateShape` that nothing
lets a read through before the seed job ends. `LeastVersion` is why `Min` and
`Max` of the pending steps exist, from the well-foundedness of `<` on `Nat`.

`NativeDatabaseProofs` proves, for any records, batches, sync JSONs, tables,
calls and failures and any capacities, from `NoneAssumption`,
`ArgumentsAssumption`, `BoundsAssumption` and `CapacityAssumption` (a capacity of
at least three): `Typing`, `Owning` (`CacheOwnsStatements`), `Holding`
(`HeldIsPrepared`), `Closing` (`NoTransactionLeftOpen`), `Marking`
(`MarkedIsKnown`) and `Atomicity` (`AllOrNothing`). `OpShape` says where each
kind of call can be; `TxnShape` that outside its try block it has no
transaction; `CacheShape` is `CacheOwnsStatements` without its exception;
`HeldShape` that the held statement is the first of the list, or the second
when a mass destroy commits: with the capacity it follows that no eviction of
the same call reaches it. `MarkShape` adds that a reset begins by forgetting
the marks. `TargetShape` is the heart of `Atomicity`: what the call is to leave
equals what the operations left would make of the rows made so far, until
something fails. Its lemmas `BatchStep` and `LoadStep` say that doing the first
operation of a sequence and then the rest is doing the sequence; a sync JSON
with a record that comes twice has no such target, and never commits.
`StatementCacheProofs` has the lemmas on the list: a hit loses no entry and
moves one to the front, an insertion evicts what exceeds the capacity and only
that.

`RecordCacheProofs` proves `Typing` for any driver, and for one that answers
later (`~AtOnce`) `Covering` (`SentIsCovered`) and `NoneMissing`
(`NothingMissing`), for any records, bounds, failing batches and writes of other
connections, from `NothingAssumption` and `BoundsAssumption`. With a driver that
answers at once `NothingMissing` is false (finding 1), so the assumption is
needed. `NothingMissing` says nothing of the future; `SentIsCovered` does, and is
inductive with it and the types. The argument is over the queue of answers:
`Held` says, of a cache and a queue, that a record has a Model once n answers are
acted upon; `HeldAfterwards` what one more answer does to it, `HeldAtOnce` what
acting upon the first does. `CoveredByAnswer` and `CoveredByHandling` lift both
to the driver's set, and each action is an instance of one of them.

`RecordModelProofs` proves `ModelsCurrent` (`ModelsAreCurrent`) for a driver that
answers later, from the same two assumptions. The property is about the records
nothing is on its way for, so its invariant, `Sound`, has to say of every record
what is on its way for it. `Ordered` is what can follow what in the line of
answers and calls: nothing touches a record behind its creation, nothing follows
a reset, and an update behind a removal makes the record `revived`. `Patched`
says that a record being updated has its Model; `Fetched` and `Founded` that a
row or a created record on its way is the committed one unless a change of it
is answered behind it; `Shown` that a Model the answers leave in place shows the
raws of the last update still to be begun, or the row if there is none. With
nothing on its way that is `ModelsAreCurrent`. Four lemmas treat the four things
that can happen to the line: a call is added (`SoundByCall`, `SoundByBatch`), the
first is answered (`SoundByAnswer`) or done without an answer
(`SoundByForgetting`), the first answer is acted upon (`SoundByHandling`).

`SyncProofs` proves `Typing` for any number of calls at a time and, for one
(`OneCall`), `KeepsEdits` (`EditsKept`), `KeepsDeletions` (`DeletionsKept`) and
`StaysCurrent` (`Current`), for any records, columns, drafts, edits and faults,
from `DraftsAssumption`, `BoundsAssumption` and `NothingAssumption`. With two calls `Current` is false
(finding 2), so the assumption is needed. None of the three is inductive: each
hangs on what the call carries. `PulledFrom` says what a pull still tells of the
server once other clients have gone on (a row changed since then has a time
after the pull's) and of the local database, and that a row listed as created
changed after the pull's `since`: a record whose removal was committed and whose
re-creation was not is thus one that the next pull brings; `ApplyShape` that after the batch
the database is as current as the time about to be stamped, which is why the
stamp may be a transaction of its own. `Unaccepted` says that a record whose
push the server does not have yet is not one whose deletion would be undone by
it; `Accepted` that what was pushed is at the server, after `lastPulledAt`;
`DeletionPushed` that a record to be removed has nothing else to push.
`LocalShape` says that a record that is not new is known to the server, so that
a replacement removes only what was deleted there. `EditsKept` itself needs no
case for new records: the columns a builder set are in `_changed` from the
start, and win when a record comes back after a lost answer. The invariant
is stated twice, by call and by record (`RestByRecord`), so that a step has to
argue only about the records it touches (`RecordUntouched`).

`ObservationProofs` proves `Typing`, `EntriesAreOwned` (`NoEntryLeaks`),
`SourcesEndSilently` (`NoEmissionAfterEnd`) and `ObserversAreCurrent`
(`ConsumersAreCurrent`), for any records, queries, consumers
and kinds of observation, drivers that answer at once or later, and any batches,
subscriptions and faults, from `NoneAssumption` and `KindsAssumption`, for
consumers that do not leave in the call that gives them a record
(`~OnceAllowed`). That is needed: an observer that leaves while `invalidate()`
subscribes to the source anew leaves the source subscribed
(`SharedSubscribable/index.ts:62`), and its entries in the lists. The properties
hang on each other, so one invariant carries all: `Channel` says where the one
batch awaited is among requests and answers; `Registered` which entries the two
lists have, and that an observer's entry for columns comes before its source's;
`Aged` that nothing is on its way to a source that is not subscribed to, or to
one of later; `Once` that a simple observer has its list, its error or exactly
one fetch under way, so that it registers once; `Shown` what all consumers of a
query were last given. What an answer or a notification does to an observer is
the same in many actions (`Emission`, `Keeps`), and stated once: `AnsweredIs`,
`FetchesIs`, `CollectionChangedIs`, `ColumnsChangedIs`, `JoinsIs`, `LeavesIs`,
`RestartsIs`.

`ConsumersAreCurrent` speaks of the moments when nothing is under way; most of
its invariant says what else explains a difference, whenever something is.
`Stored` is about the data: a Model shows its row unless its update is awaited
or has failed (`Models`, `Awaited`), nothing is written inside a notification
(`Phases`), an answer tells the rows unless the batch was executed after it
(`Accurate`), and the last change still to be announced about a record tells
whether it has a row (`Settles`). `Follows` is about one query: consumers were
given the observer's list (`Emits`); an emission put off comes, with the source
(`Pends`); the list has the records that match, but for those whose change the
source is still to hear of, while a fetch is on its way, or after one that failed
(`Fresh`); the values remembered are the Models', but for updates still to be
announced (`States`), and the consumers saw them (`Seen`). `WiredStep`, `StoredStep` and `FollowsStep` gather the actions, each from the
invariants before it. The order `Registered` states is needed here: a simple
observer of columns puts its emission off until its matcher was called, which
comes later in the same list.

Model-checked only: liveness (`EveryCallSettles`, `StuckItemIsReported`,
`Converges`, `ReadsAnswered`, `CallsReturn`, the fair part of the refinement),
since TLAPS proves neither fairness nor `ENABLED`.

## 6. Not modelled

In `WorkQueue`: the heuristic for engines without an async context; `SubAction`
is the call through the reader or writer interface, while `Model.callWriter`,
`callReader` and `subAction` do not look whether their item still is the one that
runs, which makes no difference to bodies that await what they start. In
`RecordCache`: a native query that throws half-way through its rows (it is in
`NativeDatabase`, where it spoils the marks), LokiJS's `_clearCachedRecords`,
turbo sync. In `Sync`: turbo, migration syncs, replacement restricted by a
query, `_unsafeBatchPerCollection`, conflict resolvers, records made from raws
(`prepareCreateFromDirtyRaw`), a batch that changes Models and fails (the Models
are then out of step with the rows: `ModelsAreCurrent` names the case). In
`Startup`: reads handed to a second
database during a reset, the waiting connection of Node and its queue, closing.
In `NativeDatabase`: the conversion of arguments and results, the parsing of
JSON, the log, a rollback that fails and leaves its transaction open. In `Observation`: `subscribeToCount`,
`KeyedSharedSubscribable`, a consumer that ends its subscription twice; a
query's matcher is taken to agree with its SQL.

Without a module: LokiJS (its batch is not a transaction, and documented so),
the dispatcher's failing workers and reference counts, the weak value cache
(its subject is garbage collection), pure builders of queries and schemas,
`getSyncChanges`, React integration, the remote adapter, diagnostics, platform
glue, among it `native/shared/DatabaseBridge.cpp`, whose `install()` is for
Windows only and in no Windows project. Most of the C and C++ lines in the
repository are third-party: SQLite, simdjson, and the Pods of an iOS test
target (fmt, glog, DoubleConversion); they are external to every module.
`PROJECT.json` gives the reason for each component.

## 7. Plan

1. `Dispatcher`: the wa-sqlite dispatcher's set-up state, failing workers,
   reference counts of connections; the Node bridge's waiting connection, whose
   queued calls `close` drops.
2. Pure functions against reference definitions: `getSyncChanges`, the matcher
   against the SQL encoding; `Loki`.
3. `Observation`: an abstract specification, in which a consumer is given what
   matches at some moment between two of its emissions, and the proof that
   `Observation` implements its safety part; the theorems without
   `~OnceAllowed`, for queries none of whose consumers left inside a
   notification.
