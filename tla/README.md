# mcp-persist: specifications, model checking and proofs

mcp-persist gives MCP servers resumable event streams: every event sent to a
client is stored under an increasing id, and a client that reconnects with a
`Last-Event-ID` gets what it missed.  Around the stores there are wrappers
(batching, tiering, session scoping, encryption), a proxy that gives a server
resumability from the outside, a registry of sessions that survives a restart,
retention and archiving jobs, and an audit trail of tool calls.

This directory holds TLA+ specifications of the parts whose correctness depends
on the order in which concurrent things happen, TLC configurations that check
them on small instances, and TLAPS proofs of their main invariants for every
value of the constants.

Paths such as `batching.py` are in `src/src/mcp_persist/`.

## 1. The system: components, state, operations

Everything is `asyncio`: tasks of one process interleave only where the code
awaits.  Several processes ("workers") may share a backend.

| Component | State it keeps | Operations | Interacts with | Modelled in |
|---|---|---|---|---|
| Batching store (`batching.py`) | `_pending`, `_id_block`, two locks, flush task, `_closed` | `store_event`, `flush`, `_flush_loop`, `aclose`; every other operation flushes first | inner Redis or Postgres store | `Batching` |
| Stream buffer (`_stream_buffer.py`) | window `_deque`, `done`, `_exc`, `_waiters` | `_consume`/`_ingest`, `consume_from` of each client, `aclose` | store, proxy | `StreamBuffer` |
| SQLite store (`sqlite.py`) | rows, forks, id sequence, one connection with an open transaction, `_pending`, `_commit_lock` | store, flush, commit loop, close, replay, fork, purge, subscribe | wrappers, schedulers, registry on the same file | `SqliteStore` |
| Redis store (`redis.py`) | hashes, a sorted set per stream, counter, fork keys, ttls | store (script or pipeline), trim, replay, prune, fork, publish/subscribe | wrappers, schedulers | `RedisStore` |
| Postgres store (`postgres.py`) | rows, forks, identity sequence, a pool | store, paged replay, fork, purge, LISTEN/NOTIFY | wrappers, schedulers | `PostgresStore` |
| Tiered store, archiving (`tiered.py`, `stored.py`) | none of its own | write to hot, replay from both, fork both, archive a batch | two stores, archive scheduler | `Tiers` |
| Schedulers, retention (`scheduler.py`, `retention.py`) | one task each, a policy | purge, archive, tenant retention with audit entries | stores, audit sink | `Tiers`, `Upkeep` |
| Migration, portability | none of their own | copy streams between stores, export, import | stores | `Upkeep` |
| Durable session manager (`session_manager.py`) | the SDK's transports in memory, `_shutting_down` | open, adopt, register, touch, reconcile, terminate | registry, shared by workers | `DurableSessions` |
| Session registries (`sessions.py`) | a record per session: owner, handshake, timestamps, terminated | register, get, touch, terminate, purge, list | session manager, command line | `SessionRegistries` |
| Proxy (`proxy.py`) | `_buffers`, credentials of each buffer | POST, GET, replay then live, close | stream buffers, store, upstream | `Proxy` |
| Session-scoped store (`session_scope.py`) | none of its own | prefix stream ids, refuse a foreign replay | any store | `Proxy` |
| Record flusher (`recorder.py`) | bounded `_queue`, `_task`, three counters | `submit`, `_run`, `start`, `aclose` | middleware, record stores, lifespan | `RecordFlusher` |
| Record stores (`records.py`) | a table, or hashes and an index | store, list, count, purge | record flusher | `RecordStores` |
| SSE parser, encryption, compression, configuration, command line, dashboard, health, metrics, tracing, debug, FastMCP glue | none, a line buffer, or read-only | transform, read, show | all of the above | see 7 |

### Behaviours that are hard to get right

* **Batching.** A batch is written outside `_lock`, so events come in meanwhile;
  a failure puts a tail back; several flushes overlap; a cancellation may hit at
  any await, also in the handler of a failure; the timer must neither stay
  disarmed nor start a second loop; a crash may lose events whose ids were
  returned.  Correct: no accepted event disappears unaccounted for, ids stay in
  order, `flush()` is a barrier, a durable event never hides an earlier one.
* **Stream buffer.** The store is read while frames keep coming and fall out of
  the window; a consumer parks between two of them; the stream ends or fails
  meanwhile; a client resumes with an id of another stream.  Correct: each
  message once, in order, none skipped, no client left parked.
* **Event stores.** Ids taken by one writer become visible after higher ids of
  another; write-behind shares SQLite's one transaction with everybody who
  commits; a replay reads page by page and segment by segment along a chain of
  forks; Redis trims, expires and prunes lazily.  Correct: a replay returns
  exactly the history of its stream above the cursor, in order, and misses only
  what was removed; what was acknowledged becomes durable.
* **Tiering and upkeep.** Copy-then-delete races with a replay and with another
  archiver; a crash comes between the two; a deletion is audited after the
  fact; a migration reads a source that is being written to.  Correct: nothing
  lost between tiers, a faithful replay across them, an audit trail that
  matches, copies without holes, a backlog that is cleared in the end.
* **Durable sessions.** Two workers adopt, register and terminate one session;
  a record expires or is rewritten partly; shutdown must not look like
  termination.  Correct: a session is adopted whole and by its owner only, its
  end is recorded only for cause, and whenever the manager could notice it (not after
  every crash, see 3), and it is never revived.
* **Proxy.** A buffer is looked up before, and registered after, an upstream
  round trip; replay and live reading overlap; all sessions share a store.
  Correct: a reconnecting client gets what it missed, once, of its own session.
* **Record flusher and record stores.** The close has a budget, the backend may
  never answer, every path must call `task_done()`; records are written by
  pipelines that are no transactions while others list and purge.  Correct: what
  is lost is counted, once; the close always comes back; a listing misses no
  confirmed record.

`PROJECT.json` lists these hazards at their lines, with the properties that
cover them or the reason why none does.

## 2. Modules

| Module | What it is |
|---|---|
| `WriteBehindLog` | abstract specification: what a write-behind store promises |
| `OrderedSequences` | sequences of ids in increasing order, and picks from them |
| `Batching` | `BatchingEventStore`, with its callers, flusher, close and backend |
| `StreamBuffer` | one upstream stream and its clients |
| `RecordFlusher` | the queue of records, its writer and the owning lifespan |
| `RecordStores` | the flusher composed with each record store, listings and purges |
| `ForkHistory` | rows, forks, and the history a stream is meant to have: the reference definition |
| `EventHistory` | adds the streams and the tenant filter |
| `EventTable` | what the three event stores share: tables, the walk of a fork chain, subscriptions |
| `SqliteStore`, `RedisStore`, `PostgresStore` | the writes and the reads of each |
| `EventStores` | composes them, and states the properties |
| `Tiers` | two stores, archivers, and `ChainedEventStore` |
| `Upkeep` | adds purging, retention with auditing, migration and dumps |
| `SessionRegistries` | the three registries |
| `DurableSessions` | adds the workers' session managers |
| `Proxy` | the proxy, and a server with session-scoped stores |
| `MCBatching`, `MCEventStores`, `MCUpkeep`, `MCDurableSessions`, `MCProxy`, `MCRecordStores` | their instances for TLC |
| `OrderedSequences_proofs`, `Batching_proofs`, `StreamBuffer_proofs`, `RecordStores_proofs`, `EventStores_proofs`, `Upkeep_proofs`, `DurableSessions_proofs`, `Proxy_proofs` | proofs |

A step of a model is what a task does between two awaits (or yields of an async
generator); where the other side of an await is a database, each statement or
command is a step.  Operators whose comment begins with "Mutant of" are wrong
variants of the definition that follows; `PROJECT.json` pairs each with the
property that finds it out.

### Batching

| Code | Model |
|---|---|
| `_pending`, `_id_block`, `_next_flush_at is not None`, `_closed` | `pending`, `idBlock`, `armed`, `closed` |
| `_lock` while it is held across an await; `_flush_lock` | `lock`, `flushLock` |
| locals `batch`, `written` of the flush in progress | `batch`, `written` |
| where a task awaits | `pc[t]` |
| `store_event` | `StoreFromBlock`, `StoreAwaitIds`, `AllocateOk`, `AllocateFail` |
| `flush` | `EnterFlush`, `TakeNothing`, `TakeBatch`, `WriteOk`, `WriteFail`, `Requeue`, `Finish` |
| `_flush_loop`, `_ensure_flusher` | `FlusherCheck`, `FlusherWake`, `EnsureFlusher` |
| `aclose` | `CloseBegin`, `CloseFlush`, then a flush by the task `Closer` |
| cancellation at each await | `CancelInAlloc`, `CancelInWrite`, `CancelOutsideWrite` |
| the process dies and starts again | `Crash` |

An event is its id.  `_lock` is a variable only where it is held across an await
(the allocation, line 131).  The inner store is one of three kinds: Postgres
writes a batch atomically, Redis in a pipeline whose commands apply one by one,
and a store with only `_store_event_with_id` gets one event at a time.  An
interrupted call may have stored any part its kind allows.  Ids other processes
allocate show as a gap between two blocks.  A call that is refused (closed,
backlog full) changes nothing and is a stutter.  A `store_event` whose
size-triggered flush fails raises although its event is retained; the model has
it in `accepted` but not in `returned`.  Not modelled: a cancellation of the task
that calls `aclose`, and late effects of a write after its failure was reported
(writes are idempotent by id).

### StreamBuffer

| Code | Model |
|---|---|
| `_deque`, `done`, `_exc` | `window`, `done`, `failed` |
| `_consume`, `_ingest`, `_notify` | `Frame`, `Commit`, `Ingested`, `Ended`, `Notify` |
| one `consume_from()` generator | `pc[c]`, `cursor[c]`, `items[c]` |
| a pass of its loop | `Pass`, then `YieldNext`, or `Answer` and `Resume` after a cold read |
| the store, shared by all streams | `log`: an event's id is its position |

The store's read and the consumer's resumption are two steps, since frames come
in between.  `owed`, `overrun`, `behind` and `delivered` are history: what a
client may count on, and whether more than a window of frames came in while one
empty answer was on its way.  A client without a `Last-Event-ID` begins with
whatever the window holds at its first read, as the code documents (lines 37-38,
157-160).

### Event stores

| Code | Model |
|---|---|
| the events table / hashes; sorted sets; forks; the id sequence | `rows`, `index`, `forks`, `seq` |
| what SQLite has committed | `disk` |
| rows whose `created_at` is before the ttl cutoff | `old` |
| where a coroutine awaits, and its locals | `op[p]` |
| SQLite `store_event` | `SqStore`, `SqStored`; write-behind: `SqInsert`, `SqCount`, `SqFlush`, `SqCommitted`, `SqFlushed` |
| its commit loop, `aclose`, a crash | `Wakes`, `SqClose`, `SqClosed`, `SqCrash` |
| Redis `store_event`: the script; `INCR` and a pipeline | `RdStore`; `RdIncr`, `RdHset`, `RdZadd`, `RdTrim` |
| key expiry | `RdExpires`, `RdKeyExpires` |
| Postgres `INSERT` | `PgInsert` (takes the id), `PgCommits` (becomes visible) |
| `fork_stream`, `purge_expired`, `purge_tenant` | `SqFork`, `SqPurge`, `SqPurgeBatch`, and so on |
| `_get_stream_segments` | `Link`, one lookup at a time |
| `replay_events_after` | `Resolve`, `Link`, then `SqRead` per segment, `PgPage` per page, `RdChunk` per chunk, or `RdIds` and `RdPayloads`; `RdPrune` |
| `subscribe` | `SqSubscribe`, `SqPoll`; `Publish`, `Deliver` |

The backend is chosen in `Init`: SQLite committing every event or in write-behind
mode, Redis with and without scripting, Postgres.  A statement on SQLite's
connection is a step; its transaction ends with whoever commits next, hence a
row whose commit failed is carried by the next commit.  Time is the set `old`:
any row may at any moment be past the cutoff, older ones first.  An operation
whose connection breaks may or may not have had its effect.  The key of a Redis index
expires once no payload of its stream is left but what is being written: every write
renews both, the index last, so its old ttl may elapse after the `ZADD` of a pipeline
and take the new member along (`RdKeyExpires`).  A subscriber of a networked store is
attached at any moment; `before` notes whose `store_event` was over by then.

### Tiers and Upkeep

| Code | Model |
|---|---|
| the hot and the cold store; the source and the destination | `hot`, `cold`, with `hotForks`, `coldForks`, `seq`, `coldSeq` |
| `archive_expired_batch`, the cycle of `ArchiveScheduler` | `Select`, `Copy` (row by row), `Delete`, `Fails` |
| `ChainedEventStore.replay_events_after` | `AskFirst`, `AskSecond`, `ReplayHot` or `ReplayCold`, `ReadSegment`, `Walk` |
| its `fork_stream` | `ForkHot`, `ForkCold`, `ForkColdFails` |
| `PurgeScheduler` | `Purge`, `PurgeGivesUp` |
| `RetentionScheduler` with `strict_audit` or without | `Wakes`, `NextTenant`, `PurgeBatch`, `PurgeFails`, `Record`, `RecordFails`, `CycleEnds`, `Restarts` |
| `migrate`; `export_stream` and `import_stream` | `Migrate`, `NextStream`, `Fetch`, `Put`, `StreamDone`, `StreamFails`, with `job` "migrate" or "dump" |

A behaviour runs one job (`job`).  The stores are at the grain of their queries:
`EventStores` looks inside them.  The coroutines of the two stores (archivers,
readers, the scheduler tasks) are different ones, as `TiersAssumption` says, and
streams are finitely many.  `moved` notes the rows that went from hot to
cold, or left hot, while a replay was reading: those it may miss, since it reads
one tier and then the other.  `Wanted` is what a replay is for: the history of the
stream by the forks of the tier that answers it (hot if hot has the anchor); a fork
that has not reached cold hides its parent's part there.  Fork points are of events that exist, and streams
are forked before they have events of their own.

### SessionRegistries and DurableSessions

| Code | Model |
|---|---|
| a row; a Redis hash with its expiry and index member | `reg[s]`, a field of the hash that is missing being `Absent` |
| rows a release before 2.1.1 left under a NULL tenant | `legacy`, `MigrateNullTenants` |
| a registry call in progress | `call[c]`; one step on SQL, several on Redis (`RdExists`, `RdWrite`) |
| `_server_instances`, a transport | `table[w][s]`, `transport[w][s]` |
| `_handle_stateful_request`, `_try_adopt` | `Opens` ... `Opened`; `Arrives`, `LooksUp`, `Adopts`, `Touched`, `Handled` |
| the response held until the session is recorded | `ResponseStarts`, `Answers` |
| `_reconcile` | `ReconcileCreated`, `ReconcileVanished`, `ReconcileUsed` |
| the termination hook | `Deletes`, `IdlesOut`, `Cancels`, then `HookRecords` |
| `run()` leaving, the process gone and started again | `Stops`, `Dies`, `Starts` |
| `mcp-persist sessions terminate` | `OperatorTerminates` |

The MCP SDK, which opens sessions, checks principals and dispatches requests, is
external and modelled as the code uses it; where its versions differ
(`OpeningFails`) both are allowed.  Redis' `register` is applied field by field;
the writes of `touch` and `terminate` after their existence check are one step.  A
server task that fails (`ServerFails`) drops its transport without `terminate()`: the
session is as good as ended only if a request that had it is still to do its
bookkeeping (`Missed`); otherwise nobody tells the registry.

### Proxy and session-scoped stores

| Code | Model |
|---|---|
| `_buffers`; every `StreamBuffer` made | `buffers`, `bufs` |
| `_handle_post`, `_handle_get` | `Post`, `Get`, then `Refused`, `Conflict` or `Accepted` once the upstream answered |
| `_replay_then_live`, `consume_from` | `Replayed`, `Consumes` |
| `close_all` | `CloseAll` |
| `SessionScopedEventStore` | `ScopedStore`, `ScopedResume`, `ScopedLook`, `ScopedReplay`, where `front` is "scoped" |

The upstream is external: it refuses a credential it does not accept for the
session, of which there may be several (`Accepts`: one that was rotated and the one
that replaced it), and answers 409 to a second standalone stream.  So a live stream is
shared at once only with requests that carry the credential it was opened with
(`Get`), and with another one after the upstream's own verdict (`Conflict`).  Here a buffer's window is never too
small; `StreamBuffer` treats what happens when it is.  That a finished buffer is
never evicted (the eviction looks for a task that is made later, `proxy.py:393`)
is modelled as it is.

### RecordFlusher and RecordStores

| Code | Model |
|---|---|
| `_queue`, its unfinished count | `queue`, `unfinished` |
| `_run`, `_collect` | `writer`, `batch`; `Collect`, `WriteOk`, `WriteFail`, `WriterCancelled` |
| `submit`, `start` | `Submit`; `StartCall`, `StartEnd` around `initialize()` |
| `aclose` | `CloseCall`, then `CloseTimeout` or `CloseDrained`, then `CloseEnd`; or `CloseCancelled` |
| `_closing`, `_accounted_at_shutdown` | `closing`, `accounted` |
| `store_records` on SQL; on Redis | `SqliteStores`, `PgStores` or their `Breaks`; the commands `Hset`, `Expire`, `Zadd`, `Evict` in `pipe` |
| `list_records`, `count`, `purge` | `SqliteList`, `PgList`, `RdList`, `ListGets`, `ListTurns`, `ListEnds`; `Count`; `SqlPurge`, `RdPurge`, `PurgeDels`, `PurgeZrem` |

The store "other" stands for a `RecordStore` of the application, which may take
any part of a batch.  Its answer is how many records it took; one that answers
`None` is not modelled.  A cancellation that hits `aclose` while it awaits the
writer is swallowed by the code (lines 183-184) and so by the model.  Instants
are whole seconds, and so is what `EXPIRE` is given (`records.py:807`): a hash may be
reclaimed up to a second before its record has aged out (`Fading`, `Reclaims`), or up to
a second later (`Tick`).  A step of `RecordStores` is one of `RecordFlusher`, with its
effect on the store, or leaves the flusher's variables alone.

## 3. What the runs check

Sizes are those of the complete state graphs; every run takes less than five
minutes with two workers.

| Run | Instance | Distinct states |
|---|---|---|
| `batching` | 2 callers, 2 flusher slots, the closer; batches of 2, backlog 2; 4 ids; 2 faults, 1 crash; 3 backends | 3.0 million |
| `batching_liveness` | the same tasks on Postgres; 2 ids, 1 fault | 26 thousand |
| `stream_buffer` | 2 clients that connect twice, a window of 1, 3 events and one of another stream | 1.7 million |
| `event_stores` | 2 writers, 1 reader, 2 streams, 2 tenants, pages of 1; per backend 2 or 3 stores, up to 2 forks, 2 faults and a replay or subscription | 1.9 million |
| `upkeep` | 7 jobs; 2 archivers or a reader; 2 streams, 2 tenants, batches of 2; 3 or 4 events, up to 2 faults, 1 fork | 821 thousand |
| `durable_sessions` | 2 workers, 2 requests, 2 sessions, 2 principals, a limit of 1 session per worker; 3 registries, 2 mixes of failures each | 1.5 million |
| `proxy` | 2 clients, 2 sessions, 2 credentials, one accepted by both sessions and one by the first only; 3 events, 2 buffers, 3 requests; both fronts | 1.6 million |
| `record_flusher` | queue and batch of 2; 4 records, 2 starts, 2 cancellations over any store; 2 to 4 records with listings (limits of 1 and 2), purges and up to 3 seconds over the concrete ones | 3.0 million |

**batching** – *Conservation*: an accepted event is in the backend, in the part
of the batch still to write, in the buffer, or accounted as lost by a crash or
by a twice interrupted flush.  *GlobalOrder*: batch tail, buffer and id block
stay sorted.  *FlushBarrier*: what was accepted before a flush that returned is
durable.  *DurablePrefix*: with an atomic or an item-by-item backend nothing
durable has an earlier event still waiting.  *NeverUnattended*: buffered events
always have a live flusher.  *LogSpec*: the store refines `WriteBehindLog`
(`durable <- persisted`, `lost <- crashLost \cup dropped`).

**batching_liveness** – *EventuallyResolved*: an accepted event gets out.

**stream_buffer** – *OnceInOrder*, *NoSkipWithinWindow*: what a client receives,
over all its connections; *EveryoneReleased*: everyone is let go at the end.

**event_stores** – *ReplayComplete* and *ReplayExact*: a finished replay is the
history of its stream as `ForkHistory` defines it, from the anchor on, of its
tenant, once and in order, except for what was removed or expired meanwhile; a
chain of forks that loops is left.  *AckedReachesDisk*: what was acknowledged
survives a crash (SQLite), or is counted and will be committed by the next flush
(write-behind), or stays indexed (Redis, against the pruning of a concurrent
replay).  *SubscriberSound*: nothing twice; a polling subscriber gets all that came
after the newest row at its start, in order, and nothing else; one that is notified
gets nothing whose `store_event` was over when it attached.  *NoLateArrival*: with
SQLite and the Redis script an event appears behind every row that is stored and, but
for write-behind, behind every id that was ever returned, also of rows since purged.
In write-behind mode a crash gives returned ids out again (`ids_never_reused`).

**upkeep** – *NothingLost*: what was stored is in one of the tiers, however
copies and deletes of archivers overlap or fail.  *ReplayFaithful*: a replay
across tiers is in order, without duplicates although events may be in both, and
misses only what moved while it read, or expired in hot.  One replay is empty instead:
that of a client that names no stream and whose anchor an archiver took between its two
lookups in hot.  *AuditMatches*: the
audit trail claims no deletion that was not made, and all that were, unless a
purge or the process broke off halfway.  *MigrationFaithful*: copies are
prefixes without holes; complete for a stream without an error.  *Drained*: the
backlog of expired events is cleared in the end.

**durable_sessions** – *AdoptedWhole*: a transport has the owner and the
handshake the session was registered with.  *TerminatedForCause*: the
registry says terminated only of a session that was deleted, idled out, discarded with
its opening request, ended by the operator, or found gone by a request after a crash.
*EndIsRecorded*: of these it does say so, if no call failed.  A crash that no request
meets is not among them: the session stays live.  *AnsweredIsRecorded*: an id a client was given
can be found by every worker.  *NeverRevived*: a recorded termination stays.

**proxy** – *OwnSessionOnly*, *SentInOrder*, *NoGapOnResume*: what a client is
sent over one connection, through sharing (at once, or after a 409 with another
credential of the same session), replay and the switch to live.  *NoGapOnResume* is about
the standalone stream, resumed from one of its own events while one buffer feeds it.

**record_flusher** – *Accounting*: the counters and what is still queued or in
flight add up to what was submitted, plus what a timed-out close counted and
left in the queue; *WrittenIsStored*, *DrainBarrier*; *CloseReturns*: a close
comes back although the store may never answer.  *ListComplete*: a listing
misses no confirmed record but for its limit, purges and what is within a second of
its ttl, and shows no record before it has shown all newer ones of those.

Each module has one type invariant, `TypeOK`, which also says how its variables
hang together.

### Where the code does not do what it says

Four runs expect TLC to find a violation, of a sentence of the repository:

| Run | Said | Done |
|---|---|---|
| `backlog_retained` | "the backlog is retained for retry" (`batching.py:58-59`) | a second interruption, while the failed flush waits for `_lock`, drops the batch |
| `ids_never_reused` | SQLite's ids are "strictly increasing, never reused" (`docs/backends.md:99`) | in write-behind mode the id sequence is part of the transaction a crash drops |
| `branch_of_branch` | forking "allows branching an existing session at any point" (`docs/api.md:429`) | a fork of a fork, at an event that was inherited, replays the ancestor's later events too |
| `adopted_again` | a terminated session "is never adopted again" (`docs/sessions.md:101`) | a worker that read the registry before the termination, and waits for its creation lock, adopts it |

`Conservation` (with `dropped`), `AckedReachesDisk`, `ReplayExact` (with the two
streams of `event_stores`) and `NeverRevived` say what holds instead.

Four more sentences do not hold as they stand.  Here a property of a passing run says
what the code does, the case that contradicts the sentence included:

| Property (run) | Said | Done |
|---|---|---|
| `TerminatedForCause` (`durable_sessions`) | a session ended by "a crash" is "never adopted again" (`docs/sessions.md:101`); crash paths "all funnel through `transport.terminate()`" (`session_manager.py:301-303`) | a server task that raises drops its transport without `terminate()` (`session_manager.py:448-453`): unless a request had the session, it stays live in the registry |
| `ReplayFaithful` (`upkeep`) | "resumability tokens stay valid across the move" (`docs/tiered-storage.md:57`) | an anchor found in hot (`tiered.py:98`) and archived before hot's own replay looks it up (`tiered.py:105`) gives a client that names no stream an empty replay; cold is not asked |
| `SubscriberSound` (`event_stores`) | "Only events written *after* the subscription is established are delivered" (`redis.py:1001`, `postgres.py:1176`) | the notification is sent after the event is stored: who attaches in between gets an event from before |
| `AckedReachesDisk` (`event_stores`) | without scripting the loss of atomicity is "bounded" by payloads without index or the reverse that clean themselves up (`redis.py:517-521`) | the index's old ttl may elapse between the `ZADD` and the `EXPIRE` of one pipeline: the event was returned, is stored, and is in no index |

### Why these bounds are enough

*Batching.* Two callers and the flusher make three overlapping flushes, one per
role; two ids per block and per batch make partial batches, full buffers and a
second block; two faults interrupt one flush twice or two flushes; one crash
meets each stage.  A second flusher slot is there for a loop that is ending
while the next one starts.  *StreamBuffer.* A window of one makes every frame
evict; three events leave room for a resumed cursor and an overrun; two clients
interact only through the window.  *Event stores.* Pages, chunks and purge
batches of one put a boundary behind every row; two streams make a fork, or a
loop with the two forks of the Redis instance, and the streams are alike, hence
the symmetry; a third stream is needed for a fork of a fork, in
`branch_of_branch`.  Write-behind has three stores, so that a full buffer is
flushed while another store waits, and two faults.  The number `all` caps how
many operations are combined.  *Tiers and Upkeep.* Batches of two, so that a
batch is copied partly and a full batch is followed by another; four events give
two archivers different, overlapping batches; two faults stop both, or one
twice.  *DurableSessions.* A limit of one session, two requests and two workers
race for an adoption; `MCBound` lists, per registry, the combinations of
openings, uses, failures, stops and expiry, since together they would be too
many: what one registry leaves out another has.  *Proxy.* Two buffers are a live
one and its replacement; three events are one replayed, one live and one of
somebody else.  *Records.* The flusher by itself is checked over a store that
takes any part of a batch, with restarts and cancellations; over the concrete
stores one lifespan suffices, and `MCBound` again lists combinations.

### Fairness

*Batching:* `asyncio.Lock` wakes its waiters first-in first-out, so a task that
finds a lock free again and again gets it (strong fairness of the steps of a
flush and of the loop); backend calls return or raise, and a requested
cancellation is delivered (weak fairness).  Callers need not call.
*StreamBuffer:* a connected client keeps reading and the store answers;
the upstream and `Connect` are not fair.  *RecordFlusher:* timers, cancellations
and finished awaits are served; a write may never answer.  *Upkeep:* a scheduler
wakes at every interval and its queries return or fail (weak fairness of an
archiver's steps and of the purge); faults are bounded, so a cycle that runs
through comes.  The other modules state no liveness.

Deadlock checking is off where the system may stop for good: a stream that has
ended with all its clients gone, a flusher closed for the last time, and, in the
modules whose operations are counted, a run that has used them up.

## 4. What is proved

Every theorem holds for any number of tasks, clients, workers, sessions, ids,
faults, crashes, batch sizes and bounds, under the assumptions the modules name:
the tasks and callers are distinct, the backend is one of those listed, the
limits are naturals (the capacity of a window, a batch and a session table
positive), as the constructors require.  `ManagerAssumption` also says that
callers of a registry are the requests, the hooked session tasks and the command
line, which are different things.  Each safety property follows from an
invariant that is inductive, proved step by step: a lemma per action, and
*frame* lemmas that say what a step keeps which leaves a part of the state
alone.

**Sequences** (`OrderedSequences_proofs`).  Ids are listed in increasing order by
their rank, the number of members not above them: such a list exists for every
finite set of ids (`Ascending`), has exactly its members, and a part picked from
an increasing list is increasing (`Picked`); the rows of a set listed in the order of
their ids (`Sorted`) are its rows, each once.  These lemmas need induction over
the naturals, which is done by hand, through the least counterexample.

**Batching** (`TaskAssumption`, `BackendAssumption`, `LimitAssumption`).
`TypeCorrect` and `TypedAlways` prove `TypeOK /\ StageInv`:
`StageInv` says which task holds which lock at which stage and that the batch in
flight belongs to the owner of `_flush_lock`; without it a step of one task
could be thought to change the batch of another.  `AlwaysAttended`
(NeverUnattended) rests on `Attended`: as long as events are buffered or being
written the timer is armed, and until `aclose()` an armed timer has a flusher
that lives.  The part about what is being written is the one needed: a failed
flush puts its batch back without looking for a flusher.
On `StageInv` rests `OrderInv`: issued ids are below the
counter and the accepted ones below the id block, each sequence is sorted and
the batch below the buffer, nothing is lost or duplicated, durable events form a
prefix.  Each step is shown either to append one new id on top, or to *drain*:
part of what was waiting becomes durable or lost, the rest keeps its order.  From
it follow `NothingDisappears` (Conservation), `OrderSurvivesFailures`
(GlobalOrder) and `PrefixDurable` (DurablePrefix).  `BarrierInv` adds what a task
in `flush()` must see written: nothing it waits for is in the buffer once its own
batch is in flight, because whoever holds `_flush_lock` took it all.  It gives
`FlushIsBarrier` (FlushBarrier), and with the same case analysis
`ImplementsLog`: `Spec => LogSpec`, every step maps to a step of
`WriteBehindLog` or to a stutter.

**StreamBuffer** (`WindowAssumption`).  `Sound` has, besides the types, three
parts.  `WindowSound`: the window has no hole and ends with the newest frame
ingested, but for the one stored and not yet appended.  `ReadingSound`: what a
client received lies at or below its cursor, what it is being given above; this
is `ReadsOnceInOrder` (OnceInOrder).  `OwedSound`: the next events it is given
start where the last ones ended, *or* the window has moved past its cursor, which
is when it waits with an old cursor; `behind`, how far, is what ties a count taken
before an await to the window after it.  It gives `NothingMissed`
(NoSkipWithinWindow).

**Proxy** (`ProxyAssumption`).  `Sound`: buffers are those of the stream they are
registered under, each window holds ids of that stream in increasing order, a
request is served from a buffer of its own session only, once the upstream has accepted
its credential (for that request, or for the buffer it shares), and what it got is increasing and below what comes next.  `BuffersTyped` (TypeOK),
`NobodyReadsOthers` (OwnSessionOnly) and `NothingTwice` (SentInOrder) follow.
`NothingSkipped` (NoGapOnResume) needs `Gapless` too: a window that alone was fed
its stream has no hole since its first event, and a resumed client has all of it up to
where it stands, or is still to be given it.  A buffer that a replacement shares
its stream with is excepted, in the property as well.

**Durable sessions** (`ManagerAssumption`).  `Typed` (`SessionsTyped`) comes first;
the others are layers over it, each kept by every step of three registries:
`Who` (a session in a table belongs to who created it, and a record's owner is
that one or not yet written: it gives the owner half of adoption), `Reasons`
(whatever makes anybody call `terminate` on the registry is a cause, and a crash that
no request meets makes nobody call it: `EndsForCause`, TerminatedForCause), `Lasting` (a record marked as ended is not reset, since a
register only comes before the answer: `EndsLast`, NeverRevived), `Handshakes`
(no worker adopts a record without the client's handshake, but for the record an
older release wrote: `AdoptsWhole`, AdoptedWhole), `Listed` (a session that was
answered has a whole record, and a listing prunes none in use: `AnsweredStays`,
AnsweredIsRecorded) and `Ending` (a session that was deleted, idled out, discarded or
crashed under a request is on its way to its record: `EndsReach`, EndIsRecorded).  What makes them hold is the order of the
commands of one register in Redis, which `Commands` follows.

**Event stores** (`TableAssumption`, `PendingAssumption`, `LengthAssumption`).
`Typed` (`StoresTyped`, TypeOK) ties what a writer is doing to the store it writes
to, so that the steps of one store are impossible in another.  `Numbered`: where an
id is taken and its row made visible in one step, every row has an id the sequence
has given out, on disk as well, which is what a crash goes back to; `Passed`: where every
event is committed before it is returned, neither sequence is behind a returned id.
`NobodyLate` (NoLateArrival) follows.  `ReturnedIsDurable` (AckedReachesDisk) rests on two
invariants.  `Saved`, for SQLite: a row is owed to the disk from the moment it is
counted, before its id is returned; as long as one is owed, something is pending,
nobody is about to set the count to zero, and `aclose` has not gone past its
commit.  `Indexed`, for Redis: a member of an index has its payload or had it and it
was removed, so what a replay finds stale, and prunes later, is of removed events
only.  `NothingTwiceNothingSkipped` (SubscriberSound) rests on `Reading`: a poll of
SQLite leaves the cursor at the newest row it saw, and later rows come above it,
because ids come in order there (`Numbered`, `Distinct`); and on `Flights`: of the
events being written by a networked store no two have one id, and no subscriber was
told of one of them yet, so the id it is told of is new to it and not of a call that
was over when it attached.

**Replay** (the same assumptions).  A replay reads the fork table link by link, then
the segments page by page, while rows come and go, so what it has still to do is
said of where it stands.  `Replayed` is that invariant, for one replay and whatever
the others do.  `Owed`: each event the client is to get was returned, or was removed
or expired, or is a row of a part of the chain that is still to be read (`Ahead`), of
which the row read last bounds the first segment.  `Walked`, during the lookups: what
is in the history and in no segment yet is in the history of the stream the walk has
come to, with as many links left as were not taken.  Both hold as long as the fork table
is the one the replay began with and does not loop (`Live`), which the properties ask for
as well (`Settled`).  `Apart`: in a networked store the ids of rows and of
rows being written are different ones, and an index entry is of the row with its id, so
that a page of ids finds the payloads it is about.  With them `NothingLostInReplay`
proves ReplayComplete, and `ReplayStaysInBounds` that at no moment a replay has an event
from before its anchor or of another tenant, and that a walk ends within as many
lookups as there are streams, also of a loop (`ReplayBounded`, which no run checks).
`ReplayIsTheHistory` proves ReplayExact with `Exact`: the segments, and what was read
of them, are the history and nothing else, one after the other.  It holds while no
stream was forked off a fork at an event from before that fork's own fork point
(`Nested`): without that it is false, which is what `branch_of_branch` shows.  With the
two streams of `event_stores` a fork of a fork is a loop, hence no such hypothesis in
the run.  `Nested` is about the whole fork table at the time the answer is looked at.

**RecordFlusher.**  The invariant is `FlusherInv == TypeOK /\ Phases /\ Places
/\ Accounting`: `Phases` ties the stage of the lifespan to the writer and to the
guard `_accounted_at_shutdown`, `Places` ties the unfinished count to queue and
batch and keeps the two disjoint.  `FlusherTypeCorrect`, `LossIsCounted`
(Accounting), `WrittenIsConfirmed` (WrittenIsStored) and `CloseDrains`
(DrainBarrier) follow.  They are about `RecordFlusher` with a store that may take
any part of a batch, which `StoresAreBackends` (`StoreSpec => Spec`) shows SQLite,
Postgres and Redis to be.

**Record stores** (`RecordStoresAssumption`).  `ListingsAreComplete` (ListComplete)
needs `StoreInv`, over `FlusherInv`.  `Clocks`: of two records the one submitted
later is not the older.  `Contents`: a SQL table has what is stored and not purged.
`Piped`: the pipeline is about the batch being written and gives a record its hash
before its member.  `Indexed`: in Redis a confirmed record has hash and member, or it
aged out or a purge took it; a member without a hash is such a record, so what a
listing finds stale, and drops from the index later, is nothing it has to show (a
hash that is reclaimed early is within a second of its ttl, `Gone`); and
what enters the index is newer than all of it.  `Purging`: a purge takes the oldest
of the index and all that is confirmed below.  `Listed`: while a listing turns pages,
a record it has to show was shown, or is on its page, or is older than the page and
has a rank not read yet.  New members come in on top, which only raises that rank,
and evictions, purges and pruning take newer ones away only if the record itself has
aged or was purged too; `AboveGrows`, `NewestFirstFacts` and `SliceFacts` count the
ranks.

**Archiving and retention** (`TiersAssumption`, `UpkeepAssumption`).
`ArchivingLosesNothing` proves NothingLost.
It is not inductive by itself: a delete is safe only because of what its
archiver copied before, perhaps long ago and while another one was at work.
`TierInv` adds that both stores hold stored events under their own ids, each
held once (`Numbered`; without it an upsert of one event could replace
another), and, for each archiver, that what it has ticked off its batch is in
cold (`ArchiverAt`).  Steps of others only enlarge the set of stored events and
the cold store, which keeps that true (`ArchiverKept`).  `Shape` adds the fields a
coroutine has at each of its stages (`UpkeepTyped`, TypeOK).  `Books` says that
the audit trail lags behind the deletions by what a purge has counted and not
yet recorded, and by no more unless it broke off; `AuditExact` (AuditMatches)
follows.

**Migration.**  `MigrationKeepsHistories` (MigrationFaithful) joins two things.  First,
the segments a replay of a source computes (`Segments`, a recursive function) hold the
history of the stream (`Heirs`, another one): `SegmentsFacts`, by induction over the depth
of a chain, done by hand, for fork tables in which a fork of a fork is at a later event
than its own fork point.  That those tables are such is part of `Grown`: a stream is forked
before it has events of its own, and at an event of its parent's, which is then later than
the parent's own fork point.  Second, `Copying`: of a stream under way (`Halfway`) the
copies are in the order of the source, the queue and the segments not yet read come after
them, in this order, and all that was in the source when the migration began is in one of
the three; other streams are copied faithfully already, or not begun.

**Replay across tiers.**  `ResumedAcrossTiers` (ReplayFaithful) rests on three invariants.
`Tiering`: cold has the oldest events and hot the newest, with an overlap; whatever left
hot had expired; and the batch of an archiver is the oldest of what hot has.  The order
matters: the second half of a replay starts after the last event that cold sent, which
would skip an event that is in hot only and older than one in cold.  `LateForks`: the fork
table of cold is that of hot but for forks that have not reached it, so a segment read
from cold holds events of the history or fewer.  `Resuming`: each event the replay is for
was sent, or moved or expired, or is `Pending`, which says for each stage (asking hot,
asking cold, reading a tier, between the two) where it will be found, except for the
client whose anchor left hot after it was found there, which ends with nothing (`Unresolved`); what was sent is of
the history, in order, and below what comes next.  The steps of the others are shown to
keep it through `View`, the part of the state a replay sees.

**Only model-checked.**  Liveness (`EventuallyResolved`, `EveryoneReleased`,
`CloseReturns`, `Drained`), since proofs of properties that rest on fairness and `ENABLED`
are beyond the prover here; and what the four runs refute.  All other properties of the
runs are proved.  The library's induction theorems take a predicate, which no prover here
can instantiate; where a proof needs induction (ranks of ids, chains of forks) it takes a
least counterexample among the naturals.  Modules with theorems use no recursive operator,
but recursive functions.

## 5. How the abstractions relate to each other

`Batching` takes its backend's atomicity as given; `PostgresStore` and
`RedisStore` show single writes in detail, not the id-preserving bulk writes.
`Proxy` takes a stream buffer that never loses an event to a reader;
`StreamBuffer` says when that is so (`NoSkipWithinWindow`).  `Tiers` and `Upkeep`
take each query of a store as one step; `EventStores` shows what pages and
segments of a replay may miss (`ReplayComplete`).  `RecordStores` and
`DurableSessions` are compositions: every step of the flusher, or of a session
manager, is joined with the step of the store or registry it calls.

## 6. Plan

Done: the modules above, their runs, and a theorem for every safety property.  What is
left, the most useful first:

1. Two workers that each allocate id blocks over one store: what a client that
   resumes after a high id may miss.
2. A rerun of a migration, and a Redis source whose listing repeats a stream.
3. That the replays of `Upkeep`, a step per segment, abstract those of `EventStores`, a
   step per page; and liveness, should a prover for it be at hand.

## 7. What is not modelled, and why

* Encryption and compression (`encryption.py`, `compression.py`) transform bytes
  and keep no state; configuration, dashboard, health, metrics, tracing and debug
  read or print; the command line only wraps operations of the stores, of which
  `sessions terminate` is modelled.
* The SSE parser is sequential text processing; its only effect here is a frame
  that is skipped.  Of the recording middleware, that a request submits a record
  at any moment is modelled, building the record is not.
* `fastmcp.py` wires the parts together; its lifespan is the owner of the
  `RecordFlusher` model.  Two owners that start or close one flusher at the same
  time are left out: there is one.
* Of `session_scope.py`, that a transport is given its scoped store when it is
  registered is taken as given.  Of the proxy, DELETE, plain JSON answers and
  the copying of headers are left out.
* Redis Cluster, where the commands of a pipeline go to several nodes; the raise
  of the Redis counter without scripting.  Payload codecs and schema changes in
  `initialize()` of the event stores.
* `PayloadPolicy` of the record stores, which selects fields, and `store_record`,
  which nothing in the package calls.  What comes in
  during a Redis listing may stand behind older records, or be shown twice, since
  pages are cut by rank (`records.py:344` says "newest first"): with room for six
  records and pages of two, TLC answers a listing with `<<1, 2>>`.  `ListComplete`
  is about the records that were confirmed before the listing began.
* A second `migrate` into the same destination, which copies everything again
  under new ids; events the source cannot decode, which are skipped and counted;
  a `SCAN` of Redis that names a stream twice, or one that is new since it began
  (the source of `Upkeep` lists its streams in one query, as the SQL stores do).
* Time: a timer is an action that may fire, age is a set of rows, and in the
  record stores a clock of a few seconds.
