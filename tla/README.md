# scand: a formal model

scand is a C++ service that keeps a local PostgreSQL copy of two catalogues: the
products of an Ozon shop and the products and stocks of a 1C (KA2) database. It
serves an HTTP API, pushes progress to browsers over server-sent events (SSE),
takes webhooks that trigger syncs, and resumes interrupted work when it starts.
This directory holds TLA+ modules that model its parts, TLC configurations that
check them on small instances, and proofs that TLAPS checks for every instance.
Line numbers are those of the files under `src/` of the repository.

## 1. Inventory

| Part | State | Operations | Talks to |
|---|---|---|---|
| Worker pool (`worker_pool.cpp`) | bounded FIFO, `accepting_`, `stopping_`, `active_` | `try_submit`, `stop_accepting`, `wait_idle`, destructor, `worker_loop` | SyncService submits, main drains it |
| Ozon sync (`sync_service.cpp` 108-114, 173-380, 398-509) | `ozon_running_`, `ozon_stop_`, `shutting_down_`, `ozon_job_id_`, progress; the checkpoint in memory and in `sync_state`; the job in `sync_runs` | trigger, full, stop, reset, resume, the paged run | pool, Ozon API, database, notifier; called by HTTP handlers, webhooks and main |
| 1C full sync (`sync_service.cpp` 119-163) | `running_`, checkpoint `onec` | `trigger_full`, `trigger_single`: no caller | pool, 1C, database |
| Product catalogue pull (`onec_product_catalog.cpp`, `sync_service.cpp` 514-580) | `pc_running_`, `inventory1c_products` | pull (of HTTP threads, of SyncService) | 1C OData, database |
| Inventory pull (`handlers.cpp` 92-418, 938-1564) | `g_inventory_generation`, `InventoryPullState`, `inventory_checkpoints`, `sync_runs` | start, progress of four stages, status, resume, reset; detached threads | KA2 reader, snapshot import, SSE |
| KA2 reader (`onec_ka2_inventory.cpp`) | chunks in flight | chunked and parallel reads | 1C OData |
| Snapshot import (`inventory_repository.cpp`, `inventory_preview.cpp`, `handlers.cpp` 92-220, 614-838) | snapshot, stocks, costs tables; enabled warehouses | save, preview, edits of the warehouses | KA2 reader, database |
| SSE (`sse_broker.cpp`, `http_server.cpp`) | subscribers, last id, history of 500 | add, replay, broadcast, close | notifiers, browsers |
| Connection pool (`db_pool.hpp`) | eight connections, condition variable | lease, return | every repository |
| Webhooks (`ozon_handlers.cpp`, `hooks_handlers.cpp`, `webhook_store.cpp`) | ring of 500 webhooks | receive, list | Ozon sync |
| Process (`main.cpp`) | the order of start and shutdown | start, resume, signal, drain, exit | everything |
| Router, URL rewriting, preflight, raw logs, mappers, utilities | none worth modelling | pure functions or I/O | |

What is hard: several threads (HTTP, webhook, resume at start) drive one run that
a pool worker executes; flags are atomics without a common lock; the checkpoint
lives in memory and on disk and database errors are swallowed; job records share
one id variable; a process may crash or time out its own shutdown; a reset
frees the lock of a live run; detached inventory threads outlive their
generation; SSE replay races broadcast. `PROJECT.json` lists each such place as a
hazard with its line and the properties that watch it.

What makes each part correct:

* pool: exactly-once, FIFO, bounded; no lost wakeup; a true idle report; a
  destructor that returns;
* Ozon sync: one run at a time; the checkpoint never ahead of the data; every
  record closed, by its own job; crashed work is found again, stopped and
  finished work is not; a stop request survives; the service never stays busy;
* inventory pull: only the newest generation shows its progress; one open
  checkpoint; what a restart resumes was cut off, and what was cut off is found;
  the newest pull closes its record;
* SSE: no event falls between replay and broadcast, none comes twice without a
  replay, the events of one thread keep their order, and every event is written;
* imports: all or nothing; every stock in the table is of a recorded snapshot, and the
  last snapshot has all of its stocks there; the costs are those of the last; what a
  client is told of its batch is so; the stocks are the latest ones (they are not:
  finding 5);
* catalogue: it is one reading of 1C, never a mixture of two, as long as the readings
  have a product in common;
* KA2 reader: it ends, reads nothing twice, and what it leaves out it gave up for a
  reason and, where costs are concerned, shows;
* connections: each is given back, whatever way its transaction ends.

## 2. Modules

| Module | Models | Status |
|---|---|---|
| `TaskService` | what a pool promises: accepted tasks run once, in order of acceptance | done |
| `WorkerPool` | `worker_pool.cpp` and the shutdown part of `main.cpp` that uses it; implements `TaskService` | done |
| `WorkerPool_proofs` | type correctness, three safety invariants, the refinement | done |
| `OzonSync` | the Ozon side of `SyncService`, the rows it owns, start and shutdown | done |
| `OzonSync_proofs`, `OzonLock_proofs` | the checkpoint argument; mutual exclusion, records, resume and shown progress | done |
| `InventoryPull` | the inventory pull of `handlers.cpp`, its two repositories, reset, restart and resume | done |
| `InventoryPull_proofs` | type correctness and four safety invariants | done |
| `SseBroker` | `sse_broker.cpp` and `handle_sse` of `http_server.cpp` | done |
| `SseBroker_proofs` | types; writes into one socket never overlap; no event is missed, doubled or out of order | done |
| `Snapshot` | pure: the filter and the sums between a read of 1C and its import | done |
| `Preview` | pure: `inventory_preview.cpp` | done |
| `OnecTables` | the tables of the 1C side, connections, and transactions as PostgreSQL runs them | done |
| `SnapshotImport` | the save of a snapshot, statement by statement | done |
| `ProductCatalog` | the pull of the catalogue in its transaction | done |
| `SnapshotLedger` | what an import promises its client: recorded whole, once and for good, or not at all | done |
| `OnecStorage` | composes `SnapshotImport` and `ProductCatalog` over `OnecTables`; implements `SnapshotLedger` | done |
| `OnecStorage_proofs`, `OnecCosts_proofs` | whole snapshots, true answers, leases, the catalogue, the refinement; the costs of the latest | done |
| `Ka2Read` | `Ka2Inventory::pull` with its teams of threads, and the preview built from it | done |
| `Ka2Read_proofs` | types; nothing is read twice; what is not read was given up for a reason | done |

`SnapshotImport` and `ProductCatalog` EXTEND `OnecTables`, which EXTENDS `Snapshot`;
`Ka2Read` EXTENDS `Preview`, which EXTENDS `Snapshot`, so that the reader and the
import agree on what a snapshot is. The MC modules give the constants their values;
`MCOzonFaults` also splits the behaviours of `OzonSync` into three environments (see
the runs). Not written: an abstract event stream for `SseBroker`, and the composition
of the pool with the destruction of `SyncService` at shutdown.

### WorkerPool and the code

State: `tasks`, `accepting`, `stopping`, `active` are the members with an
underscore; `phase[w]` is where a worker is in `worker_loop` (waiting for the
mutex, asleep on `cv_`, in a task body, gone); `notifies` counts `notify_one`
calls that were issued outside the mutex and have not taken effect. One action is
one critical section (`TrySubmit`, `Sleep`, `Take`, `Exit`, `Finish`, `WaitIdle`,
`Destroy`, ...) or one notification (`NotifyOne`, `NotifyAll`). Spurious wakeups
are `SpuriousWakeup`. A task that throws ends like one that returns (`Finish`):
`worker_loop` catches. After the destructor has begun only tasks that still run
may submit; other threads hold no reference then.

### OzonSync and the code

An action is one access another thread can see: an atomic flag, a section under a
mutex, or a database transaction. `pc[t]` is where a caller is between two such
accesses of `trigger_ozon_sync`, `trigger_ozon_full`, `stop_ozon` or
`reset_ozon_progress`; `Boot` is the main thread in `resume_on_start`, which runs
while the server already takes requests. `run[j].phase` is where the pool worker
is in `run_ozon_sync` for the job `j`:

`queued` (in the pool) -> `begin` (checkpoint loaded) -> `loop` (flag test and
fetch) -> `store` (details and upsert) -> `mem` (SyncStateStore) -> `save`
(sync_state) -> `loop` or `end` -> `record` (read the shared job id) -> `write`
(finish the record) -> `free` (clear the flag); `retry` and `giveup` are the two
saves of a failed fetch.

Data is abstracted: pages are `1..Pages`, a cursor is the last page seen, and a
job is a number (the code's ids come from a microsecond clock; the model takes
them to be unique). `stored` and `lost` say whether the details of a page
reached the database or a failure was passed over (`PageLoss`); `DbFaults` lets
any statement on `sync_state` and `sync_runs` fail, as the repositories or
their callers swallow such errors: a checkpoint that cannot be read is the empty one
(`ReadCursor`). `PageUpserted` takes a page for stored once its details were,
whatever prices came with them (a request for prices that fails leaves zeros). An
answer without items that can be used ends the run at any cursor, as does one that is
the last or is not full (`FetchPage`). A page that comes without its `last_id`, after
which the code would start over at the first page, is taken not to happen. The pool is reduced to what `WorkerPool`
proves of it: an accepted run is executed once, by one of `Workers` threads, or
refused (`PoolRejects`, or after `stop_accepting`). `Crash` may come at any
moment; `Exit` is the end of `main`; both forget everything but the tables.
At exit after a timeout the model simply drops the runs that are left: the
destruction of SyncService under a pool that still joins is not modelled.
Exceptions that leave `run_ozon_sync` are not modelled either (the clients and
repositories it calls catch their own).

### InventoryPull and the code

`task[j].at` is where the handler of `POST /api/1c/inventory-pulls` is, and then
its detached thread. The handler: `bump` (the generation) -> `close_recs`,
`close_cps` (both `abandon_running`) -> `show_new` (`start_new`) -> `insert_rec`
-> `open_cp`, `insert_cp` (`InventoryCheckpointRepository::start`). The thread:
`work` (a stage), then a report, which is `check` (emit compares the generation)
and, if it is current, `show` (emit writes `InventoryPullState` and broadcasts);
`mark` notes a completed stage in the checkpoint and prepares the next one; the
last report leads to `gate` (the second look at the generation), and from there
to `end_rec`, `end_cp` and, after an exception, `show_thrown`. `report` is what
is reported next; the exits of the code differ only in it and in the wording of
the error.

The start transaction is two steps because two requests may run it at once:
`seen` holds the rows its UPDATE reached, and the INSERT fails when another start
has committed a running row since (the unique index over running rows,
`006_inventory_checkpoints.sql`). The handler swallows that error, and the model keeps
the pull going without a checkpoint, as the code does. Every other transaction
is one step, and its failure is not modelled. `Reset` counts as a request, so it
takes an HTTP thread; its Ozon part belongs to `OzonSync`. A crash and an orderly
shutdown are one action, `ProcessEnds`: neither waits for detached threads.
`Restart` is the two `mark_interrupted`, `FindUnfinished` and `ResumePost` are main and
`resume_inventory_pull_async`. Percentages, the map of stages and the data that the
stages move are left out; a stage ends as done, failed or thrown.

### SseBroker and the code

`bc[b]` is a thread in `broadcast_with_id`: `Number` is its first section (id and
history), `List` the second (a copy of `subs_`), `SendTo` one call of
`SseSubscriber::send`. Every caller uses automatic ids, so explicit ones are left out.
`conn[c]` is a connection in `handle_sse` after its headers were written: `Add`,
`ReadHistory` and `Replay` (`replay_to`), `SendInit`, `TakeResume`
(`take_pending_resume`), then its keep-alive thread, `KeepAlive` and `Reap`.
`sock[c]` is the subscriber: `open_`, `writing_`, `write_buf_`, the threads on their
way to `do_write` (`kicks`) and the writes that have begun (`chunks`). An event is its
number; the messages that carry none (init, resumed, keep-alive) only set the flag
`note` of a buffer. What is left of a replay is the set `missed`, sent oldest first.
`from`, `got` and `sender` are history variables the properties need. Calls
on one socket from several threads (`close` against a write) race inside asio; their
effect here is a write that fails.

### The 1C storage and the code

`OnecTables` is PostgreSQL as the repositories use it, and external: a transaction
sees what was committed when a statement starts, and its own rows (`Sees`); it
waits while another holds a key it writes (`Free`), and an INSERT fails on a key that
is taken (`Clashes`). `ins[s]` and `del[s]` are what a session has not committed. A
DELETE takes the rows it saw when it started, in the versions the commits of others
leave of them (`Survivors`): a row another transaction updated is deleted in its new
version, one that was deleted and inserted again with the same key is not.
A lease of `ConnectionPool` is an element of `leases` and lives as long as its
transaction, as in the code; `acquire` waits until there is one. The waiters of its
condition variable are not told apart: `release` puts the connection back before it
notifies, and `acquire` tests again under the mutex.

In `SnapshotImport`, `at[i]` is where a request to save is. `Ask` is the SELECT of the
SKUs, all or those one of the filters `ref_key`, `offer` and `limit` leaves, with the two
answers it may give at once (none, an error); then `pull` (the read and
`pull_to_snapshot`; an exception of the read is the answer) -> `check` (the batch
exists? any statement of it may fail) -> `delete`, `deleting` (a DELETE
takes the rows it saw when it started, once their locks are free, hence two steps)
-> `warehouses` -> `stocks` -> `costs` (one by one) -> `commit` -> `answer` (the COMMIT
has taken effect, the client has not been told). `CommitInDoubt` is a connection that
breaks under the COMMIT after it took effect: `commit()` throws, and the client gets an
error for a snapshot that is recorded. `ImportRefused` is a
constraint that refuses; `ImportFails` is any other error, also the one PostgreSQL
raises to break a deadlock of two imports. The code's consequences are kept: an
error reading the enabled warehouses lets all of them pass (`Pull`); the two DELETEs of
the costs are one statement here (that each has its own view of what is committed makes a
difference only where `mixed` holds); stocks have no
ON CONFLICT (`InsertStocks`), so a second snapshot with a stock of the first always
fails (finding 5); quantities are cut to whole pieces row by row (`Pieces`). What a read of 1C
may return is a constant here, whole or with chunks lost, and the subject of
`Ka2Read`.

`SnapshotLedger` is what remains of all this for a client. A request is `waiting`, then
`recorded`, then answered; `Record` stores the snapshot and its stocks in one step under
a batch that is not on record. `Repeat` answers a duplicate. `Decline` and `Refuse` change nothing, but an
error may also follow a record (`Record` with the answer `failed`), and `Die` answers
nobody: a client without `imported` has to ask again, and is then told the truth. In
the mapping (`Ledger` in `OnecStorage`) the ledger and the stocks are the committed rows,
and the statements of a transaction before its COMMIT are stutters.

In `ProductCatalog`, the HTTP threads have no limit on their number; those of
`SyncService` go through `pc_running_` (no route calls that method yet). The
connection is leased before the first page is read (`BeginPull`), and the pages are
those of the catalogue as it is at each request. The UPDATEs of `onec_code` join an
identifier of 1C with an article and match no row; they are left out.

### Ka2Read and the code

`reader[r]` is a thread of `read_chunked_parallel` or `read_balance_chunked`: it takes
a chunk under the mutex (`Take`), asks for it (`Receive`, `Fail`, `UrlTooLong`,
`AnswerOdd`) and adds its rows under the mutex (`Push`). A step is one HTTP request and
what is done with its answer. `parts` are the halves of a chunk still to be asked
for (the recursion of `process_chunk`), `skip` and `attempt` are those of `read_page`.
The joins are the five reads of `pull` in their order. As in the code, a balance is
one page, whose further rows are never asked for (`top`); 414 halves a balance but
ends a chunk of a flat read (`url`); an answer that is no JSON throws in a flat read,
which the request reports once all threads have ended, and counts as empty in a
balance. `lost` is a history variable: the keys given up, and why. Rows become sets
in `PulledRows`, which `NothingTwice` justifies for what is added up. The pages are told
apart by `$skip`, without an `$orderby`: the model takes it that 1C keeps one order
of its rows as long as they are not edited. Every caller passes
a null `stop`, and `read_chunked` has no caller: neither is modelled.

## 3. Runs

| Run | Instance | Shows |
|---|---|---|
| `worker_pool` | 2 workers, queue of 2, 4 tasks | the pool implements `TaskService`; no lost wakeup of a worker or of `wait_idle`; the idle report is final; the destructor returns |
| `ozon_sync` | 2 callers (trigger, stop) and the start, 2 pages, 2 failures, a pool that may refuse, 2 syncs, 1 restart | one run, own and single records, no orphan record, crashed runs resumable, no lost stop |
| `ozon_faults` | 1 caller and the start, 1 page, 1 failure, 2 syncs, fairness, in one of three environments: trigger and full, every statement may fail, 1 restart; trigger and stop, shutdown and 1 restart; trigger and reset, two runs at once | the checkpoint is covered, the shown progress ends, the flag is released |
| `ozon_stopped` | trigger, stop | violation: a stopped sync is resumed (finding 1) |
| `ozon_done` | trigger | violation: "done" with pages missing (finding 2) |
| `inventory_pull` | 2 HTTP threads, 2 pulls of users, a reset or an end of the process | one open checkpoint; the newest working pull is resumable; done is recorded; the newest closes its record |
| `inventory_silent` | 2 pulls, one request at a time | violation: a superseded pull shows its progress (finding 3) |
| `inventory_cut` | as `inventory_pull` | violation: a restart resumes a pull that was not cut off (finding 4) |
| `sse` | 2 broadcasting threads, 1 connection, 2 events, a history of 1, fairness | nothing missed, no needless duplicate, order per thread, one write at a time, every event written, broken connections forgotten |
| `onec_storage` | 1 importer with 3 requests, 2 with 2, 1 beside a pull, 3 pulls, 2 pulls; 2 batches; 1 edit, 1 change of 1C, 1 death; any statement may fail | every stock is of a record and the last snapshot is whole, answers are true, the costs are of the latest, the catalogue is one reading, nothing is leaked and the pool never exceeded; the imports implement `SnapshotLedger` |
| `onec_stale` | 1 importer with 2 requests, goods that move to another warehouse in between | violation: stocks that are gone stay beside the latest (finding 5) |
| `ka2_read` | 2 threads, 3 SKUs in chunks and pages of 2, URLs of 1 or 2 keys, 2 failures, 1 odd answer, 1 edit of 1C, fairness | nothing twice, every loss has a reason and shows, the read ends |

Bounds. In the pool, four tasks over a queue of two and two workers make it
refuse, fill and drain in every order. In the Ozon runs two syncs let any
operation of one overlap the end of the other or follow a restart; two pages
distinguish first, middle (a cursor between) and last; two failures distinguish
a retry from giving up; two callers and the start race for the claim. `MaxJobs`
is a guard of `ClaimRun`: a trigger that could claim a third sync stays where
it is, which is why deadlock is not checked. The system may also really stop:
after `MaxRestarts`, a process that is down stays down. Callers are symmetric in
`ozon_sync`, whose properties are all safety properties. `ozon_faults` has one page
and one failure, as two runs at once, or failing statements, multiply the states: one page
still has a cursor before it and one behind it, and `CheckpointIsCovered` and `NoGhost`
are proved for any number of both. Its environments are a constraint on the steps of
`OzonSync` (`Narrowed`: which requests come, whether statements fail, whether the
process ends); the number of restarts that a behaviour begins with, which `OzonSync`
itself only bounds, names the environment. A thread or a run that can move can move in
each of them, so no behaviour is cut off under the fairness of `OzonSync`.

In the inventory runs two pulls race through their whole handlers and threads; the
one break is a reset, which races with both, or an end of the process, after which
the resumed pull is a third and may race with one that a user posts after the
restart. Two HTTP threads are what it takes for two starts to overlap. The counters
`posts` and `breaks` are guards of `PostPull`, `Reset` and `ProcessEnds`; when they
are used up and the pulls have ended, the system is at rest, hence no deadlock check.
`OnlyCutPullsResume` compares with `cut`, a history variable.

In `sse` two events over a history of one make the history drop an event before,
between and after the steps of a handshake. One connection is enough, as connections
meet only in the broker's set and history. `MaxEvents` is a guard of `Number`. With a
history of two and three events the safety properties were also checked without
fairness (6.7 million states).

In `onec_storage` a crew is the set of threads a behaviour is about (`Crews`), which
keeps all of them from meeting at once: two importers show every order of two
transactions, three requests of one importer a batch, its repetition and another
batch; an importer beside a puller share the catalogue and the pool of two connections;
three pullers mix both variants and exhaust the pool. `MaxEdits`, `MaxChanges` and
`MaxCrashes` are guards of `EditAllowed`, `OnecChanges` and `Crash`; `quota` is one of
`Ask`. Pages of two rows and a limit of four stand for pages of thousands.
In `ka2_read` the production values (chunks of 40 and 200 keys, pages of 10000 rows,
1000 for a balance, 16 threads, 3 attempts) become 2, 2, 2, 2, 2 and 2, so that a read has a full,
a partial and an empty page, a chunk to halve, and a team that shares chunks. Two
failures use up the attempts at one page. The system stops when the requests are
answered: both runs check no deadlock, and `PullEnds` says that `Ka2Read` stops only so.

Each property also has a mutant: a definition of the module replaced by a
plausible bug (the operators commented `Mutant:`) that TLC finds to violate it
under the same configuration.

Fairness. `WorkerPool`: the scheduler runs every thread that can take a step and
delivers a notification that was issued; tasks end. `OzonSync`: a handler
that has begun is carried through, a worker goes on with its run (every HTTP
call has a timeout, every sleep ends), main finishes a shutdown it has begun.
Nothing is assumed of requests, signals, crashes or restarts. `InventoryPull` has
safety properties only and states no fairness. `SseBroker`: a broadcast and a
handshake that have begun go on, a write completes or fails, the keep-alive thread
wakes up; nobody has to broadcast or connect. `Ka2Read`: the request is carried through and
each of its threads is scheduled; a request to 1C ends, by its time limit if by nothing
else. Nothing is assumed about failures, which are bounded by `MaxFaults` and
`max_retries` alone. `OnecStorage` has safety properties only.

### Findings

1. `StoppedIsFinal`: `run_ozon_sync` saves no status when it was stopped
   (`sync_service.cpp:332-346`), though `sync_checkpoint.hpp:17` and
   `has_unfinished_ozon_sync` (469) know `"stopped"`. The row keeps `"stopping"`
   or `"running"`, and the next start resumes what the user stopped.
2. `DoneMeansStored`: the results of `fetch_info_batch` and `upsert_batch_ozon`
   are ignored (282, 303), so a sync that lost a page ends `"done"`, which
   `sync_checkpoint.hpp:16` documents as successful, and later syncs continue
   behind the lost page.
3. `SupersededIsSilent`: `emit` compares the generation (`handlers.cpp:1015`) and
   then writes the shown state, with nothing held in between. A pull superseded
   meanwhile shows its progress over the new one's, though the comments at 948
   and 1014 say that threads of old generations fall silent.
4. `OnlyCutPullsResume`: when two starts overlap, the older one may win the insert of
   the checkpoint. Superseded, it never closes it, and the newer pull, which has none,
   cannot. After both have ended a restart finds it interrupted and pulls
   again; `main.cpp:237-238` says that what it finds was cut off by the restart.
5. `StocksAreTheLatest`: `sql/002_inventory.sql:20` calls `inventory1c_stocks` the latest
   stocks. An import inserts its stocks and deletes none (`inventory_repository.cpp:237`;
   `cleanup_older_than` deletes snapshots only, and has no caller). Goods that moved to
   another warehouse are then in both. And as the INSERT has no ON CONFLICT, a snapshot
   that has a SKU and a warehouse in common with what is stored is refused as a whole:
   those stocks never become newer. `StocksAreRecorded` holds for the code as it is, and
   would hold if it replaced the stocks.

## 4. Proofs

All theorems hold for every value of the constants the `ASSUME`s allow.

* `WorkerPool_proofs`: `PoolInv` is inductive. It strengthens the checked
  invariants by: `active` is the number of workers in a task body; a task is in
  one place at a time; the flags follow the main thread; a worker leaves only
  when nothing is queued, for good. From it: `TypeCorrect`, `NoLostTaskWakeup`,
  `NoLostIdleWakeup`, `IdleReport`. `Implements` maps each step to a step or a
  stutter of `TaskService`.
* `OzonSync_proofs`: with resets, wipes, failed writes, refusals, crashes and
  restarts. `RunBounds` is what type correctness needs (a run that may still
  fetch has failures left; one with a page to store is not past the end). For
  `CheckpointCovered` the invariant ranges over every cursor the program
  holds, on disk, in memory and in each run, and the argument is that no step
  makes one up: a step copies a cursor that is held, goes back to the empty one,
  or moves one past the page it has just handled. That is why no lock is needed
  for it, and why the theorem also covers two runs at once.
* `OzonLock_proofs`: but for `NoGhost`, under the assumption that "reset" is not among
  `Ops` (a reset breaks the lock by design). `LockInv` adds to `OneRun` that the flag is
  set while anyone owns the service and that the shared job id is the owner's once it
  is set. From it `OneRunAtATime`, `OwnRecordOnly`, `StopIsKept` (an action property). With
  `~DbFaults` as well: `OneRecordRunning`; `CrashIsResumed`, whose `ResumeInv` says that
  the row on disk is neither done nor stopped while a run is in its loop; and
  `NoOrphan`, whose `OrphanInv` names who will close each running record: a run, the
  trigger that holds it, a trigger about to abandon it, or one about to be refused.
  `NoGhost` needs no assumption: `GhostInv` says that running progress is
  shown only while some run is in its loop, and `FreshInv` that a run is new when it
  starts; neither looks at the flag.
* `InventoryPull_proofs`: five theorems over one set of invariants. `TypeCorrect`
  carries `IdBound`, which ties the ids to posts and restarts. `OneOpenAtATime` rests
  on the index and on `SeenInterrupted`: an interrupted row is older than the process,
  so no start misses it. `NewestClosesItsRecord` needs `GenOrder` (generations are
  unique and none is ahead of the counter, so whoever was superseded never is the
  newest again) and `RecordClosed`. `DoneStaysRecorded` needs the order of the writes:
  a job has its record before its checkpoint (`Recorded`), and `RecordDone` holds
  between the two writes that end it. `WorkingPullIsResumable` adds `LateEnd`: a
  superseded pull that has passed its last look at the generation can close only a
  checkpoint the newest does not rely on.
* `SseBroker_proofs`, in two parts. Writes: `SockInv` says of every socket that `writing_` is set exactly while
  one write is on its way or under way. `WritesDoNotMeet` follows; the history, the
  replay and the numbering play no part in it. `SseTypeCorrect` carries `Contiguous`: the
  history is the newest events, one after the other. Events: three theorems about
  `Stream`, what was sent to a connection. Their lemmas say that a write moves the parts of a stream and keeps the whole, or breaks the
  connection and cuts a part out (`Cut`), and that a send appends.
  `EventsAreNotMissed`: the thread that numbers an event promises it to every subscriber,
  also to one added before it copies the set (`ClaimInv`), and what a new connection
  lacks from before is contiguous in the history it reads. `ThreadsKeepTheirOrder`: a
  thread that still owes its event to a connection has sent it only earlier ones
  (`OrderInv`). `EventsComeOnce` counts (`DupInv`): the copies sent, the one left in the
  replay, the one a thread still owes and the replay still to be asked for.
* `OnecStorage_proofs`: `StoreInv` says, place by place, what an importer has written and
  not committed, that no key of its stocks and snapshot is in the table or written by
  another importer (`Fresh`), that only a thread in a transaction holds a lease, and
  that a puller writes no table of the imports. `Fresh` is why a commit adds its
  rows without touching others, which makes `SnapshotWhole` inductive: every recorded
  snapshot, not only the last one, keeps all its stocks. `StocksStayRecorded` follows from
  it; `AnswersAreTrue` and `NoLeaseIsLeaked` come with it. `StorageTypeCorrect` adds
  `Typed`: what a session has written, deleted, seen or still to write is made of rows of
  the tables it belongs to, and a lease is added only where the pool has a connection. `ImportsKeepTheLedger` is the
  refinement: `CommitEffect` (a commit adds exactly the rows of its request, whose keys
  are new, again by `Fresh`) makes a COMMIT a `Record` of `SnapshotLedger`; every other
  step of an importer is one of its client's answers or a stutter, the steps of the
  others leave the tables of the imports alone (`PullerSpares`), and a crash is `Die`. For the catalogue `CatalogInv`
  says that of the rows two pullers have written no key is in both, and that what a
  puller saw or deleted is the whole table or nothing of it (another one committed in
  between), in which case its own rows must not clash with what is there. As any two
  readings share a product, only the first of two pulls at once can commit:
  `CatalogueStaysOneReading`. The exception `Strangers` is real: without a common
  identifier or code both commit.
* `OnecCosts_proofs`: `CostInv` adds what an import has still to write of its costs and
  that an importer whose DELETE is not older than the last commit (`late`) deletes
  every row there is. From it `CostsAreOfTheLatest`. The exception `mixed` is real: two
  imports that overlap may leave the costs of both.

* `Ka2Read_proofs`: first what the sequences of the model hold (`NthIs`, `PickIs`,
  `StretchIs`, `ChunkIs`, `HalvesAre`, `MatchingIs`), then one lemma per kind of step of a
  thread (`Takes`, `EndsPart`, `Halves2`, ...), to which `StepIs` reduces the actions.
  `TypeInv`, `BookInv` and `ShapeInv` give `Ka2TypeCorrect`. `Ka2ReadsOnce` rests on
  `ClaimInv` (a key is in a chunk to come, with one thread, or among the rows read, and
  in one of them only: this is what the mutex of the team is for) and on `OrderInv`
  (the rows a thread holds come before the place it asks from, and the parts it has
  still to ask for share no key). `Ka2LossIsExplained` adds `CoverInv`: while nothing is
  edited, every row asked for is pending, given up, in hand or read, and remains so when
  a chunk is taken, halved, tried again, ended or pushed; when the threads of a read have
  ended nothing is pending or in hand, which leaves `DoneInv` of the reads that are over.

Only model-checked: all liveness (`DestructorReturns`, `FlagIsReleased`, `EventIsWritten`,
`BrokenIsForgotten`, `PullEnds`, the fairness of `TaskService`), as fairness and ENABLED
are out of the prover's reach; and what the sums and the preview compute
(`MapThenSumSet`, a fold). Every safety property of a passing run is a theorem.

## 5. Not modelled

* Code that nothing calls: `run_full_sync` and `run_single_sync` (`trigger_full` and
  `trigger_single` have no caller), `product_catalog_pull.cpp`, `onec_product_mapper.cpp`,
  the preflight, `onec_inventory.cpp` (constructed, never used), `read_chunked`.
* Percentages, the map of stages and the status documents of the inventory pull, and
  the throttling of progress: nothing in the repository says what they must satisfy.
* Liveness of imports: PostgreSQL breaks their deadlocks by failing one of them, which
  is `ImportFails`.
* The destruction of `SyncService` under a run that outlives the shutdown timeout.
* Columns without a part in a property: names, times, prices, offers.
* HTTP parsing and JSON wording, route matching, Telegram and log notifiers, the ring
  of webhooks, URL rewriting, raw logs, the mapping of 1C and Ozon fields: stateless
  code or pure I/O.
