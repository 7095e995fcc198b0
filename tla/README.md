# atscript-db: formal verification

TLA+ models of the concurrent and failure-prone parts of atscript-db, the TLC
configurations that model-check them on small instances, and TLAPS proofs of
the results that matter for every instance. Every definition is translated
from the source; `PROJECT.json` maps each one to its lines.

How to run, from this directory:

    tlc -workers 2 -config gate.cfg MCSqliteTxGate   # any row of "Runs"
    tlapm LockProofs.tla                             # any *Proofs.tla

## 1. The system

atscript-db turns annotated types into database tables. An application holds a
`DbSpace`; it creates one adapter per table; a table (`AtscriptDbTable`) does
reads, writes, relations, validation and integrity and hands plain rows to its
adapter; adapters talk to SQLite, PostgreSQL, MySQL, MongoDB or an in-memory
engine. Beside it: schema synchronization at start-up, an HTTP layer
(moost-db) and a browser client (db-client).

| Component | State | Operations | Interacts with | What is hard | What makes it correct |
|---|---|---|---|---|---|
| SQLite transaction gate (`db-sqlite/src/tx-gate.ts`, `sqlite-adapter.ts`) | `held`, waiter list, SQL transaction of the one connection | acquire, release, statement, `withTransaction`, exclusive connection | `BaseDbAdapter.withTransaction`; all adapters of one driver | every interleaving of the microtask queue, timeouts, a COMMIT that throws | nobody's statement runs in somebody else's transaction; no lost wake-up |
| Pooled transactions (`db/src/base-adapter.ts`, postgres and mysql adapters, drivers) | AsyncLocalStorage chain, checked-out connections, pool queue, server sessions | `withTransaction`, nesting, isolation level, plain statements | pools and servers (external) | lost connections, COMMIT answered with an error, one-shot isolation levels, nesting over two pools | one connection per transaction; nothing carried over; the caller is told the truth |
| Schema-sync lock (`db/src/schema/sync-store.ts`) | one row of the control table with an expiry | `tryAcquireLock`, `waitForLock`, `refreshLock`, `releaseLock` | schema sync's heartbeat and run | read-then-delete races, late refreshes, lost acknowledgements, crashes | a run served in time is never robbed; a dead holder does not block |
| Schema synchronization (`db/src/schema/schema-sync.ts`, `sync-executor.ts`) | tables, tracked list, stored hash, data-step records | quick check, acquire, double check, discover, execute, data steps, finalize | lock, adapter DDL, control table | crashes and failed DDL between any two statements; a lease lost in the middle | a stored hash or a reported success means the schema is in place; a step's changes commit once; removed tables are not forgotten |
| Optimistic concurrency (`with-optimistic-retry.ts`, `db-table.ts`, `patch/version-exempt.ts`) | rows with a version column, row locks of open transactions | `$cas` patch, retry helper, `touchMany`, exempt patches, delete, re-insert | SQL builder (`SET v = v + 1`), engine's locks | interleaved read-modify-write, batches that fail in the middle | no `$cas` write overwrites a change it has not seen; one version, one content |
| Application-level integrity (`strategies/application-integrity.ts`) | rows, call stack of nested cascades, visited sets | `validateForeignKeys`, `cascadeBeforeDelete`, deletes, writes | tables of the space; adapters without foreign keys | cyclic schemas and rows, restrict met after siblings are deleted, calls that race | a delete removes exactly the closure, or nothing |
| DDL order (`schema/dependency-order.ts`, `schema-sync.ts`, `sync-executor.ts`, the PostgreSQL adapter) | tables and constraints, stored snapshots, tracked list, hash | ordering, pre-drops, drops, rebuilds, stale and deferred foreign keys | schema sync's walk; the engine's refusals | cyclic references, drops that block a rebuild, a statement that fails after constraints are gone | what is settled is the model; an undisturbed run finishes; the rest is left alone |
| Nested writer (`rel/nested-writer.ts`, `db-table.ts`) | none of its own: plans and reads held over awaits | deep insert, replace, patch: TO, own row, FROM, VIA | tables, integrity, transactions | rows read before earlier writes of the same call, or before another client's; refusals half way without transactions | it does what the operators ask, writes only rows of its own parents, and skips nothing silently |
| MongoDB adapter (`db-mongo`) | sessions, counters collection | session transactions, auto-increment, inserts that ignore conflicts | server | a counter seeded after it was used, racing allocations, retried transactions | a value is handed out once; reports are true |
| Browser client (`db-client`) | shared /meta store, per-client promise and ETag | load, revalidate, invalidate, clear | HTTP, the page | answers that arrive after sign-out, a deploy or a change of locale | callers get the metadata of their identity and locale |
| Memory adapter (`db-memory`) | rows, unique indexes | writes, re-keying | tables | partial failure of a batch | its pass-through transactions are in three of the rows above; its storage is not modelled |
| HTTP controllers and actions (`moost-db`) | per-request row cache | reads, writes, actions with gates | tables | a cached row used after the check | not modelled |
| Metadata, field mapping, reads, query guards, validation, encryption, annotations, SQL text, views | none over time | translation of names, shapes and text | | no behaviour over time | not modelled |

`PROJECT.json` lists all components with their status, and under `hazards` the
places that are hard to test, each at its line, with the properties that watch
them.

## 2. Modules

Each component is one module (state, actions, properties), with an `MC` module
that gives TLC its instances. `SerialConnection` is the abstract specification
of the gate, `NestedWriteContract` what a nested write asks for,
`DependencyOrder` the pure functions of DdlOrder, `SyncRuns` the constants SyncLock
and SchemaSync share; `SchemaSyncInvariant` and `DdlOrderInvariant` are the inductive
invariants the theorems about those two rest on, where TLC can evaluate them on
their instances; the `*Proofs` modules hold the proofs, with the lemmas on
sequences where they are used. `LockProofs` serves the two locks, SqliteTxGate and
SyncLock, and `SchemaSyncProofs` the DDL, SchemaSync and DdlOrder.
Operators named "Mutant:" in a comment are wrong variants of the definition
below them; they take no part in the specification and show that the property
they are paired with can fail.

### SqliteTxGate, SerialConnection

The program runs on one JavaScript thread, so a process is an async context
and an action is a whole synchronous segment between two awaits. `jobs` is the
FIFO microtask queue: only its head runs; `AppStep` is application code that
resumes later (`Schedule`). `held` and `waiters` are the fields of
`SqliteTxGate`; `owns` is `_holdsGate` (or the frame of `runExclusive`);
`engine` is the SQL transaction open on the connection.

| Action | Code |
|---|---|
| `Enqueue`, `RunStatement`, `TakeGate`, `Enter` | `acquire`, `runWhenFree` and `runExclusive`: the do-while on `held`, first arrival and re-check after a wake-up |
| `Timeout` | the timer of `GateWaiter`, which fires only when no microtask is left |
| `Release`, `StateRelease` | `release()` wakes every waiter; `SqliteTxState.release` is idempotent |
| `Begin`, `StatementInTx`, `Commit`, `Rollback` | the primitives of `sqlite-adapter.ts` under `withTransaction`, with BEGIN and COMMIT that throw |
| `StatementInExclusive`, `EndExclusive` | `_withExclusiveConnection` |

`SerialConnection` says what the gate promises: contexts use the connection
one after the other, a plain statement runs only while nobody has it and
commits by itself. `ImplementsSerialConnection` maps `holders` to the contexts
with `owns`, `txn` to `engine` and `effect` to `fate`.

### PooledTransactions

`stack[c]` is the AsyncLocalStorage chain of a context, by pool: a nested call
on the same pool joins (`Join`), one on another pool opens its own
(`StartCall`). `call` keeps the connection and levels of a call, `ending` what
became of its writes and what its caller was told. `borrower`, `queue` and
`session` are the pool and the server (external, modelled as the drivers use
them). `Acquire`/`Release` hand connections over in FIFO order; release of a
connection nobody has checked out throws, and is swallowed in the catch block.
`CommitLost`, `CommitRefused`, `StatementFails`, `LoseConnection` and failing
`SetLevel`/`Begin` are the failures; `GiveUp` is the catch block of
`_beginTransaction` and `Rollback` that of `withTransaction`.

### SyncLock

One action per database call: `TryRead`, `TryClear` (delete of an expired
row), `TryInsert` (may lose its acknowledgement), `ReadBack`; `Poll`,
`PollClear`, `WakeUp`, `AfterWait` for `waitForLock`; `BeatStart`,
`BeatUpdate`, `BeatLookup`, `BeatFails` for the heartbeat, which may be in
flight while the run goes on or ends (`Finish`, `ReleaseLock`); `Crash`. `stamp`
and `beatAt` keep `Date.now()` as the code captured it before the call, so an
expiry computed from an old clock is possible. `Tick` moves the clock; it waits
only for the calls and timers of the runs in `Prompt`, so every other run may
be late by any amount.

### SchemaSync

The life of `run()`: quick check (`QuickHash`, `QuickSteps`), lock
(`TryAcquire`, `LockWait`, `PeerHash`, `PeerSteps`), `DoubleCheck`,
`DiscoverTracked` and `Introspect` (facts remembered in `job` and used later),
the walk over tables (`BeginTable`, one `TableStatement` per DDL statement,
`TableConstraints`), early data steps, deferred constraints, `DropRemoved`,
`WriteSnapshot` (one table each), `WriteTracked`, `WriteHash`, late data steps,
`Finally`. A data step is
`StepBegin`/`StepRun`/`StepRecord`: with transactions the record is inserted
first and a second run waits for it. `LeaseExpires` and `NoticeLoss` are the
lock seen from outside (SyncLock says when they can happen), `Crash` a dying
process. A table is its columns (`live`), its foreign keys (`keyed`, each known by the columns
it is over, as the code matches them) and the version whose indexes it carries
(`indexed`); `snapshot` is the version of its stored snapshot. What a run still has to
do is a set in its `job` (tables, drops, statements, steps), walked in the constant
`Order` or `Steps`. How keys change is the adapter's `keying`, chosen in `Init`:

| Code | In the model |
|---|---|
| `ensureTable` (`sync-executor.ts:322`): CREATE TABLE IF NOT EXISTS with inline keys | "create" sets `live` and `keyed` of a table that is absent, and leaves one alone that has appeared |
| `recreateTable` (`sync-executor.ts:350`, SQLite, when the keys differ from the snapshot's, safe mode too) | "recreate" gives the table all its columns and keys and loses its indexes |
| `dropForeignKeys` (`sync-executor.ts:360`, PostgreSQL and MySQL) | "unkey", before the columns |
| `syncForeignKeys` (`sync-executor.ts:533`), with the indexes | `KeysAltered`; `KeysHalfAltered` when a statement of it is refused |
| `fkDiff` (`schema-sync.ts:1188`) | `KeysDiffer`: by the snapshot that discovery read, not by the live keys |

### VersionedWrites

A worker carries out one task (retry helper, batch patch, touch of all or any,
delete, insert) one statement at a time. A row is its version, the set of
workers whose change its content contains, the touches it has seen and its
incarnation. `locker`/`undo` are the engine's row locks and the committed
images (external); `Victim` is a lost lock wait. Pass-through transactions lock
and undo nothing.

### AppIntegrity

`cascadeBeforeDelete` as a stack of frames, one read, count or write per step;
foreign-key checks of inserts and patches; `Finish` commits, or finds a write
conflict and starts again (snapshot isolation, external). A frame keeps its
filter, the rows it has found (`records`), and the restrict checks and actions
still to do as sets, taken in registration order; a filter with a relational
predicate is replaced by the keys it found (`ByKeys`), any other is evaluated
again by the frame's own delete. `AfterDelete` is the
reference: the closure of the cascade with setNull applied, computed directly
from the database the call began with; `DeleteIsExact` compares the frames'
result with it, but for a delete whose own cascade clears the column it filters
on (`ClearsFilter`): its rows stop matching before they are deleted, and stay.

### NestedWrites, NestedWriteContract

One call of `insertMany`, `bulkReplace` or `bulkUpdate` with nested data, one
statement per step, another client's statements (`Other`) at any await. `Phases`
lists the order of the code for each mode; `pos` and `next` are where the call
is, `todo` the statements of the current relation that are still to execute.

| Phase | Actions | Code |
|---|---|---|
| plan (reads only) | `Pin`, `PlanClaims`, `PlanLinks`, `PlanTargets`, `CheckChildRefs`, `PlanTo` | `_pinTargets`, `planNestedFromVia`, the gates of the plan |
| TO and own row | `WriteTo`, `InsertTo`, `CheckOwners`, `WriteParent`, `InsertParents`, `MainDone` | the preparation of nested TO data, the foreign-key check, the main write |
| FROM | `ReadShared`, `LoadFrom`, `CheckParents`, `InsertFrom`, then `ReplaceChildren`, `UpsertChildren`, `DeleteChildren`, `WriteChild`, `InsertChildren` | `batchPatchNestedFrom`, `batchReplaceNestedFrom`, `batchInsertNestedFrom` |
| VIA | `LoadVia`, then `WriteTarget`, `InsertTargets`, `ClearLinks`, `RemoveLinks`, `CheckLinks`, `InsertLinks` | `batchPatchNestedVia` and its siblings |

`pinned`, `owned` and `current` are what the call has read and uses later.
`undo` is the rollback of a transactional adapter; in pass-through mode an
error leaves what was written. Data is abstracted to "old" and "new"; an entry
of an operator is its key, whether the payload names it, whether it is valid and
whether it carries fields besides the key. A patch whose payload has no field of its own
and no `$cas` only looks for its row (`db-table.ts:1363-1378`). The contract defines on whole sets
of rows, without phases, which calls the plan refuses, which fail later, and the
rows an accepted call leaves; `ResultIsAsAsked` compares an undisturbed call with
it. One level of nesting, single-column keys without case-insensitive
collations, entries of one operator with distinct keys, no guards or checks; a
junction row has its own id, so links are counted.

### MongoCounters

Workers allocate from one counter document and insert, in a session transaction
or not. `Advance` is the `$inc`, `ReadMax` the read of the largest value of a
fresh counter, `Reseed` the `$max`; `HandOut` and the insert actions are
`_assignBatchIncrements`, `insertMany` and `insertManyIgnore` with its
`_findStoredKeyConflicts`. The counter is never in the transaction (the
adapter's choice), the rows are: `Restart` is the driver running the function
again after a write conflict. `ranges` and `clashes` are histories.

### MetaStore

`bodies` and `keys` are the two maps of `MetaStore` in their LRU order;
`promise`, `metaEtag`, `metaLocale` the fields of a client; a load is one
`_loadMeta`, from the resolution of the headers to the stored body, with the
answer computed by the server some time between request and receipt. The page
switches users (`clearMetaStore()` and `invalidateMeta()` as their comments
ask), locales, and deploys metadata. ETags are those of a content-addressed
server: the ETag is the body. A Map's entry that is used again moves to the end:
`Drop` takes it out of the list and it is appended; `Newest` is the eviction.

### DdlOrder, DependencyOrder

`DependencyOrder` is `topoOrder` and `reachable`. The code's `visit` calls itself;
the module makes its call stack a variable: `TarjanStep` is one look at a
neighbour or at a name of the outermost loop (`NextNeighbour`, `NextRoot`), one
call (`Enter`) or one end of a call (`Complete`, `Return`), and `topoOrder` the
order after as many steps as any graph of that size can take. `IsDependencyOrder`
is what it promises, by the relation `Depends` and no algorithm.

`DdlOrder` runs the schema change: discovery, the orders (`createOrder`,
`dropOrder`) and `earlyDrops`, the list of `orderedSteps` they give
(`DropSteps`, `TableSteps`, `GroupSteps`), pre-flight (`refused`), the constraints
dropped ahead of rebuilds (`DropInboundKeys`), the walk (`dropRemovedGroup`,
`DropStaleKeys`, `RebuildKey`, `DropOutdated`, `ensureTable`, `SyncKeys`), deferred
foreign keys (`SyncDeferredKeys`), and the separate writes of snapshots, tracked
list and hash (`StoreSnapshots`, `StoreTracked`, `StoreHash`). The engine
(`CanDrop`, `CanAdd`) refuses what PostgreSQL refuses. A mishap is a statement that
fails for its own reason, a crash or a lost lock (`RunDies`); the next run starts
from what was left.

## 3. Runs

| Run | Instance | Distinct states | Shows |
|---|---|---|---|
| `gate` | 3 contexts, 1 call each, BEGIN and COMMIT may throw, timeouts | 11 K | no lost wake-up, no BEGIN inside an open transaction, every call ends |
| `gate_serial` | 3 contexts, 2 calls each, BEGIN may throw, symmetry | 37 K | refinement of `SerialConnection` |
| `lock` | 2 runs, r2 prompt, r1 late and mortal, TTL 2, lost acknowledgements, 1 failed refresh in a row, clock to 5 | 83 K | the prompt holder keeps its row; live rows of others are left alone; aborts only after a loss; a dead holder does not block; every run ends |
| `sync` | 2 runs of a new version over an old one, 3 tables, 2 steps, 3 kinds of adapter, any two of a crash, a lost lease, a refused DDL statement and a throwing step | 500 K | hash and success tell the truth, steps commit once, early steps come first (exceptions below), no orphan tables, every run returns |
| `order` | every foreign-key graph over 4 new and over 4 removed tables; 3 names in all mixes of new, kept, removed and foreign, with up to 3 live and 2 wanted constraints, one key or type change, one mishap; 2 runs | 1.7 M | right orders, a settled hash is the model, clean runs finish, the rest is left alone |
| `occ` | 9 mixes of tasks for 3 workers over 2 rows, 3 attempts, chunks of 1 | 31 K | version identifies content, no lost update, touches all or nothing, reports are true |
| `integrity` | all consistent databases of three schemas with up to 2+2+1 rows; chosen races, batches, a long chain, setDefault | 126 K | deletes are exact and refused with a reason, verdicts on references are right, a reference dangles only where an insert or a patch beside another call wrote its row or the row it points to |
| `pool` | 2 contexts, 1 PostgreSQL and 1 MySQL connection, MySQL inside PostgreSQL, levels 0 and 3, 2 calls each, one mishap | 320 K | dedicated connections, clean idle connections, levels, truth of answers, every call returns |
| `pool_commit_refused` | same | violation | the finding of section 5 |
| `nested` | 95 calls on 14 stores, with and without transactions, one foreign statement | 291 K | refused before the first write, result as asked, planned children written, only own rows |
| `counters` | 3 workers, 36 plans, 3 stores, 2 start values, 1 retry, 1 failure | 1.2 M | values are handed out once, clashes have a reason, reports are true |
| `meta` | 2 clients with one key, a store of one body, 2 users, 2 locales, 3 loads, 2 changes, 1 mishap, symmetry | 2 M | callers get their metadata, the ETag is of the current one |

Why the bounds are enough to be interesting:

* gate: a lost wake-up needs a holder, a waiter and an arrival between release
  and wake-up: three contexts. Two calls let a context come back after its own
  transaction. The proofs lift all but liveness to any number.
* lock: the races are between a reader of an expired row and one peer that
  replaces it; TTL 2 with beats of 1 leaves room for exactly one failed
  refresh, which is the ratio the code guarantees. `MaxTime` 5 is longer than
  the longest chain start - wait - TTL - take over; runs start by `LastStart` 1.
* sync: the version change swaps a column and the foreign key over it, adds a table
  with a key and removes one. Any two failures of different kinds, a crash among them,
  happen in a behaviour, at any points; the theorems have any number of each. The adapters are
  PostgreSQL or MySQL (keys are altered), SQLite (the table is rebuilt) and MongoDB
  without transactions (no keys).
* occ: two rows are needed for deadlocks and batches, three workers for a
  writer, a competitor and one that deletes, re-inserts or touches.
* integrity: two rows per table are the least with mutual references and with
  filters that leave a row behind.
* order: four tables are the least with two cycles, or a cycle beside a
  diamond; a mishap and the run after it show what a failure leaves behind.
* nested: two parents and three keys let children be shared, moved, missing and
  unknown; one foreign statement at each of the call's awaits is each single
  race once. The proofs lift the two properties about races to any number.
* counters: the window is between one seeding call and one that passes it; the
  third worker brings values of its own, stored before, between or after.
* meta: eviction needs two bodies in a store of one; two users and two locales
  make three of the four bodies the wrong one.
* pool: one connection per pool makes everyone queue. Two mishaps were tried
  for the safety properties (2 M states) with the same result.

`CHECK_DEADLOCK FALSE` everywhere: all instances have a bounded number of calls
and end.

### Fairness

* gate: weak fairness of the job at the head of the microtask queue (the event
  loop), strong fairness of the application ending the transaction or the
  exclusive section it is in: a callback may do any number of statements but is
  assumed to end.
* lock: the clock advances, and calls that have been sent are answered. A run
  that may die is not obliged to go on.
* sync: a live run takes its next step, which changes its place or its local state; a
  dead one does not, and its lease expires.
* pool: statements are answered, callbacks end. The wait for a connection has
  no fairness of its own: it ends because others release.

## 4. Proofs

**LockProofs, the gate** (any set of contexts, any number of calls, with or
without timeouts). The inductive invariant

    IInv == TypeOK /\ GateHasOneHolder /\ QueuedOnce /\ WaitingOnce
            /\ OwnsByPhase /\ EngineByPhase /\ RollbackBeforeBegin

adds to the properties that a context has at most one job and one waiter entry
and only in the phases that allow it, that ownership and the open transaction
follow from the phase, and, the heart of it, that a pending ROLLBACK is queued
before any BEGIN: a COMMIT that throws releases the gate with the transaction
open, and only the FIFO order of microtasks saves the next BEGIN. From it:
`TypeCorrect`, `OneHolder`, `NoLostWakeUp`, `OwnTransaction`, `NoNestedBegin`.
With the assumption that COMMIT cannot throw, `CInv` (a free gate has a free
connection) gives `NoForeignStatement` and the refinement
`GateImplementsConnection`.

**LockProofs, the sync lock** (any runs, any delays). `OwnershipInv`: a refresh is in
flight only in a run that has acquired the lock, it asks who holds the lock only
when the row is not its own, and a run that has lost its row does not get it
back. Together with `OwnPods`, a podId per run, it gives `AbortsAfterLossOnly` and `LiveLockIsOwners`.
`TimingInv` says that a prompt run that holds the lock holds the row, and that
the row outlives its next refresh by `Slack(r)`, the intervals its missed
refreshes still leave of the TTL; with `BeatsFitTtl`,
(MaxBeatFails+1) intervals within the TTL, it gives `HolderIsNotRobbed` and
`MutualExclusion` for the prompt runs, however late the other runs are.

**SchemaSyncProofs, the schema** (any runs, versions, tables, keys, steps, kinds of
adapter, crashes, lost leases and refused statements). The invariants named here are in
`SchemaSyncInvariant`. All rest on what one run remembers: `LocalInv`
(a run's plan in `job` is what its position in the code allows), `ListInv` (a
step it need not do is recorded, and records are never removed) and `OpsInv` (the
statements left for a table are of those it began with).

* `EarlyFirst`: with these, a statement that gives a table the indexes of a version,
  or an existing table a key, comes after every early step is recorded, unless some
  table errored. A table that is created, or rebuilt on SQLite, has its keys at once.
* `NothingIsOrphaned`: `OrphanInv` says that a table no run wants, while it
  exists, is tracked, and that every run that will rewrite the tracked list has it
  among the tables it drops or keeps.
* `HashIsTrue`, `SuccessIsDone`: `TruthInv` says that a run in its walk accounts for
  every table of its version (`Covered`): still to be visited, waiting for its
  constraints, in error, or ready; so a run with nothing left, or a stored hash, means
  a schema in place. Indexes and altered keys come with the constraint work of the table.
  For rebuilt keys that is not enough, since nothing looks at a live key again: `KeysInv`
  says that a table with other keys than the version's has a snapshot that tells so,
  hence a run that has not visited it will rebuild it, and that the snapshot is
  replaced only after that (`Saved`). `StoredInv` is what keeps the indexes on SQLite:
  without a lost lease nobody's discovery is stale, so nobody rebuilds a ready table.
  Both theorems assume that all runs deploy one version, as in the `sync` run.
  Without it they are false: a failed run of another version alters tables and
  leaves the old hash (section 5).
* `StepsRunAsPromised`: with transactions, `TxInv` ties the one commit of a step
  to its record. Without, it is a counting argument: `WorkInv` bounds the runs
  that work without holding the lock by the leases lost, and `PassInv` charges
  each execution of a step after the first to a lost lease or a dead process. It
  needs `IsFiniteSet(Runs)`.

**SchemaSyncProofs, the DDL** (any schema changes over finitely many names, any
number of runs and mishaps). The invariants named here are in `DdlOrderInvariant`.

* `OrdersRight` rests on `TopoOrderIsRight`: Tarjan's walk is right and over in
  `2N + N*N` steps for every finite graph of numbers. Its invariant, `TarjanInv`, is
  inductive as a whole only. `StackHolds`: the stack and the calls under way rise by
  index, and every node of the stack lies above a call's. `NumbersHold`: a node is
  numbered when it is on the stack or in a group, never both. `EdgesHold`: what a
  node has looked at is numbered. `LowsHold`: the lowlink of a node on the stack is
  the index of a node on the stack that it reaches, below its own once its call has
  ended; and the lowlink of a call is not above those of the nodes it owns, up to
  the next call, nor above what these have looked at. So when a call ends with its
  own index as lowlink, the nodes above it depend on each other and on nothing else
  that has no group yet: `GroupsHold`. That the walk ends is a measure: every step
  takes a name from the outermost loop or a neighbour from a call's list, or ends a
  call, which happens once per node.
* `SettledIsRight` and `RestIsLeftAlone` rest on `DdlIInv`. `StoreHolds`: the tracked
  list has every removed table that still exists, and a settled hash is the model.
  `EngineHolds`: no constraint without its target or its key. `PredropHolds`: a
  constraint on a key about to be rebuilt is listed before the walk, and gone in it.
  `StepHolds`: what each stage of a table's step knows. `WalkHolds`: every table of
  the model is in error, still has its step, waits for its cycle, or is right, and
  every removed table is in error, still has its drop, or is gone. The last is where
  the orders matter: a table missing from them would be settled without its step.

**PooledTransactionsProofs** (any contexts, pools, connections and nesting of
pools, any number of failures; from the assumptions the module names). The
inductive invariant is `Core /\ Ownership /\ Truth`.
`Core`: types, queues and stacks without duplicates, a call's connection is one
of its pool. `Ownership`, of every pool that has refused no COMMIT: a connection
is borrowed by the context that holds it and by no other, and its session is the
one the call's phase says: fresh before BEGIN, with the pending one-shot level
just before it, the call's own transaction or none after it, or lost. `Truth`:
how far a call's writes can have got, given its session; without it
`ToldTheTruth` is not inductive, since what a caller is told depends on what the
session still held when the call ended. The steps that end with a release share
one lemma (`LeavingKeepsIInv`), which also serves the first waiter of the queue;
those that keep their connections share two (`WorkKeepsIInv`,
`TouchingOneKeepsIInv`). Theorems: `TypeCorrect`, `ConnectionsAreDedicated`,
`IdleConnectionsAreClean`, `LevelsAreAsked`, `CallersAreToldTheTruth`.

**NestedWritesProofs** (any tables, calls and number of foreign statements).
`OwnInv`: every statement still in `todo`, and everything the call inserts at
once, is for a parent in `MatchedParents`, the parents whose own row the call
has found and, unless the patch has no field of its own, written. It is inductive because a phase puts statements there only for
matched items, whatever the reads have returned. `NestedWritesOnlyOwnRows` adds
that each statement's condition names the parent, so a child that has moved is
not touched; `PlannedChildrenAreWritten` that the call ends when a planned
child is gone. `RefuseInv` says where a call that the contract refuses can be:
still in the phases that read, at a position that the failing condition keeps it
from passing, with the store it started on; `RefusalsWriteNothing` follows. It
assumes that a PUT or an insert carries plain arrays, as
`nested-writer.ts:509, 611, 658, 852, 894, 1711` require.

**MongoCountersProofs** (any workers, plans, start values, stores, retries).
`IInv` is `TypeOK /\ RowsOK /\ SeqCovers /\ SeedingIsAlone` and the property:
the counter is at least the end of every range handed out (`SeqCovers`), and
only the first allocation ever seeds (`SeedingIsAlone`).
`ValuesAreHandedOutOnce` then has one exception, the ranges taken between a
seeding call's `$inc` and its `$max`. `ReportsTrue` rests on `CallInv`: a batch's
values and its inserted documents stay in step (`SlotInv`), nobody's uncommitted
documents meet stored ones or another's (`DisjointInv`), and what a call has
reported is what it wrote (`ToldInv`), whichever attempt of the transaction wrote it.
`ClashesExplained` rests on `ClashInv`: a range is used by the worker it was handed
to and nobody else (`HeldInv`), a generated value comes from a range its user is
past (`OriginInv`), and what the seeding read has seen lies below what it seeds
and all that is handed out later (`CoverInv`).

**VersionedWritesProofs** (any workers, rows, tasks, number of attempts, chunk
size, real and pass-through transactions). The invariant speaks of all images of
a row: the committed one, what the workers have read, and what a snapshot may
still show. `Images_`: equal versions mean equal content, the committed image is
the latest of all (`Newest`), and the next incarnation will be later than any
(`Births`). `Locks`: a row is locked only by a worker between its first
statement and its commit, so nobody reads an uncommitted image. `Pending`: what
an open transaction has made of a row grows from the committed image, and
replaces only content its worker has seen; without it a commit would publish an
arbitrary row. `ImagesEvolve` reduces each step to what it does to the committed
image. Theorems: `VersionIdentifiesContent`, `UpdatesAreNotLost`.
`LostRoundsArePaid`: `RoundInv` says that a round is paid for, by a committed
change of the version, as soon as the row it has read is stale. It
assumes `RetriesReadAnew`, that no loop runs inside a caller's snapshot
transaction; there it is false, since the loop re-reads the snapshot
(`with-optimistic-retry.ts:66`). `ReportsTrue`: `ReportInv` follows the marks a
worker has left: only on rows it will report or has uncommitted (`MarkInv`,
`HitInv`), on every row a touch has hit, through later patches of others too
(`TouchInv`, `KeptInv`), and on all rows of a touch of all that ends well
(`EndInv`). It assumes that a touch carries
versions, which `db-table.ts:1536-1555` checks.

**AppIntegrityProofs** (any foreign keys, stored rows, calls and clients; cyclic
schemas and rows included). `VerdictCorrect`: while a writer is alone its view is
the database it began with (`WriteViewInv`, `AloneInv`, with `OverlapInv` for what
alone means), the references it has looked up so far are there (`VerdictInv`),
and the code's comparison of two counts finds a missing reference exactly when
there is one (the lemma `LookupCounts`, on cardinalities). `NoOrphansButByRace` is
the longest argument of the project. `Touched` are the rows written by an insert
or a patch beside another call; `Hand` are the references to deleted rows that
some frame has still to act on. `OrphanInv` has these parts:

* `DeleteInv`, of one call's stack: its frames are well formed (`FramesOK`), a row
  a frame's own delete will take is a record of it or of a frame below (`Seen`),
  and no row still points to a record unless its reference is still to be acted on
  (`Handled`), each but for `Touched`.
* `PassInv`: without transactions, a reference dangles only into somebody's hand
  (`Covered`), while no delete has failed.
* `CommittedInv`, `SnapshotInv`, `DeleteViewInv`: with transactions nothing committed
  dangles; since a snapshot was taken, rows have only been removed and references
  only cleared (`Shrinks`), but in `Touched`; and what dangles in a delete's view is in its own hand.
  So a delete that commits without a write conflict meets a database that has
  shrunk elsewhere, and joining the two leaves nothing dangling.

`DeletesAreExact` compares the frames with a closure, for finite tables and keys.
`ExactInv` says of a delete that nobody has disturbed: it has changed only what it
may (`Within`), its frames hold only rows to be deleted (`Follows`), and the
invariants of orphans hold with the rows exempt that were missing from the start.
So when the call's own delete runs, nothing is in hand, and the rows gone are
closed under cascades; they are all of `Doomed`, because that is the smallest
closed set (`DoomedIs`). `Doomed` is the last value of a recursive function that
cascades once per round for as many rounds as there can be rows. The induction over
the rounds takes the least round at which a statement fails (`WFMin`), and counting
shows that no row is left for a further round (`ReachCloses`).

`Moves` says what a step does to one stack and one database, once for both kinds of
transactions. `VerdictCorrect` and `NoOrphansButByRace` assume `KeyIsFirstField`,
keys told apart by their first field: the code counts composite keys by it
(`application-integrity.ts:126`), and on others the theorems are false.

**MetaStoreProofs** (any clients, users, locales, keys, bodies of the server and
sizes of the store). `BodiesOK`: the store keeps a body only under its own ETag, so
whatever is evicted, and whichever client or user has stored it, a 304 hands out the
bytes the server means. `LoadsOK`: an answer under way, and the result of a load, is
the server's for the load's user and locale, of a version since its request.
`PromisesOK`: while a client holds a promise, its load is of the current identity and
of the locale the client last synchronized, and an ETag is that of the promise's
load. Theorems: `CallersGetTheirs`, `EtagIsCurrent`.

Only model-checked, and why:

* all liveness properties: the prover has no fairness reasoning;
* `ResultIsAsAsked`: the contract folds over the batch, an induction over data;
* `CleanRunFinishes`: the unavoidable errors are a fixed point, computed by a fold
  over the tables.

## 5. Findings

`postgres-adapter.ts:418` (same at `mysql-adapter.ts:498`): a COMMIT that
throws releases the connection twice; the second release and the ROLLBACK hit
its next borrower (`pool_commit_refused`).

Observed while modelling; each is an exception a property names, a condition
of a run or a theorem, or a hazard with a note:

* `sqlite-adapter.ts:424`: when COMMIT throws, the gate is released one
  microtask before the ROLLBACK; a plain statement in between runs inside the
  failed transaction and is rolled back after its caller was told it succeeded.
  `gate_serial` and `NoForeignStatement` assume a COMMIT that does not throw.
* `docs/sync/programmatic.md:158` promises the `beforeConstraints` steps before any
  table's indexes and foreign keys. Three things come earlier, each an exception in
  `EarlyStepsFirstUnlessFailed`. On every engine, a table that sync creates has its foreign
  keys inline (`sync-executor.ts:322`), but for those deferred for a cycle. On SQLite a
  table whose keys change is rebuilt with them (`sync-executor.ts:350`); line 161 of the
  same document says so. And after one table's DDL failed the steps are skipped,
  while the other tables get their indexes and keys (`schema-sync.ts:1882`).
* `sync-executor.ts:350`: that rebuild takes place in safe mode too, and gives the table
  exactly the desired columns, so removed columns go, although
  `docs/sync/index.md:144` says that safe mode skips column drops.
* `sync-executor.ts:351`: a run that has lost its lease, and does not know it yet, may
  rebuild a SQLite table that its successor has finished; the indexes are gone, and
  the successor's hash makes later boots report "up-to-date"
  (`docs/sync/programmatic.md:284`: the stolen run "aborted safely"). `HashTellsTruth` and
  `SuccessMeansDone` except the indexes in that case.
* `schema-sync.ts:1996`: a failed run of a new version leaves the old hash
  stored, so rolling back to the old version reports "up-to-date" over altered
  tables (`docs/sync/programmatic.md:293`).
* `schema-sync.ts:2029`: an early drop of a removed table is blocked by the stale
  constraint of the kept table whose rebuild it precedes, since that constraint
  goes only in the kept table's own step (`sync-executor.ts:371`); the next run
  succeeds (`docs/sync/what-gets-synced.md:570`).
* `base-adapter.ts:1256`: live foreign keys are matched by their local columns;
  after a crash before the snapshots are written, a model that points the same
  column at another table would keep the old constraint.
* `application-integrity.ts:126`: for composite keys the foreign-key check of a
  batch compares counts per column and accepts missing references.
  `application-integrity.ts:294`: `setDefault` is skipped. `db-table.ts:1916`: a
  delete evaluates its filter again after the cascade, so a row that a concurrent
  patch has moved into the filter is deleted without its children; and, with
  nobody else at work, rows selected by a setNull reference that the cascade itself
  clears stay, their children gone, although `application-integrity.ts:185-187`
  takes it that only a relational predicate can stop matching.
* `mongo-adapter.ts:1902`: a first batch at least as large as the next free id is
  numbered from 1, below the start value or over stored rows. Allocations
  between `$inc` and `$max` may get values that are handed out again. Explicit
  values do not move the counter (documented, `docs/adapters/mongodb.md:213`);
  a rollback does not return values, as the comment at 1884 says and
  `docs/adapters/mongodb.md:212` does not.
* `db-table.ts:1315`: the references of a patch's own FROM children are checked
  only at their insert, after the main patch, so without transactions a refused
  patch is half done (`docs/relations/patches.md:244`); the same for operators
  that defeat each other and for an insert of a taken key.
* `client.ts:970`: an answer in flight at sign-out is stored after
  `clearMetaStore()`; it is reused only on a 304 for the next identity's own
  request.
* Runs that share a podId clear each other's lock; the retry helper inside a
  caller's snapshot transaction re-reads the snapshot; a callback that swallows a
  failed statement is told its transaction committed; promises a transaction's
  function does not await go on after COMMIT.

## 6. Not modelled

* Un-awaited children of a transaction's callback: an async context is
  sequential in both transaction models.
* Clock skew between the hosts of two sync runs.
* In schema sync: views, renames, safe mode and self references in DdlOrder,
  checks of populated keys, and the column diffs: a table either differs or not. In
  SchemaSync, keys deferred for a cycle (DdlOrder has them) and keys that
  change only in what they refer to.
* In optimistic concurrency: replace, guards, array operators. In integrity:
  result counts, bounded deletes. In pooled transactions: savepoints of
  insert-or-ignore, dedicated connections of schema operations.
* In nested writes: deeper levels (each is a call of the level above), guards and
  checks, composite keys, case-insensitive collations, a foreign key in the
  payload beside a TO object.
* In the client: the validator and action-form caches, which have the guards of
  `meta()`, and `metaStore: false`.
* HTTP controllers and actions: a request parses, checks and delegates to a
  table; what outlives a request is in the tables.
* The memory adapter's storage: one synchronous engine behind the statements the
  other modules already have as atomic steps.
* Most of the repository by lines is translation without behaviour over time:
  SQL text and filter builders of four engines, metadata built once per type,
  query parsing and guards, validation, compile-time annotations, and command-line
  tools. A model of them would restate them. The share of lines the map covers is
  therefore small, while the code that holds state between two awaits is covered.

## 7. Plan

The modules came in the order in which lost or misattributed writes, and a
schema or a counter in an unknown state, are the worst this system can do. Next:

1. Views and renames in DdlOrder; safe mode.
2. Bounded writes and insert-or-ignore of the SQL adapters, with savepoints.
3. `MemoryTable`: rows and unique indexes with re-keying in a batch; row caches of
   HTTP actions.
