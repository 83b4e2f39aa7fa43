# A TLA+ verification of peewee's stateful core

peewee is a Python ORM: most of it turns Python expressions into SQL text. What
is hard about it is elsewhere, where it keeps state between calls and where
threads, tasks, transactions and a database server that fails meet: the
connection pool, the transaction stack, the write queue, the asyncio pools, the
migration runner; and in algorithms whose answer depends on a whole graph: the
aliases of nested queries, the order in which rows that refer to each other are
deleted, the objects of a joined row. These specifications model both. They are
checked with TLC on small instances, and what matters most of the pools, of
transactions, of the write queue, of streamed and cached results, of model
instances and many-to-many fields, of the migration runner and the schema
migrator, and of three smaller components is proved with TLAPS for every value of
the parameters.

| module | what it is |
|---|---|
| `ConnectionPool` | `playhouse/pool.py` with `Database.connect`/`close` |
| `ConnectionPoolProofs` | proofs of its invariants, and that it forgets no open connection |
| `Transactions`, `TransactionsProofs` | blocks, savepoints, sessions and manual mode of `peewee.py`; proofs about it, that it implements `NestedTransactions`, and what follows from that |
| `NestedTransactions` | what nested blocks promise, which `Transactions` implements |
| `WriteQueue`, `WriteQueueProofs` | `playhouse/sqliteq.py`; proofs about its writers, answers, order, pauses and `stop()` |
| `AsyncPool`, `AsyncPoolProofs` | `playhouse/pwasyncio.py`: tasks and pools; proofs that connections are neither shared nor lost |
| `Streaming`, `StreamingProofs` | `playhouse/pwasyncio.py`: one connection and its generators; proofs of its safety |
| `ResultCache`, `ResultCacheProofs` | cursors and their iterators; proof that each row comes once |
| `ModelCursor`, `EagerLoading` | objects of joined rows, `prefetch` and `with_related` |
| `SqlScopes`, `CompoundSelect`, `InsertRows`, `ModelFilter` | the query builder: aliases and scopes, compound selects, inserts, `filter()` |
| `ModelInstance`, `ModelGraph`, `ManyToMany`, `FieldValues` | instances and `save`, models that refer to each other, many-to-many, packed fields |
| `ModelDicts`, `Signals`, `KeyValueStore`, `FtsParser`, `SqliteFunctions` | `shortcuts.py`, `signals.py`, `kv.py`, `fts_parser.py`, `sqlite_udf.py` |
| `Migrations`, `MigrationsProofs` | `migrations.py`; proofs that history and schema agree, and that the schema migrator loses no row |
| `SchemaMigrator`, `SchemaDiff`, `Reflection` | `migrate.py`, `schema_diff.py`, `reflection.py` with `pwiz.py` |
| `DatasetTable`, `TableLifecycle`, `SqliteConnections`, `Retries`, `ChangeLog` | `dataset.py`, creating and dropping tables, what connections are given, statements that are repeated, `sqlite_changelog.py` |
| `ComponentsProofs` | proofs about `ModelInstance`, `Retries`, `SqliteConnections`, `KeyValueStore` and `ManyToMany` |
| `MCConnectionPool`, `MCTransactions`, `MCWriteQueue`, `MCAsyncPool` | instances of one component for TLC |
| `MCResults`, `MCModels`, `MCSchema` | instances of several components, of which a behaviour exercises one |

`tlc -config ConnectionPoolSafety.cfg MCConnectionPool.tla` runs an instance,
`tlapm ConnectionPoolProofs.tla` checks the proofs of a module.

## 1. The system

### Components, their state and operations

* **Connection state** (`peewee.py` `_ConnectionState`, `Database.connect`,
  `close`). Per thread: the connection, whether it is closed, a stack `ctx` of
  context managers that need the connection and a stack `transactions`. A
  database-wide `_lock` is held by `connect` and `close`. Correct if `closed`
  and the stacks describe the connection the driver has.
* **Transactions** (`_transaction`, `_savepoint`, `_atomic`, `_manual`,
  `Database.__enter__`, `ConnectionContext`, `session_*`). No state but the
  stacks; the truth is at the driver. Correct if nested blocks behave like
  nested transactions whatever mixture of commits, rollbacks, exceptions and
  lost connections happens inside, and if `in_transaction()` says what the
  driver would say.
* **Connection pool** (`playhouse/pool.py`). A heap of idle connections, a
  dictionary of those in use, one lock and a condition variable. Operations:
  `_connect`, `_close`, `manual_close`, `close_idle`, `close_stale`,
  `close_all`. Overrides methods `connect` and `close` call with the database
  lock held, so that two locks interact. Correct if the number of connections
  is bounded, no connection has two users, none is handed out broken or dirty,
  none is lost, nobody deadlocks and a thread that waits is served.
* **Write queue** (`playhouse/sqliteq.py`). A bounded queue of messages, a
  writer thread, an event per write. `start`, `stop`, `pause`, `unpause` send
  messages on the same queue under `_qlock`. Correct if there is one writer,
  writes are applied in order, everybody gets one true answer, a pause excludes
  the writer, a stop flushes, and no call hangs.
* **Asyncio databases** (`playhouse/pwasyncio.py`). Greenlets that run the
  synchronous code, one state per task found through a context variable, pools
  of three drivers, a lock per connection that a streaming cursor holds.
  Correct if connections are released once, never shared, and the pool keeps
  its size through cancellation, failed reconnects and `close_pool`.
* **Migration runner and schema migrator** (`playhouse/migrations.py`,
  `migrate.py`). A history table and a directory of modules; on SQLite, table
  rebuilds of several statements. Correct if history and schema agree after any
  failure, as far as the database's DDL is transactional.
* **Cursor wrappers** (`CursorWrapper`, `ResultIterator`): a cache of rows
  shared by iterators, and a counter. Correct if every iterator sees every row
  once in order.
* **Models** (`save`, dirty fields, `get_or_create`, `bulk_create`,
  `delete_instance(recursive)`, `sort_models`, `bind_ctx`, many-to-many):
  sequential, with races between processes at the database. Correct if objects
  and rows agree, and if what depends on the graph of models (order, deletion,
  binding) follows the graph.
* **Eager loading** (`prefetch`, `with_related`): several queries put together in
  memory. Correct if what hangs together is what the keys relate.
* **Query builder** (`Context`, `AliasManager`, `CompoundSelectQuery`, `Insert`,
  `ModelSelect.filter`): a tree written to text. Its state is the scopes of
  aliases and the joins and settings of the moment. Correct if the text means
  what the tree says.
* **Reflection, schema diff, dataset, life of tables**: what the program knows of a
  schema, kept apart from the schema. Correct if they agree, whatever names
  collide and whatever failed or was changed by others.
* **Connections of SQLite, retries**: settings to be applied to every connection;
  statements that are issued twice. Correct if no connection lacks a setting and
  nothing is half done.
* **Change log, key-value store, signals, full-text queries, SQL functions,
  dictionaries**: small components, each with an order of events or a shape of
  data that is easy to get wrong.

`PROJECT.json` lists every component with its status, and under `hazards` each
place in the code where something can go wrong that a test would hardly reach,
with the property that watches it.

### How they interact

`Model` and query methods call `Database.execute_sql`, which takes the thread's
connection, connecting first if it must. `PooledDatabase` overrides `_connect`
and `_close`; `SqliteQueueDatabase` overrides `execute_sql`;
`AsyncDatabaseMixin` overrides `_state`, `connect`, `close` and the context
managers. Transactions work on `_state` only, through `Database`. The models
follow these seams: `ConnectionPool` sees a transaction as a flag and a dirty
connection, `Transactions` sees a connection as open, closed or lost.

## 2. ConnectionPool

**State.** `dbLock`, `poolLock` are the owners of the two locks; `idle` is
`_connections`, `inUse` the keys of `_in_use`; `conn`, `txn` the thread-local
state; `open`, `dirty` what is true at the driver: connections open, and those
with a transaction open. Connections are numbered by age, which is the heap's
order; `staleUpTo` is the youngest connection older than `stale_timeout`.

**Steps.** Acquiring a lock is a step; what is done under the pool lock is one
step, because nobody else can touch those variables meanwhile. `close()` is
four steps (lock, pool lock, `_close`, reset of the state) since others run in
between. A thread that waits is in `waiters` until it is notified or the cap of
one second elapses.

**Abstractions.** `close_stale` closes an arbitrary subset of the connections in
use, since the times of check-out are not kept. `_is_closed` is what the drivers
that can tell say; `_can_reuse` may or may not notice a connection that was
dropped with nothing open on it. A pool without `max_connections` is not an
instance. A transaction block is a flag here; its inside is `Transactions`.

**Properties** (run `pool_safety`: two threads, one slot, every call and fault;
563 000 states): `PoolBounded`, `Exclusive`, `IdleClean`,
`TransactionKeepsConnection`, `NoLeak`, `LockOrder`, `CheckoutUsable`. Two
threads and one slot already give every interleaving of a check-in with a
check-out, and `Sessions = 2` lets a thread come back to a connection that was
returned, aged or dropped; three connections let one be idle, one stale and one
new. `pool_wait` (three threads, one slot, `timeout=0`) checks `WaiterServed`:
three threads are needed for a notification to go to one that then loses the
race.

**Fairness.** `WaiterServed` assumes that threads inside a call go on, and that
the application closes what it opens. Fairness is strong because threads that
retry take both locks again and again: weak fairness would let a waiting thread
find the lock taken at every moment it looks.

**Proved.** For any threads, limits and faults: `TypeOK`, `PoolBounded`,
`Exclusive`, `IdleClean`, `TransactionKeepsConnection`, `LockOrder` and the
action property `CheckoutUsable`. None but `TypeOK` is inductive. The invariant
`PoolInv` adds `LockOwners` (where a thread is says which locks it holds),
`HandedOver` (a connection on its way to a thread is nobody else's) and
`HandedBack` (only the thread that has just returned a connection still refers
to it). `PoolBounded` needs no more than types: the bound grows only in
`Create`, which empties the heap first. `Exclusive` rests on the database lock:
the thread that has put its connection into the heap holds it until its state
is reset, and no `connect` gets to the heap without it.
`NoLeak` is proved under the assumption that
`manual_close` is not called inside a transaction, from `LeakInv`:
`HeldOnTheWay` (a connection in a local variable is on its way into the
thread's state or to its end), `ManualUndisturbed` (nothing makes the `close`
inside `manual_close` refuse) and `HandedTracked`.
`WaiterServed` is model-checked only.

**What it shows of the code.** `manual_close` inside a transaction untracks the
connection and then fails (pool.py:194), so that the `close` that follows neither
returns nor disconnects it. Outside of one it gives its slot away before it
closes the connection: the count of open connections may exceed the limit for
as long as the call lasts.

## 3. Transactions and NestedTransactions

**State.** What the code knows (`closed`, `ctx`, `txns`), the `with` blocks the
program is in, and what is true at the driver (`begun`, `saves`, `work`,
`durable`). Data is a set of rows that statements add to. A block records the
context manager it was written with and what it turned out to be: the outermost
`atomic()` is a transaction, a nested one a savepoint, a nested `transaction()`
is inert.

**Steps.** Entering a block, leaving it (with or without an exception of the
body, returning or raising), one explicit call, one statement. `COMMIT`,
`ROLLBACK`, `SAVEPOINT`, `RELEASE` are SQLite's: in the wrong state they fail
and change nothing. `commit_fails` makes COMMIT or RELEASE fail; `lost` drops
the connection at any time.

**Abstractions.** One thread. Savepoints are named by the depth of their block
instead of a random name, as those of open blocks differ. `savepoint()` is used
inside a transaction, as the documentation requires. A COMMIT that fails leaves
the transaction open, and one whose answer is lost with the connection is not
told apart from one that was not sent. The program ends in a manual block what
it began there, and uses no sessions there. `begin` after an explicit commit
succeeds: where it does not, `in_transaction()` is wrong (see the hazards).

**The abstract specification** is a stack of the rows each block began with. A
block that returns keeps its work for its parent, one that raises takes it
back, the outermost makes it durable; a lost connection dooms every open block
to raise. `Implements` checks that `Transactions` implements it, with the stack
computed from the blocks that have a savepoint or a transaction at the driver:
the snapshot of the savepoint that a name means at that moment, and what is
durable for the outermost.

**Runs.** `transactions_blocks` (three levels, three savepoints, two rows,
every fault): `InTransactionTrue`, `SavepointsKept`, `ContextsSound` (the types,
and the count of contexts), `Implements`. Three levels are a transaction, a
savepoint and a savepoint inside it, the least that can confuse two of a kind.
Four levels were checked once, with the same result. `transactions_mixed` mixes
sessions, manual blocks, objects of outer blocks and `close()`: `ModesSound` says
that `in_transaction()` is still right and that manual blocks stay manual. In
such mixtures blocks may fail that would not by themselves; that
`in_transaction()` is right is then what a program depends on.

**Proved** of `Transactions`, for any rows, depth of nesting and number of
savepoints, and for sets of operations instead of one instance:
* In any mixture of blocks, sessions, explicit commits, manual blocks and
  `close()`, `InTransactionTrue` (`StackTells`) and `ManualSuspends` with it
  (`ModesKept`). The assumptions are the first and the last of the cases below:
  no session whose COMMIT fails, no manual block on a closed database. The
  inductive invariant `Truth` adds that a stack with entries is that of an open
  database and that the entries of manual blocks are below all others, for
  without that the statements of a manual block could end a transaction the
  stack still has. `Suspended` adds that from a manual block on there are at
  least as many entries as blocks that will take one off.
* When `Recommended` holds (no objects of outer blocks, sessions, manual blocks or
  `close()` inside blocks; every fault is allowed), `SavepointsKept`
  (`SavepointsStay`) and `ContextsSound` (`ContextsCount`). The invariant
  `Disciplined` counts: the ctx stack has an entry for each block that needs the
  connection, the transaction stack one for each block that is a transaction, and
  there is one block that began the transaction, around all that depend on it.
  The savepoints a statement leaves are then a prefix of those there were, and it
  holds all that the remaining blocks mean.
* Under `Recommended` and without `with_db_nested`, `Implements`
  (`BlocksImplement`): every step is one of `NestedTransactions` or none. The
  mapping lists what each block began with by the ranks of the blocks, so pushing
  and popping a frame are facts about positions (`ListedEnds`, `FramesPushed`,
  `FramesPopped`, `FramesReplaced`), and each frame is looked up at the driver:
  a statement about the innermost savepoint must leave the others' where they are
  (`FramesAround`). The inductive invariant `Linked` is `Disciplined` and `Truth`
  with `Settled`, that outside a transaction everything is durable (a rollback
  that finds nothing to roll back has taken back everything), and `Within`, that a
  database used as a context manager inside a transaction is inside another
  context. `Within` needs the second hypothesis: without another context, the end
  of such a block closes the database, which raises since a transaction is open,
  after the savepoint was released. That is the second case below, and not what
  `NestedTransactions` promises.

* Under the same hypotheses, what the abstract specification promises, of the rows
  of `Transactions` itself: each open block began with at least what the enclosing
  one began with, and the program sees at least what the innermost began with
  (`BlocksLayered`); an exception out of the outermost block leaves exactly what is
  durable, and makes nothing durable (`BlocksUndone`). Both are invariants of
  `NestedTransactions`, in terms of its own stack, and the proof carries them along
  the mapping of `Implements`: a step of the code is a step of the abstract
  specification, so what every abstract step keeps, every step of the code keeps.

**What it shows of the code**, with other operations enabled in the instance:
* `session_commit` forgets a transaction whose COMMIT failed (peewee.py:4004).
* `with db:` inside `atomic()` raises at its clean end, although its work is
  kept (peewee.py:3808).
* `manual_commit()` on a closed database loses its entry with the first
  statement, and ends with `IndexError` (peewee.py:5240).

## 4. WriteQueue

**State.** The queue of messages, `_qlock`, `_is_stopped`; for every writer thread
ever made its mode and the message it has taken; for every write what its
client was told, and the log of the writes applied. `pledged` is a history
variable: the writes `stop()` found in the queue.

**Steps.** A put or a get is atomic, as in `queue.Queue`, and blocks by its guard.
Clients submit, get the result, or time out; controllers call; the writer takes
a message and handles it. `stop()` is the put, the join, and a look at the
queue and a get for each message that remains.

**Abstractions.** Execution of a write and telling its cursor is one step: nobody
reads both. Reads do not go through the queue and are not modelled. Opening the
file always succeeds. After `pause()` the program calls `unpause()` or `stop()`
next.

**Runs.** `queue_safety` (two clients, three writes, a queue of two, one
controller with five calls: start, pause, unpause, stop, start) checks
`WriterSound` (the types, and that there is one writer), `InOrder`, `Told`,
`PauseExclusive`, `Flushed`, `AnswerStands`, with writers that may die from a failing fetch; since whoever waits for a dead
writer waits for ever, deadlock is not checked there. `queue_live` (two
controllers, a queue of one place) checks deadlock, `Answered` and `Returns`
under weak fairness of threads that are inside a call: calls are bounded, so
that a lock or a place in the queue is not denied for ever.

**Proved** for any number of clients, controllers, writes and places in the queue:
`Told` and `AnswerStands`; if `start()` is not called while `stop()` runs
(`Serialized`: the program sees to it, or one thread makes the calls),
`WriterSound`, `InOrder` and `Flushed`; if one thread makes the calls,
`PauseExclusive`.
* `Told` and `AnswerStands` rest on `HandsInv`: a pending write is in the queue once, or in the
  one task of a writer, and one that is answered is in nobody's hands.
* `WriterSound` rests on `Successor`: a writer that is not gone is the last one made, and if
  the database is stopped some `stop()` is still joining it; `start()`, which makes
  another, is not called then.
* `InOrder` adds `Ordered`: the queue is sorted, what a writer has taken comes before all
  that is queued, and after all that is in the file. It needs one writer: two could
  each take a write and execute them in either order.
* `Flushed` (`StopFlushes`) adds `StopInv`: one call waits for a writer at a time, and the
  message that ends the writer is in the queue once. `Promised` is the argument: for a
  write that was queued before the call, as long as the writer lives, the write was
  answered or is ahead of that message; so it was answered when the writer has read
  the message. Of a writer that a failing fetch has ended nothing is promised.
* `PauseExclusive` (`PausesExclude`) rests on `Asked` (a controller whose message is still
  on its way has not been answered) and `Granted` (from the answer to `pause()` to the
  next call no writer runs). With two controllers it is false: one may unpause what
  the other has paused.

Deadlock and liveness are model-checked.

**What it shows of the code.** `start()` while `stop()` joins the writer makes a
second writer on the same queue (sqliteq.py:282; with a second controller). A statement whose later rows
fail, such as `VALUES (1), (abs(-9223372036854775807-1))`, ends the writer:
`fetchall` is outside of the `try` (sqliteq.py:47).

## 5. Asyncio: AsyncPool and Streaming

**State.** `AsyncPool`: per task the await it is at, the state its context variable
leads to, its connection and transaction; the pool, its lock, the release tasks
that are tracked; per pool what is idle and checked out; what is true at the
database (`open`, `dirty`). `Streaming`: one connection, its lock and
`_streaming` flag, and what each generator has buffered and yielded.

**Steps.** What happens between two awaits is one step. A cancellation may arrive
at every await of `aconnect`, and, where the setting says so, of a release and of the
`gather()` of release tasks in `close_pool()`, which cancels those tasks with it. A
task that ends is followed by the release task its callback makes. In `Streaming`,
asyncpg's BEGIN and ROLLBACK may fail or be cancelled, with the transaction open
or not, when a generator starts, when its start is undone and when it ends; `depth`
is what is open on the connection, and `broken` remembers which kinds failed.

**Runs.** `async_pool` (two tasks, one slot; eight settings of driver and faults; 884 000 states): `Exclusive`, `IdleClean` and `NothingLost` (types, `SlotsKept`,
`Accounted`). Two tasks are needed for a connection to change hands, two pools
for `close_pool()` and a new pool to overlap, three connections for a stale one,
its replacement and a surplus. `results` checks `Streaming` with two generators
over three rows read in portions of two, on three drivers: `StreamsSafe` (the lock
belongs to one statement, unless a task is cancelled while `execute_iter()` rolls
back; asyncpg's cursor has a transaction around it, and no other is open unless
a BEGIN or ROLLBACK failed; rows come in order) and the liveness property
`NeverStuck`: a task that wants the connection gets it or an error, even if the
generator in its way is never closed. Its fairness is the event loop's (a lock
that is free is given, a timer that has run out fires, the database answers);
the program is not obliged to read on.

**Proved.** Of `AsyncPool`, for any tasks, pools and limits, either kind of driver and
every fault: `Exclusive` and `IdleClean`. Their invariant is `Places`: a connection that
is open is in one task's state, or in one release, or at one position of one queue; no
queue holds one with a transaction; and connections are numbered as they are made
(`Numbers`), so that a new one is nowhere yet. A step moves one connection and leaves
the rest (`PlacesMoved`), so that each action has only to say which one it moves and why nobody else has it: `AClose` and `Reclaim` because they empty the state before they release,
`Connect` because what it releases before that is stale. `Context` adds that a task that acquires knows its pool.

`NothingLost` (`NothingIsLost`), for the same parameters and with no assumption but that
they are numbers. It names the faults it does not cover: `TakesSlots` (a
connection that cannot be replaced, a release that is cancelled, by itself or with the
`gather()` of `close_pool()`) and `LosesConns` (those cancellations, a pool that is half
made, `late_release`, `two_closers`). `Accounted` and `SlotsKept` hold of each other's failures only: a
connection is not lost because the queue it is returned to is still that of an open
pool, and the pool keeps its size because what is checked out has an owner. The
invariant `Working` puts `Places` and `Context` together with
* `Contents`: every release has a connection and the pool it came from, what a task
  uses or releases is checked out of that pool (`Has`, `Hand`), what is idle is not
  (`Apart`), and a pool has between `PoolSize` connections (SQLite) and at most as
  many (the servers' drivers);
* `Closers`: who makes a pool has the lock, and `close_pool()` empties the pool there is;
* `Registered`: a task that acquires or holds a connection is among the states that
  `close_pool()` reclaims, and its callback is set, so that its end releases;
* `Late`: a SQLite pool is not closed while a connection is on its way back to it,
  except where `late_release` lets it;
* `Found`: every open connection is in the queue of a pool that will be closed, or in a
  hand.
In no instance of two tasks is `SlotsKept` false, but the proof of its step failed at
first, and TLC then found why with three tasks and the setting `two_closers`: two of them
close the pool, one drops the pool that the third has made meanwhile, and a connection
whose place the closing has not drained cannot be replaced in it. Nobody uses that pool
any more, and `SlotsKept` says so now: where two tasks may close, it is about the
pool in use.

Of `Streaming`, for any generators, results and portions: `StreamsSafe` (`AlwaysSafe`), from `LockInv` (who
holds the lock follows from where each generator is and whether a rollback was cut
short, and asyncpg's transaction from who holds the lock as long as none has failed to
begin or end) and `RowsKept` (what was yielded, what is buffered and what is still
at the server make up the result, in this order). `NeverStuck` is model-checked.

**What it shows of the code.** The pool loses something where a setting allows the
fault, which is why the properties name them:
* a connection released after `close_pool()` has closed its pool's queue between
  the check and the put is never closed (`late_release`);
* `aclose()` cancelled inside the release loses the connection, and the slot; so does
  `close_pool()` cancelled while it gathers the release tasks, since they are cancelled
  with it and `_safe_release()` catches an `Exception` only (pwasyncio.py:336, :168);
* `execute_iter()` cancelled again while it rolls back a failed start releases
  neither the lock nor `_streaming`, and every later query of the connection
  gives up (pwasyncio.py:1063-1071);
* a rollback that fails at the end of a generator is ignored (pwasyncio.py:1078-1085):
  later queries run inside of the transaction it leaves, until the connection is released;
* a second release of a connection can raise the pool above `pool_size`
  (docs/peewee/asyncio.rst:452);
* `initialize()` that fails half-way leaks the connections it has made;
* two concurrent `close_pool()` calls can forget a pool made in between;
* a connection that went stale inside `atomic()` is replaced silently by
  `aconnect()`, and the block goes on outside of its transaction;
* a query that writes loses its effect if it is read with `iterate()` on
  PostgreSQL, since the bracket around it is rolled back.

Left out: the greenlet bridge, which moves calls without changing their order.

## 6. Results: ResultCache, ModelCursor, EagerLoading

Run `results` (234 000 states with `Streaming`); each behaviour exercises one part.
`ResultCache` is checked by run `models`.

* `ResultCache`: the counter, cache and iterators of one query of three rows, of
  which one may not convert; two iterators, `iterator()`, indices, `len()`,
  `first()` and `get()` in any order. `RowsOnce`: nobody gets a row twice or out
  of order, and who read from the cache alone misses none. Two iterators are what it
  takes for one to fill the cache under the other.
  It is proved (`RowsAlwaysOnce`) for any table, any rows that fail to convert, any
  number of readers and executions, and any sequence of calls. The assumption `Ordered`
  only numbers the rows by their place, so that order can be told by number.
  `CacheInv` says of every execution how its counter, its cache and what is left to
  fetch make up the table (`CursorsSound`), of every iterator how far it is in its
  execution (`ReadersSound`), and of the last answer where it came from (`Held`): the
  counter may be ahead of the cache, which is why the property excludes executions
  whose cache missed a row.
* `ModelCursor`: joins of four sources (a chain, a star, or both), each along a
  foreign key, a back-reference or to a dictionary, with no column, the key or
  another column selected; the plan `initialize()` makes and the objects
  `process_row()` returns. `ObjectsAsJoined`: an object stands for a row that
  matched.
* `EagerLoading`: three lists of queries over users, tweets with two keys to
  users, and likes; limits per parent; a deletion between queries.
  `RelatedAsStored`: lists and references are those the keys name, complete if
  nobody wrote in between.

**What they show of the code.** A joined model of which columns but not the key were
selected has its foreign key set to `None` (peewee.py:9143), where
docs/peewee/relationships.rst:865 has the key kept; two sources in a row of which
nothing is selected lose the object behind them in an outer join; a dictionary as a
source may be looked up before it is made; a row that fails to convert is
counted, so that the counter runs ahead of the cache; `iterator()` and cached
access of one result do not mix; `first()` changes the limit of the query; a
`prefetch()` with LIMIT re-runs the parents' query as a subquery and sees other
parents after a deletion.

## 7. Queries, models and helpers

Run `models` (418 000 states with `ResultCache`, of section 6). The algorithms are checked against definitions of
what they should compute that share nothing with them: names are resolved as a
database does it, compound selects evaluated on bags of rows, filters on rows.

* `SqlScopes`: how `Context` writes a tree. Scopes are levels of aliases; a source
  gets its alias at the first mention, which may be before its FROM. Queries:
  seven pairs of sources, joined or not, correlated subqueries in every clause,
  functions, nested compounds, CTEs, UPDATE and DELETE, in four settings.
  `QueriesMean` says every reference resolves to what was meant, no two sources of a
  FROM share an alias, and each parameter is at its placeholder.
* `CompoundSelect` is operators alone: the style of each member (flat,
  parentheses, wrapped), and what a database reads. All trees of two levels and
  some of three.
* `ModelFilter`: `join()`, `switch()`, `filter()` and `ensure_join()` over three
  models, two of whose keys lead to the same one. `QueriesMean` requires that a
  filter finds the rows its paths lead to, while one key joins each pair of models.
* `InsertRows`: inserts of dictionaries, tuples and queries, defaults, seven
  conflict clauses, three databases, two statements after another.
  `ValuesGiven` says the table holds what was given.
* `FieldValues`: flags, bit buffers, timestamps, UUIDs of two clients that load,
  change and save (`ValuesGiven`).
* `ModelInstance`: two instances of a row and the object their key refers to,
  with `save`, `only`, `create`, `get_or_create`, `bulk_create`, `bulk_update`,
  deletion, and other writers, four steps of the program. `InstancesTrue`: what is
  not dirty is in the row, the object and the id beside it agree, `get_or_create`
  answers or says why not.

  Proved (`InstancesShowTable`) for any instances, parents, ids and steps, with other
  writers. `InstanceAssumption` says that ids are positive, since 0 stands for None.
  `InstancesTrue` is not inductive: `InstanceInv` adds that an instance without a key
  has only dirty fields (`NewIsDirty`), or its INSERT would leave a clean field that is
  in no row; that an instance that was never given the foreign key has no object
  beside it and NULL in its row (`NoUserNoObject`), or a `save()` of other fields would
  keep an id the instance does not show; and what `get_or_create()` holds between its
  queries (`Searching`): that the row which refused the INSERT is there, or lost its key.
* `ModelDicts`: four objects that refer to each other in every way; the dictionary
  and the instance made from it agree with the rows (`ValuesGiven`).
* `ModelGraph`: classes defined in any order, with deferred keys; creation and
  deletion of rows, recursive, with nullable keys; overlapping `bind_ctx()`
  blocks (`RelationsSound`).
* `ManyToMany`: two clients that add, remove, clear and set from both sides of a
  through table, of which a model may be the target twice. `SidesAgree`: both sides
  show the same, and unless a set was interrupted or overlapped, what the statements
  asked for.

  Proved (`SidesAlwaysAgree`) for any instances, through models, clients and number
  of statements. `ManyAssumption`: there are two models, which share no instance,
  and the through model has a key to each, by names of their own. (A field from a
  model to itself is left out: it uses one key for both sides.) The invariant
  `ManyInv` says what the relation is while a set is half done: what the through
  rows tell is the relation without the pairs of the instance that was cleared, and
  nobody else has a set under way. Its insert cannot fail on a unique index then,
  since none of its pairs is told by a row; that is where the two sides, whose rows
  name the keys in either order, have to be one relation of unordered pairs.
* `FtsParser`: every text of up to four tokens against every document of two
  columns and two words; `SqliteFunctions`: groups of five numbers, growing documents
  two levels deep, and what raises a TypeError
  (`QueriesMean`).
* `Signals`: receivers that connect, disconnect and send; each is called once
  (`RelationsSound`).
* `KeyValueStore`: two clients, on SQLite, PostgreSQL and MySQL. `PopsApart`: on
  SQLite, `pop()` returns a value once and removes nothing but what it returned.

  Proved (`PopsAreApart`) for any keys, clients and interleaving. `StoreInv` adds that
  the value a `setdefault()` is about to write was never in the store (`NewValues`), or
  it could come back after a `pop()`; and that a `pop()` still finds what it read if
  nothing has changed since (`SeenIsThere`), which is when SQLite lets it write.

**Finding** (`recursive_delete`). In a cycle of models, `dependencies()` compares a key
that was reached through another model with the id of the object to be deleted,
and deletes rows that have nothing to do with it.

**What else they show of the code.**
* `SqlScopes`: an alias the program chose, such as `t2`, can be the one a table
  gets. A subquery that is a branch of a compound names a correlated source by
  the alias of the first branch (peewee.py:2535).
* `CompoundSelect`: grouped parentheses inside IN and EXISTS write a plain member
  with its own ORDER BY and LIMIT flat; the setting `UNNESTED` does not promise to
  keep the meaning of nested compounds. Neither is demanded by `QueriesMean`.
* `ModelFilter`: two paths to one model through two keys share one join, so that
  `filter(author__name='a', editor__name='b')` asks one user for both names
  (peewee.py:8699); `author__name=None` tests a column of the wrong model
  (peewee.py:8733); a self-reference joins the model twice; inner joins drop the
  rows whose key is NULL, in an OR as well.
* `InsertRows`: keys of later rows that the first row lacks are dropped; tuples
  that are too long are cut; `insert_from` gets no defaults made in Python;
  strings in `preserve` are column names.
* `ModelInstance`: with `only_save_dirty`, an object saved after the instance that
  refers to it leaves NULL in its key; `save()` of a row that was deleted writes nothing and
  does not say so; `bulk_create` without RETURNING inserts again what it is given
  again.
* `ModelGraph`: each class is visited once, so that a second path to it (a diamond, or
  a second key) is missed; references of a class below the root to itself are
  updated after the deletion; deferred keys do not order the deletions;
  `bind_ctx` gives related models that were not listed the database of a
  listed one at its end; a `DeferredForeignKey` to a class that is defined
  already is never resolved.
* `ManyToMany`: an assignment is a clear and an insert without a transaction; a
  self-referential field uses one key for both sides; a prefetched list is not
  refreshed.
* `FieldValues`: a bit buffer changed in place is not dirty; automatic flags may
  repeat an explicit value; an upper-case hexadecimal UUID is stored as it is;
  `BinaryUUIDField` takes no dashed text.
* `ModelDicts`: a joined object that did not match becomes `{'fk': None}`.
* `KeyValueStore`: `PopsApart` is about SQLite's serialised transactions. On
  PostgreSQL and MySQL `pop()` may return a value twice or remove a newer
  one; `setdefault()` may overwrite a value everywhere.
* `Signals`: a receiver that is connected during a send is called by it, and one
  that is disconnected during it still is.
* `SqliteFunctions`: `toggle()` reads and then writes; `json_contains` raises a
  TypeError when a list or an object is looked up in an object (sqlite_udf.py:269-273),
  and is not transitive.

## 8. Schemas and connections

Run `schema` (993 000 states).

* `Migrations`: two runners, three migrations (one without a transaction, one
  without `down`), failures and crashes at every statement, files that vanish.
  `SchemaDiff`: two models in several versions, databases that are empty or have
  other indexes; the generated file runs up and down. `MigrationsTrue`: history
  and effects agree for migrations in a transaction and foreign keys are on again;
  the migrations of the run are such that a second `down()` fails (see `Revertible`
  below). `GeneratedMigrates`, a part of `SchemaKnown`: generated migrations lead to
  the models and back.

  Proved of `Migrations`, for any runners, migrations, statements and faults:
  `MigrationsTrue` (`AlwaysTrue`) and, of its parts, `FksRestored` with no assumption on
  `down()` (`FksOnAgain`). `HistoryTrue` is not inductive. `MigrationsInv` says of the
  transaction that is open who has opened it (`WriterRuns`), that it has changed nothing
  but its own migration (`OwnEffects`), and that the database without it is true
  (`Settled`); of migrations without a transaction, which commit statement by statement,
  that nobody disturbs them (`Alone`); of a migration half done, that its effects are
  those of the statements done (`Partial`); and what runners go by (`DownsGiven`,
  `PlanTrue`). `Revertible` assumes that a migration's `down()` fails when it is run a
  second time, as `DROP TABLE` does, or that there is one runner: the code reads the
  status before it reverts (migrations.py:134), and without the assumption the theorem is
  false, as the next list says. `Sized` says that the number of statements is one.
* `SchemaMigrator`: every operation on a table of three columns on four databases,
  with SQLite 3.24, which rebuilds the table to change or drop a column, and 3.53, which
  has RENAME and DROP COLUMN and SET and DROP NOT NULL, inside and outside of a
  transaction, one mishap at any statement, another connection's insert. `AsAsked`, a
  part of `SchemaKnown`: what was asked for and nothing else. The goal (`Intended`) is
  stated without regard to the database, and what SQLite and MySQL forget beyond it is
  named beside the property (`Left`, `LostKeys`, `TwiceUnique`): without any one of these
  exceptions TLC finds it violated. `RowsSurvive`: no row lost wherever the operation stops.

  `RowsSurvive` is proved (`RowsAreKept`) for any tables, columns, rows, dialects, calls
  and interruptions, and any inserts of others. `MigratorAssumption` says what the
  seven operations are, that the tables given are tables with an id column, and that no
  operation drops, renames or alters the id (its values are how a row is
  recognised). The invariant `MigratorInv` says where the rows are at each statement that
  is left to do (`Running`): in `t` as long as all that is left are statements that
  leave the ids alone (`Plain`), and, of the five statements of a rebuild, in `t` up to
  DROP TABLE and in the copy from the INSERT on (`Rebuilding`), which is why the copy
  must take the id column over (`IsCopy`); and that what a transaction would return to
  has them (`saved`). It rests on lemmas about the columns as a sequence: adding,
  removing and replacing one keep the others. TLC checked `MigratorInv` on 3.6 million
  states before it was proved.
* `Reflection`: catalogues whose names collide, to models, to `pwiz`'s file, to
  tables again. `DatasetTable`: two clients of one table that grows.
  `TableLifecycle`: two processes create and drop two models, one failure.
  `ChangeLog`: rows can be made again from the log, under REPLACE, NULL and rollback.
  All in `SchemaKnown`.
* `SqliteConnections`: two threads that register, attach, load, close and reopen.
  `SettingsLast`: a new connection has all that is registered, and nothing a connection
  has was forgotten.

  Proved (`SettingsSurvive`) for any names, threads and files. `SqliteAssumption`: names
  of functions, files and extensions are told apart, and none is `closed`. The property is
  inductive once types are added (`SqliteTyped`): what has to be shown is that each call
  changes the registry and the calling thread's connection alike.
* `Retries`: `ReconnectMixin` and `run_transaction`, the connection lost before or
  after any statement. `NothingHalfDone`: what the program was told is kept, what it
  was told is undone is not, and no part of an open block is kept before its end.

  Proved (`RetriesAreHonest`) for any number of statements, attempts and losses.
  `RetryInv` adds that no statement of a block in which the connection still lives is
  missing from the server's transaction: that is what a retry inside of a block would
  break, since the new connection has none of the earlier statements.

**Finding** (`composite_keys`). The generated model of a table with a composite key
lacks those columns of the key whose attribute has another name.

**What else they show of the code.**
* Concurrent `down()` of a data migration reverts it twice.
* `SchemaMigrator`: MySQL's `rename` and its change of NULL, also for a new column that is
  not to be NULL, restate the column without its default, and `rename` and the change of
  NULL with a second UNIQUE; MySQL's DROP COLUMN narrows composite indexes; a rebuild outside of a
  transaction that stops after the DROP leaves the rows in `__tmp__` only, and loses what
  others write meanwhile; a failure between MySQL's drop of a key and its return
  loses the key; `alter_column_type` of SQLite and MySQL takes the field's NULL and
  loses the default, SQLite's also an inline REFERENCES; `migration_context()` inside a program's `atomic()` cannot turn foreign
  keys off, so that dropping the old table cascades to the rows that refer to
  it, against docs/peewee/db_tools.rst:490.
* `SchemaDiff`: the index on `a_b` and the one on `(a, b)` get one name; `down()` fails
  when the dropped index had the columns of another.
* `DatasetTable`: a clash in `__setitem__` is swallowed; a rolled-back transaction
  leaves a model with columns that are gone. Columns are added one by one: those before
  one that fails stay, and the client's model has all of them, so that it knows columns
  the table may lack (dataset.py:249-257).
* `Reflection`: `userId` and `user_id` may collide; a table without a key but with
  an `id` gets a key of all columns; composite foreign keys of PostgreSQL become
  a cross product; `sequence_exists` ignores the schema.
* `SqliteConnections`: an `attach()` that fails stays registered; other threads'
  open connections get nothing of what is attached or registered.
* `Retries`: a statement outside of a transaction may be done twice, if the answer
  was lost; `max_attempts=0` is no limit.
* `TableLifecycle`: on MySQL an index that failed to be made is never made up for;
  sequences that two models share cannot be dropped with one of them.
* `ChangeLog`: text that looks like JSON is logged as JSON; REPLACE logs no
  deletion; an UPDATE without effect logs `{}`; updates of the key cannot be
  replayed; columns added later are not tracked.

## 9. Bounds

| constant | bounds | why it is enough |
|---|---|---|
| `ConnLimit`, `Sessions` | connections ever made; `connect` calls per thread | each thread meets a reused, a stale and a new connection |
| `MaxDepth`, `MaxSaves` | nesting of blocks; savepoints at a time | two savepoints in a transaction, and a duplicate name |
| `Rows` of `Transactions` | rows to write | one tells work from no work, two tell an inner block's from an outer one's |
| `MaxWrites`, `MaxWriters`, `MaxCalls` | writes; writer threads; calls per controller | a restart with writes before, during and after it |
| `PoolLimit`, `Visits` | asyncio pools ever made; acquisitions per task | a release into the pool before the present one; a reconnection |
| `Runs`, `Reads`, `Queries`, `Writes` | executions, reads, further queries, deletions | one reader overtakes another twice |
| `Commands`, `Faults`, `MigrateCalls`, `Mishaps`, `MaxFaults` | commands and faults of `schema`'s parts | one fault and one more command that meets what it left |
| `MaxSteps`, `Steps`, `MaxCalls`, `MaxStatements`, `Bindings` | steps of a program | the longest sequence one property needs (three or four) |
| `SqliteVersions` | versions of SQLite, 3.24 and 3.53 | one before and one after every test of the version in `migrate.py` |
| `Rows` of `ModelGraph` | rows per database | one to delete, one that depends on it, one that does not |
| `MaxTokens`, `MaxDepth` | full-text queries and nested sends | an operator with both operands, negated |

The runs of several components share variables `s1`, `s2`, ..., which each component
renames by `INSTANCE ... WITH`: a behaviour picks its component in the first state. A
component whose properties are proved is extended instead, with its own variables and
constants, so that the run checks the very definition the theorem states: `ResultCache`,
`ModelInstance`, `KeyValueStore` and `ManyToMany` by `MCModels`; `Migrations`,
`SchemaMigrator`, `Retries` and `SqliteConnections` by `MCSchema`; `Streaming` by
`MCResults`. TLC evaluates the assumptions on constants with them. The
proofs need none of the bounds' values.

## 10. What is not proved and not modelled

Only model-checked are:

* `WaiterServed` and the other liveness properties, and what needs `ENABLED`: TLAPS
  proves neither;
* `ObjectsAsJoined`, `RelatedAsStored`, `QueriesMean`, `ValuesGiven`, `RelationsSound`
  and `SchemaKnown`: they compare what the code computes over trees, graphs and
  lists with a definition of what it should be. Both sides are recursive, and a
  proof would be an induction over the data, for which the induction theorems of the
  library cannot be used with the installed provers;
* `AsAsked` of the schema migrator, which is in `SchemaKnown`: it compares with a fold
  over the columns, and is false with more than one mishap, where two rows that
  another connection inserts get the same id. `RowsSurvive` does not need it.

The exceptions
`KeyboardInterrupt` and `SystemExit` inside a commit and processes that fork with
an open pool are not modelled.

Not modelled, and why:
* the text of single expressions, operators, windows, CASE: no state, and what
  could be checked of it is its spelling;
* fields that convert with one call of the standard library, JSON fields and their
  paths, hybrid properties;
* adapters that rename a driver's calls (`apsw_ext`, `cysqlite_ext`,
  `sqlcipher_ext`, `mysql_ext`, most of `postgres_ext`) and `sqlite_ext`'s
  expressions;
* the interface of the command line and the printing of `pwiz` but for its order
  of classes;
* `flask_utils`, `pydantic_utils`, `db_url`, `test_utils`: glue without state;
* batches (`batch_commit`, `chunked`), decorators, one `_atomic` object that is
  entered twice, `PooledDatabase.init()` on a pool in use, `manual_close`'s
  short excess over `max_connections`.

## 11. What could come next

1. An abstract specification of a database that has exactly the migrations of its
   history, for `Migrations` to implement; and a sequence of rows for
   `ResultCache`.
2. Composition of `AsyncPool` with `Streaming`: a connection released while a
   generator of the task is open.
3. `batch_commit`, and a transaction on the server side of `postgres_ext`.
