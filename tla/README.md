# Verification of the Cordova SQLite plugin (evmax, workers, legacy, build-free)

TLA+ models of the plugin, the TLC runs that check them and TLAPS proofs about
them. Paths and line numbers are those of this repository;
`www/SQLitePlugin.js` is the program that runs (it is generated from
`SQLitePlugin.coffee.md`), so the models are mapped to it.

## 1. The system

An application calls a Web-SQL-like API in JavaScript. The plugin queues
transactions per database, sends the statements of the running one to native
code in batches, and calls handlers with the results.

| Component | State | Operations | Talks to |
|---|---|---|---|
| Transaction engine, `www/SQLitePlugin.js` | `openDBs[dbname]`, `txLocks[dbname] = {queue, inProgress}`; per transaction `executes`, `canPause`, `isPaused`, `txlock`, `finalized`, callbacks | `open`, `close`, `deleteDatabase`, `transaction`, `readTransaction`, `beginTransaction`, `executeSql`, `sqlBatch`, `startNextTransaction`; on a transaction `start`, `executeSql`, `end`, `abort`, `run`, `$abort`, `$finish`, `abortFromQ` | native code by `sqlitePluginHelper.exec` (page) or `aqrequest` (worker), answered by callbacks; itself by `nextTick` |
| Batch results (`run`, `run_batch`, `mycb`) | `waiting`, `txFailure`, the handler map and the flat result list of one batch | build the flat request, walk the flat result, call a handler per statement, decide how to go on | engine |
| Android native side, `SQLitePlugin.java` | `dbrmap` (name to `DBRunner`), a queue and a connection per runner, `batchmap` | `startDatabase`, `closeDatabase`, `deleteDatabase`, `executeSqlBatch`, runner thread | SQLite; JavaScript by callbacks |
| iOS native side, `SQLitePlugin.m` | `openDBs` (a thread-safe map to connections), batches of workers | `openNow`, `closeNow`, `deleteNow`, `sqlBatchWithOptions` on background threads | SQLite; JavaScript by callbacks |
| Worker transport (`aqrequest`, `aqcallback`, `remapUri`, `AQManager`) | request ids, callbacks, batches that are being received in parts | `batchStart`, `batchPart`, `batchRun` | engine and native side |
| Thread-safe dictionary, `PSPDFThreadSafeMutableDictionary.m` | the entries, a spin lock | set, remove, look up | iOS native side |
| Helper, sample pages, self test, unused Android implementations | - | - | - |
| SQLite, `sqlite3.c` (vendored) | per connection the auto-commit flag, the pager with its state, lock and page cache; the database file and its rollback journal | BEGIN, COMMIT, ROLLBACK, statements, recovery from a hot journal | native side; the file system |

What is hard here: JavaScript runs one task at a time, but everything is spread
over tasks (a scheduled start, an answer from native code, a call from the
application), and the state of the world changes in between. The lock
`inProgress` is plain data set and reset in many places. The batches that change
the database are executed in another thread, statement by statement, and go on
after a failure. Opening, closing and deleting are not protected by the lock.
Errors of whole requests are dropped in several places. The hazards, each with
its line and the properties that cover it, are listed in `PROJECT.json`.

What makes each component correct:

- engine: one transaction at a time; no transaction forgotten; each reported
  once, and truthfully (error: nothing was left in the database; success: it is
  committed); no SQL transaction left open without an owner;
- batch results: every handler called exactly once, in order, with its own
  result; the decision how to go on taken once, after the last one;
- native sides: a batch is executed on the connection it was sent for or is
  answered with an error; open, close and delete take effect in order;
- worker transport: a batch put together from parts is the batch that was sent;
  each request is answered once, with its own answer;
- the table of connections: what is in it is open, what is open is in it, and a
  page that is loaded anew is not made to commit what the old one left behind;
- SQLite: a transaction reaches the file as a whole or not at all, whatever
  fails or crashes, and nobody reads what is not committed or no longer current.

## 2. Modules

| Module | What it is |
|---|---|
| `SQLitePlugin` | The engine for one database and one JavaScript context, the connection underneath, and the properties |
| `SerialTransactions` | Abstract specification: transactions one at a time, in order, atomic, reported after they are settled |
| `SQLitePluginRefinement` | The refinement mapping from `SQLitePlugin` to `SerialTransactions` |
| `MCSQLitePlugin`, `MCSQLitePluginRefinement` | Symmetry for TLC |
| `SQLitePluginProofs` | Theorems about `SQLitePlugin`, for all constants: types, the lock, the queue, reports |
| `SQLitePluginAtomicityProofs` | ... what is told is what became of the writes, and that it implements `SerialTransactions` |
| `DBRunner` | The Android native side for one database name: bridge threads, `dbrmap`, runner threads with their queues and connections, `onDestroy()` |
| `DatabaseRequests` | Abstract specification: what the engine relies on of a native side |
| `DBRunnerRefinement` | The refinement mapping from `DBRunner` to `DatabaseRequests` |
| `MCDBRunner` | Symmetry for TLC |
| `DBRunnerProofs` | Theorems about `DBRunner`, for all constants, and that it implements `DatabaseRequests` |
| `FlatResults` | The flat lists of statements and of results, as operators: how they are written, cut into parts and taken apart |
| `FlatResultsProofs` | What these operators compute, for lists of any length |
| `StatementBatch` | Batches on their way from several contexts to the native side and back to their handlers |
| `StatementBatchProofs` | Theorems about `StatementBatch`, for all constants |
| `ConnectionTable` | The native table of connections, the tasks of iOS (and the order of Android) that work on it, and pages that come one after the other |
| `ConnectionTableProofs` | Theorems about `ConnectionTable`, for all constants |
| `Pager` | SQLite's pager: locks, rollback journal, cache, syncs, playback of a hot journal |
| `SqliteConnection` | Statements, COMMIT and ROLLBACK of several connections on that pager, errors, crashes and losses of power |
| `AtomicDatabase` | Abstract specification: transactions that are atomic, isolated and durable |
| `SqliteRefinement` | The refinement mapping from `SqliteConnection` to `AtomicDatabase`, and the properties |
| `MCSqlite` | Symmetry for TLC |
| `SqliteProofs` | Theorems about `SqliteConnection`, for all constants |
| `SqliteRefinementProofs` | That `SqliteConnection` implements `AtomicDatabase`, for all constants |

The modules fit together by what they promise each other. `SQLitePlugin` takes
one answer per batch with one result per statement for granted, which is what
`StatementBatch` checks of the code between the two sides; it takes for granted
that open, close and batches happen one after the other on one connection,
which is `DatabaseRequests`, implemented by `DBRunner`, and on iOS what
`ConnectionTable` checks; and that COMMIT and ROLLBACK are atomic and that a
statement fails without effect, which is `AtomicDatabase`, implemented by
`SqliteConnection`.

### `SQLitePlugin`

State. `openDBs`, `queue`, `inProgress` are the variables of the code for one
database name; all handles of a name share them. `ticks` counts scheduled
`startNextTransaction` callbacks. The fields of a transaction object are
functions on `Tx`: `kind` (which call made it), `status` (which stands for
`finalized` and for membership of the queue), `canPause`, `isPaused`,
`executes`; `statements` counts what was added, for a bound; `reports` lists the
final callbacks that were made. `batch[t]` is the batch that is with the native
side, `results[t]` what it has produced so far, and `unanswered` the
transactions whose batch will get no answer. `opens`, `openReplies` and `closes`
are requests and answers on their way. `conn` and `sqlOpen`, `dirty`, `durable`,
`lost` describe the connection: whether it exists, whether an SQL transaction is
open on it, and whose writes are uncommitted, committed and undone.

Actions. One per task of JavaScript:

| Action | Code |
|---|---|
| `Open`, `OpenSuccess`, `OpenError` | `open`, `opensuccesscb`, `openerrorcb` with `abortAllPendingTransactions` |
| `Close`, `DeleteDatabase` | `close`, `deleteDatabase` |
| `AddTransaction`, `RefuseTransaction` | the five calls that create a transaction, `addTransaction`, the "database not open" branches |
| `IdleTick`, `StartTransaction`, `StartThrows` | the `nextTick` callback of `startNextTransaction` with `start` and the transaction function |
| `ExecuteSql`, `End`, `AbortCall` | calls on a transaction object from outside its callbacks |
| `DeliverResults` (`Continue`, `Abort`, `Finish`) | `mycb` on the batch of a running transaction, the handlers, the last one's decision, `$abort`, `$finish` |
| `DeliverEnd` (`Release`) | the batch that ends in COMMIT or ROLLBACK: `succeeded`, `failed`, and what follows them |
| `DeliverLate` | the answer to an `abort()` made after the end |

and on the native side `NativeOpen`, `NativeClose`, `NativeExecute` (one
statement; the whole batch goes on after a failure) and `NativeDrop` (no
connection: the error is reported to nobody).

Abstractions, and why they keep what matters:

- A user statement is "user"; it fails, reads, or writes, and writes are recorded
  as a set of writers. A `readTransaction` may write too: `executeSql` rejects
  statements by a pattern that REPLACE and ALTER pass (README of the repository,
  line 255). What it rejects never enters `executes`: a transaction function that
  adds fewer statements, or throws. Application statements that control transactions are
  excluded by the README of the repository (line 279).
- Handlers are a choice: each may throw, or return something else than false
  after an error, and add statements. A batch's handlers run in one task, so
  only whether one of them throws and what is in `executes` after the last one
  matters.
- The final callback of the application and the release of the lock are one
  step, as in the code, which calls `tx.error` or `tx.success` only if it is set
  (SQLitePlugin.js:686, 693, 715, 722). The application passes callbacks wherever
  the documented calls take them; `beginTransaction()` takes none, `end()` and
  `abort()` set them (js:421, 438). So a multi-part transaction that a failing
  statement aborts first ends in silence, the bug of README.md:742, and `reports`
  stays empty (`HasCallback`, `Report`); an `end()` or `abort()` that comes while
  its ROLLBACK is out is told the error, one that comes later nothing. For `db.executeSql`, which has no transaction callback,
  `reports` holds the result of its only statement, recorded at the same step;
  in the code the callback comes a little earlier within the same task.
- Calls that the application makes inside a callback are modelled as tasks of
  their own. Within one database this changes only how many idle callbacks are
  scheduled.
- `NativeOpen` and `NativeClose` are atomic and come between two batches.
- Parameter conversion (a value whose `toString` throws) is left out.
- `durable` means committed at some time; deleting the database does not undo
  it.

Constants. `Kinds` selects the API calls; `AppWaits` says whether the
application opens, closes and deletes only after earlier such calls are
answered; `OpenFailures` is what a failing open looks like from JavaScript
("err" Android page, "ok" iOS, "none" Android worker); `CommitFailures` is what
a failing COMMIT may do to the SQL transaction ("undo": SQLite has rolled back,
as after an I/O error; "keep": it is still open, as after a deferred foreign
key violation or SQLITE_BUSY); `AutoRollback` allows a failing statement to
roll the SQL transaction back (INSERT OR ROLLBACK, SQLITE_FULL). `MaxStatements`,
`MaxOpens`, `MaxCloses`, `MaxDeletes` are bounds.

### `SerialTransactions` and the refinement

A transaction waits, is the current one, and is settled: nobody else writes
meanwhile, an atomic one's writes become durable together at its commit, and the
outcome the application is told is what became of them. The mapping
(`SQLitePluginRefinement`) reads the current transaction off `status`, and the
stage of an atomic one off the result of the last statement of its last batch:
the linearisation point is the execution of COMMIT or ROLLBACK.

### `DBRunner`

State. `dbrmap` is the map of the code at one name. A runner is made by an open
request, and each makes one runner at most, so it is named by that request; `pc`,
`q`, `dbq` and `connection` are its place in `run()`, its queue, the query it
has taken, and `mydbc`. `bridge` and `found` are the request a bridge thread is
executing and the runner it has read from the map. `kind` and `answers` are
the requests themselves, `destroy` the place of `onDestroy()`.

| Action | Code |
|---|---|
| `Call` | `execute`, up to and including the `dbrmap.get` of each kind of request |
| `StartDatabase` | the rest of `startDatabase` |
| `PutQuery`, `AnswerWithoutRunner` | the two branches of `closeDatabase`, `deleteDatabase` and of the batch case of `executeAndPossiblyThrow` |
| `OpenDatabase`, `AnswerOpen`, `AssignMydbc`, `OpenDatabaseFails`, `RemoveFailed` | `openDatabase` and the beginning of `run()` |
| `Take`, `ExecuteBatch` | the loop of `run()` |
| `CloseDatabaseNow`, `RemoveItself`, `AnswerClose` | its end, for a close or a delete |
| `Destroy`, `DestroyCheck`, `DestroyClose`, `DestroyStop`, `DestroyRemove` | `onDestroy` |

Abstractions:

- Everything between two uses of what the threads share is one step: reading the
  map is a step of its own, since the map may change before what was found is
  used; `closeDatabaseNow`, and the lookup and `put` of `onDestroy`, are one step
  each.
- `mydbc` is a plain field that other threads read. An assignment that becomes
  visible to them late is an `AssignMydbc` that happens late; the lock of the
  queue, which the runner takes next, ends the delay.
- A batch is one request with one answer. What it does is in `SQLitePlugin`; that
  a statement of it fails, also because the connection was disposed, is part of
  its results, and the batch is answered with success all the same. The branch
  `mydbc == null` of `executeSqlBatch` cannot be reached: `run()` returns when
  `openDatabase` throws.
- `put` on a `LinkedBlockingQueue` without a bound does not fail, and nothing
  interrupts the threads: the exception branches are left out.
- Batches that are received in parts (`batchStart`, `batchPart`) reach the
  map when they are complete (`batchRun`), like any batch.

Constants. `Bridges` are the threads that call `execute()`: that of the page and,
through `remapUri`, those that load resources for workers. `Overlaps` says what
the application does not wait for: with `"openOpening"` it opens while another
open is unanswered; with `"callOpening"` it makes other requests meanwhile; with
`"callClosing"` any request while a close or delete is unanswered; with
`"retryOpen"` it opens again after an open has failed; with `"destroyOpening"`
`onDestroy()` may come while an open is unanswered or its runner has not assigned
`mydbc`; with `"callDestroyed"`
requests go on after `onDestroy()` has begun. `OpenFails` and `Destroys` allow
failing opens and `onDestroy()`.

### `DatabaseRequests` and its refinement

Open, close and delete take effect at one moment between request and answer,
a batch is executed on a connected database, refusals happen only when it is not
connected, and answers come once. This is what `NativeOpen`, `NativeClose`,
`NativeExecute` and `NativeDrop` of `SQLitePlugin` take for granted, where opening
and closing are atomic. The mapping (`DBRunnerRefinement`) calls the database
connected from the moment a runner has its connection until it has left the map;
a request that finds nothing to do is served when it reads the map. The abstract
specification has no liveness: requests may stay unanswered, and do.

### `FlatResults` and `StatementBatch`

State. `platform` is which native side it is. Of the transaction of each
context: `executes` (`tx.executes`), `batches` (the handlers of each `run()`
that have not been called), `finalized`, and as history `added`, `unrecovered`
(failed statements no handler recovered from) and `reports`. `aqcbmap` is the
table of callbacks of `aqworker.js` (and of Cordova, for the page). `requests`
and `answers` are messages on their way; `batchmap`, `queue`, `executing` and
`executed` are the native side.

| Action | Code |
|---|---|
| `Start` | the transaction function, `addStatement` with chunking, `run`, `run_batch` |
| `TakeRequest` (`TakeBatch`, `TakeStart`, `TakePart`, `TakeRun`) | `executeAndPossiblyThrow` and `remapUri`; `canInitWithRequest` |
| `TakeFromQueue`, `ExecuteStatement`, `AnswerBatch` | the runner, `executeSqlBatch`, the answer; `sqlBatchWithOptions` |
| `Deliver` (`Decide`) | `mycb`, the handlers and the decision of the last one |
| `Terminate` | a worker that is terminated by its page |

The lists are sequences of words: `Encode` writes what
`executeSqlStatement` (Android) or `executeSql` (iOS) adds for each outcome, and
`Walk` is the loop of `mycb`, including what it does with a list that does not
fit. A value is "v" unless `mycb` compares or counts with it. The number of rows
affected stays, because its token is taken for a count when the loop is out of
step; the insert id and the optional `changes` and `insert_id` of `okrows`, which
neither side sends, do not. A transaction is of the kind `transaction()` or
`sqlBatch()`, one for each context, and there is no lock between them: they
stand for different databases or for transactions that overlap.

### `ConnectionTable`

State. `page` numbers the pages that have been loaded; `handle`, `asked` and
`current` are `openDBs`, the unanswered calls and the transaction in progress of
the page that is there. `tasks` are the calls that native threads carry out,
each with its place; `table` is `openDBs` of `SQLitePlugin.m`, `monitor` the
owner of `@synchronized(self)`. `connections` are all connections ever made, a
BEGIN and uncommitted writes in each; `path` and `files` are the file at a name
and what is committed in each file, so that a deleted file can stay open.
`overlap` and `misused` are history.

| Action | Code |
|---|---|
| `Open`, `Close`, `Delete`, `Transact` | the calls of the page, with their guards in JavaScript |
| `Answer` (`BatchAnswer`) | the callbacks: `opensuccesscb`, `mycb` with `$finish` and `$abort` |
| `Reload` | another page in the web view: `openDBs`, `txLocks` and callbacks are new |
| `OpenLookup`, `OpenConnect`, `OpenSet` | `openWithOptions` |
| `CloseConnection`, `DeleteFile`, `Remove` | `closeNow`, `deleteNow` |
| `ExecuteSql`, `ExecuteNowhere` | one statement of `sqlBatchWithOptions` |

On Android the tasks for one database run in order, in place of `DBRunner`. A
transaction has a BEGIN, one or two writes and an end, or is the one write of
`db.executeSql`. A COMMIT may fail with its transaction still open, as after a
deferred foreign key violation or SQLITE_BUSY, or undone, as after an I/O error
(`CommitFailures`; OP_AutoCommit, sqlite3.c:73780); the page releases its lock
either way and sends no ROLLBACK (SQLitePlugin.js:719), so the next statement may
run inside the transaction that was left open. A write that fails has no effect;
that it may end the transaction too is in `SQLitePlugin` (`AutoRollback`). Opening
does not fail. The page waits for the answer to an open,
close or delete before the next of them for the same database, and deletes no
database it has a transaction on: rapid repetitions are a documented limit
(README.md:232), and to delete while a transaction runs is among what the
documentation lists as untested. Nothing makes it wait for the calls of the page
before it.

### `Pager` and `SqliteConnection`

State. `db` and `disk` are the file as the operating system has it and what a
loss of power may leave of each page. `journal` is the function from the pages in
the rollback journal to what they were, empty if there is no journal, `counted`
the pages its headers count (`nRec`), which are all that a hot journal plays
back, and `journalDisk` the counted parts of the journals a loss of power may
leave. `lock`, `eState`, `cache`, `dirty` and `dbFileVers` are
`unixFile.eFileLock` and fields of each connection's `Pager`. `step` is where a
call that takes several steps is: `hasHotJournal` and the locks around it,
`pager_playback`, `syncJournal`, the two phases of a commit. `autoCommit`,
`stmt` and `saved` are the flag of the connection, its statement and the
statement journal.

| Action | Code |
|---|---|
| `Begin`, `Commit`, `Rollback` | `OP_AutoCommit`; `Rollback` also `sqlite3_close` |
| `BeginTrans` (`SharedLock`, `JournalExists`, `CheckReservedLock`, `LockHot`, `Validate`, `PagerBegin`), `Busy` | `sqlite3BtreeBeginTrans`, `sqlite3PagerSharedLock`, `sqlite3PagerBegin` and their failures |
| `Read`, `Write`, `Spill`, `SpillSync` | `readDbPage`, `pager_write`, `pagerStress` |
| `HaltOk`, `HaltAbort`, `HaltSpecial` | `sqlite3VdbeHalt` |
| `CommitBusy` ... `CommitEnd`, `CommitFails` | `vdbeCommit`, `sqlite3PagerCommitPhaseOne` and `Two` |
| `Playback`, `RollbackEnd`, `PlaybackFails` | `pager_playback`, `pager_end_transaction` |
| `Crash`, `PowerLoss` | the process dies; the disk keeps any subset of what was not synced |

It is the default configuration the plugin opens databases in: journal mode
DELETE, full synchronisation, no WAL, no shared cache, one file in a transaction,
no busy handler. The content of a page is the number of the transaction that
wrote it; page 1 is the change counter. The header of the journal and its
records are written by one call and synced by the next. `PAGER_ERROR` is left by
the call that enters it, since the plugin has no other statement that holds
pages. Statements of one connection do not overlap, because the plugin steps each
to its end and finalizes it.

### `AtomicDatabase` and its refinement

A connection enters, one at a time changes pages, and commits alone or leaves
without a trace. A loss of power may take back the latest commit as a whole
(`previous`), because the directory is not synced behind the deletion of the
journal, until `Settle`. The mapping reads `content` off the file and the hot
journal, so the linearisation point of a commit is the deletion of the journal.

## 3. Properties

Of the engine:

| Property | What it says |
|---|---|
| `TypeOK` | types |
| `Serialized` | `inProgress` is set exactly when one transaction has been started and has not ended; never two |
| `QueueIsScheduled` | database open, lock free, queue not empty: a callback is scheduled |
| `HolderIsWaiting` | who has the lock has a batch out, or is paused with nothing to send |
| `ReportedOnce` | a transaction is reported in the step that ends or drops it and in no other, exactly once if it has a callback to call then |
| `ErrorLeavesNothing` | an atomic transaction that ended without being reported as successful, with an error or in silence, has nothing in the database |
| `SuccessIsDurable` | what was reported as successful is committed |
| `NoHangingTransaction` | an SQL transaction is open only while its owner has the lock |
| `EveryTransactionSettles` | queued while open or opening leads to done or dropped, unless the application never ends a transaction of `beginTransaction()`, or closes or deletes the database |
| `StartedTransactionEnds` | started, and not to be ended by the application any more, leads to done |
| `ImplementsSerialTransactions` | the refinement |

Of the Android side:

| Property | What it says |
|---|---|
| `TypeOK` | types |
| `OneConnection` | two runners never have a connection open at once |
| `MapIsAlive` | the runner in the map is exactly the one whose thread will still look at its queue |
| `ExecutesOnOpenConnection` | a batch is executed, and waited for, on an open connection |
| `AnsweredAtMostOnce` | no request is answered twice |
| `OpenAnswerIsTrue` | an open answered with success leaves an open connection |
| `EveryRequestAnswered` | each request is answered in the end, unless an open has failed or the activity is destroyed |
| `DestroyClosesAll` | after `onDestroy()` no connection is open |
| `ImplementsDatabaseRequests` | the refinement |

Of batches (`StatementBatch`):

| Property | What it says |
|---|---|
| `TypeOK` | types, and callback ids that belong to batches |
| `HandlersGetOwnResults` | `mycb`, walking the list the native side wrote, calls each handler once, in order, with what became of its own statement, and returns |
| `ExecutedInOrder` | the statements of a transaction are executed in the order they were added, none twice and none left out |
| `SuccessIsComplete` | told success: all statements were executed, and those that failed recovered from |
| `EndIsLast` | told the end once, and no statement left or sent behind it |
| `RunningIsOnItsWay` | a transaction that has not ended has a request, a batch or an answer on its way |

Of the table of connections:

| Property | What it says |
|---|---|
| `TypeOK` | types, and only a batch is inside `@synchronized` |
| `StatementsHaveConnection` | a statement finds an open connection, unless calls of two pages overlap |
| `ConnectionsAreInTable` | an open connection is the one in the table, but for the documented leak of `deleteDatabase` |
| `UnfinishedIsNotCommitted` | what a page left unfinished is not committed by a later page |
| `SuccessIsDurable` | what was told to be successful is in the file with all its writes, also after a reload; an `executeSql()` call unless the last transaction before it on its database may have been left open (page gone, COMMIT failed) |
| `ErrorLeavesNothing` | what was told to have failed has nothing in the file, also after a reload |
| `FirstTransactionRecovers` | after the first transaction of a new page the connection is no longer inside one of an old page |

Of SQLite (`SqliteRefinement`):

| Property | What it says |
|---|---|
| `TypeOK` | types, and a journal has what is dirty |
| `CacheIsCurrent` | what a connection with a lock has in its cache, and has not written, is what is committed |
| `PowerLossIsAtomic` | whatever a loss of power leaves recovers to the committed content, or to that before the latest commit |
| `ImplementsAtomicDatabase` | the refinement |

## 4. Runs

Deadlock is not checked: the system stops when the application has used its
bounded calls, and may stop earlier when it calls nothing more.

Engine:

| Run | Instance | Shows |
|---|---|---|
| `core` | 2 transactions of all five kinds, 2 statements each; `executeSql`, `end()`, `abort()` at any moment; open, close, reopen; failing opens; COMMIT that fails and rolls back | atomicity, the lock, the wake-ups of the queue and the refinement together; pausing, resuming and late calls break none of them |
| `settles` | fairness; `transaction`, `executeSql`, and `beginTransaction` with `end()` and `abort()`; failing open, reopen, delete; both failures of COMMIT, automatic rollback | what holds whatever fails: `QueueIsScheduled`, `HolderIsWaiting`, `ReportedOnce`, and the liveness of transactions |

Android side:

| Run | Instance | Shows |
|---|---|---|
| `requests` | 4 requests from one bridge thread, no `onDestroy()`, an application that waits for nothing but, to open again, for the first open, and does not retry a failed one | the refinement, and the invariants that carry it: `OneConnection`, `MapIsAlive`, `ExecutesOnOpenConnection` |
| `answered` | fairness; 4 requests, made also while an open is unanswered but not behind an unanswered close or delete; failing opens; `onDestroy()`, not during an open | `EveryRequestAnswered`, `OpenAnswerIsTrue`, `DestroyClosesAll`, `AnsweredAtMostOnce` |

Between the two sides, the iOS side, and SQLite:

| Run | Instance | Shows |
|---|---|---|
| `batches` | the page and two workers, two of the three with a transaction, 2 user statements with a parameter each; one worker chunks (`MAX_SQL_CHUNK = 1`), the other may be terminated; parts of 5 tokens; Android and iOS | the six properties of batches |
| `ios` | one database of the page and one of its worker, 3 calls, 2 transactions, a reload at any moment, both failures of COMMIT; the tasks of iOS and the order of Android | the properties of the table |
| `sqlite` | 2 connections, a counter page and a data page, 2 write transactions, disk errors, 2 crashes or losses of power | `AtomicDatabase` is implemented, and its two invariants of the cache and the disk |

and five runs that show where documentation and code disagree:

| Run | Violates | What happens |
|---|---|---|
| `hanging` | `NoHangingTransaction` | COMMIT fails, the SQL transaction stays open, no ROLLBACK is sent, the lock is released (README.md:171) |
| `partial_batch` | `ErrorLeavesNothing` | a failing statement rolls back by itself, the rest of the batch is executed in autocommit mode and stays (README.md:611) |
| `ios_open_fails` | `EveryTransactionSettles` | a failing open is answered as a success on iOS (README.md:484) |
| `two_bridges` | `OneConnection` | a page and a worker open a database at once: two runners (README.md:748) |
| `late_failure` | `RunningIsOnItsWay` | a statement fails behind its first row: its rows have no `endrows`, `mycb` reads past the end of the list for ever, or takes another result for a row, and the transaction is left hanging (README.md:171) |

More counterexamples come from the same properties with other constants:

- `Serialized` with three transactions, `MaxOpens = 3`, `MaxDeletes = 1` and
  `OpenFailures = {"err"}`: delete the database during a transaction, let a
  reopen fail and a further one succeed. `abortAllPendingTransactions` has reset
  `inProgress` (SQLitePlugin.js:202), and a second transaction starts beside the
  first, against README.md:553; a multi-part one that was paused meanwhile then
  sends its statements into the SQL transaction of the other. It takes a delete
  during a transaction, which no run of `Serialized` has.
- `EveryTransactionSettles` with `OpenFailures = {"none"}`, a worker on Android:
  the error of a failing open is dropped (SQLitePlugin.java:191), and what was
  queued waits for ever.
- `DestroyClosesAll` with `"destroyOpening"`: a runner that has not assigned
  `mydbc` has nothing to dispose, and the stop in its queue is no close, so the
  connection stays open although `onDestroy` is to "close all open databases"
  (SQLitePlugin.java:409).
- `OpenAnswerIsTrue` with `"retryOpen"`: the error of an open goes out before its
  runner leaves the map (SQLitePlugin.java:497); an open made again in the error
  callback finds this runner and is answered with success, although no connection
  exists and the runner is about to end.
- `SuccessIsComplete` for the contexts in `Chunking`: with `MAX_SQL_CHUNK > 0` two
  batches of a transaction are out at once, and the first to be answered without
  an error commits before the other is looked at. `ExecutedInOrder` for them on
  iOS: two background tasks compete for the lock. Chunking is off as shipped.
- `SuccessIsDurable` of `ConnectionTable` without its last disjunct, with
  `MaxReloads = 2` on iOS: an open of an old page, carried out late, puts a second
  connection into the table (SQLitePlugin.m:295) in the middle of a new page's
  transaction, whose COMMIT then ends what a late batch of an old page has begun
  there, while its own writes are uncommitted on the connection that is no longer
  in the table. With one reload the stronger form holds; the proof for any number
  of them found this.
- `StatementsHaveConnection` without `overlap`: a page is loaded anew while a
  close of the old one is carried out, and opens the database in the middle of it.

The passing run that checks atomicity (`core`) therefore
excludes "keep" and `AutoRollback`, and lets the
application wait for its opens and closes and delete nothing. The queues left
hanging by close and delete are documented bugs (README.md:896, 916): that is
why `EveryTransactionSettles` says nothing of an application that closes or
deletes. `QueueIsScheduled`, `HolderIsWaiting` and `ReportedOnce` hold for an
application that waits for nothing as well: that is what their theorems say,
which assume nothing of the constants.

The restrictions of `requests` and `answered` have their reasons
in the code, too: an open during a close is answered by the runner that is
closing (the comment at SQLitePlugin.java:443 knows), an open during an open is
answered before there is a connection, and what is put into a queue behind a
close, or while an open fails, is never taken: a delete made in the error callback
of an open may reach the runner before it has left the map, which is why
`EveryRequestAnswered` says nothing of behaviours with a failed open.

So do those of `ConnectionTable`. The exceptions in its properties are
exactly the states in which calls of two pages overlap (`overlap`), which on iOS
nothing orders, and plain `executeSql` calls behind a transaction that was left
open (`LeftOpenBefore`): they are executed inside it, reported as successful, and
rolled back with it by the next transaction, or lost with the connection. An old
page leaves one open (README.md:231, a documented loss of data), and so does a
COMMIT that fails and keeps its transaction, which `hanging` shows of the engine
and nothing documents. `SuccessIsDurable` without `LeftOpenBefore` is violated by
both. The exception reaches as far as the next transaction with a BEGIN, which
ends what was left open.

Bounds. Two transactions are enough for one to disturb another. Two statements
are the smallest number with one before and one behind a failure. Two opens and
one close give a reopening. Of the requests to `DBRunner`, four are an open, a
close, a second open and something that meets it. Transactions are
interchangeable, and so are requests and bridge threads, so the runs that check
no liveness use symmetry where the actors have the same part.
In `batches`, two transactions meet in `batchmap` and in the queue; parts of 5
tokens cut both between statements and inside one; with two user statements a
batch has one before and one behind a failure. In `ios`, three calls are an open,
a close or delete, and an open of the new page; a transaction of each page meets
the other's, and an `executeSql()` one whose COMMIT failed. In `sqlite`, two write transactions are a commit and another one that
reads what it left, or overtakes it; two crashes let the recovery from one be
interrupted by another.

Fairness. Weak fairness of each kind of task and native step: the event loop
runs scheduled callbacks and delivers answers, and the native threads work off
their queues; of `DBRunner`, a runner that has something to do goes on, and so
does a bridge thread that has read the map. Nothing is assumed of the
application. `StartedTransactionEnds` speaks only of transactions that do not
wait for `end()`. "A batch that is never answered" is a state of the model
(`unanswered`), not a lack of fairness.

Every checked property has a mutant (an operator defined before the one it
stands for, listed in `PROJECT.json`): a changed definition, as a plausible
mistake in the code would change it, under which TLC finds the property
violated.

## 5. Proofs

`SQLitePluginProofs` proves, for any set `Tx`, any bounds and any choice of the
other constants allowed by `ConstantsAssumption`:

| Theorem | Property | Argument |
|---|---|---|
| `TypeCorrect` | `TypeOK` | inductive, one step per action |
| `NoLostWakeUp` | `QueueIsScheduled` | inductive with `TypeOK`: whatever makes the database open, the lock free or the queue non-empty schedules a callback, and a callback that finds nothing to do leaves nothing startable |
| `QueueCorrect` | `QueueInv` | the queue holds transactions of status "queued", each once. Needed because `Head(queue)` is started without a look at its state |
| `ToldOnce` | `ReportedOnce` | from `QueueInv`, `NothingToldYet` (nothing is told before the end) and `CallbackInv` (only `beginTransaction()` pauses): the steps that end a transaction are the ones that tell, if there is a callback |
| `HolderWaits` | `HolderIsWaiting` | needs `WaitInv`: before its start a transaction has an unsent preamble, so its first batch is not empty, and a paused one has nothing in `executes` |
| `TransactionsSerialized` | `Serialized` | under `NoAbortInProgress`, from `OpenInv` |

`NoAbortInProgress` says when `abortAllPendingTransactions` cannot meet a
transaction in progress: this context is never told of a failing open (iOS,
worker), or the application waits for its opens and closes and deletes nothing.
The counterexample with a failing reopen shows that without it the statement is
false. `OpenInv` says, in the first case, that no error answer is on its way; in
the second, that at most one open is under way and no transaction is in progress
meanwhile.

`SQLitePluginAtomicityProofs` proves on top of it, under `OnlyTheEndEnds`:

| Theorem | Property | Argument |
|---|---|---|
| `NothingHangs` | `NoHangingTransaction` | from `SqlInv` |
| `FailedIsUndone` | `ErrorLeavesNothing` | from `SqlInv`, whose step needs `SilentInv`: a transaction that ends before the application has ended it sends no COMMIT |
| `SucceededIsCommitted` | `SuccessIsDurable` | the same |
| `TransactionsAreSerial` | `ImplementsSerialTransactions` | each step, under `SerialInv`, is a step of `SerialTransactions` or leaves what it sees |

`OnlyTheEndEnds` is what `core` assumes: the application waits for its opens and
closes and deletes nothing, a failing COMMIT undoes the transaction, no other
statement rolls it back. What it excludes is not excluded for the proof's sake: with a
COMMIT that keeps the transaction `hanging` refutes the first property, with a
statement that ends it `partial_batch` refutes the second.

The argument follows the statements. `ScriptInv`, which needs no assumption, says in
what order a transaction can send them: in `executes` and in the batch that is out
together, BEGIN once and before everything but `SELECT 1`, then statements of the
application, then COMMIT or ROLLBACK once, with nothing but the invalid statement
of `abort()` behind. So how far the results of the batch have come says whether
the transaction has begun and whether it has ended. `SqlInv` ties the connection to
that: an SQL transaction is open exactly while the transaction object in progress
is between the two (`Begun`), what is uncommitted is its own, and what became
durable or was lost belongs to one whose end has that outcome, told, on its way, or
not told for want of a callback (`Settled`). The step of `SqlInv` needs `Serialized`, `OneOpen` and `CloseInv`: the
connection does not change under a transaction in progress. For the refinement the
mapping's `Stage` moves with the execution of COMMIT or ROLLBACK, and one lemma per
step of `SerialTransactions` says when a change of the mapped state is that step.

`DBRunnerProofs` proves, for any set of requests and any `Overlaps`:

| Theorem | Property | Argument |
|---|---|---|
| `RunnerTypeCorrect` | `TypeOK` | inductive with `HoldsRequest`: a runner that is busy holds a request, not the stop |
| `RunnersExclude` | `OneConnection` | under `Undisturbed`, from `RunnerInv` |
| `MapHoldsTheLiving` | `MapIsAlive` | the same |
| `BatchesHaveConnection` | `ExecutesOnOpenConnection` | the same |
| `NoSecondAnswer` | `AnsweredAtMostOnce` | from `OnceInv`, with no assumption |
| `OpenSucceedsWithConnection` | `OpenAnswerIsTrue` | under `OneOpenAtATime`, from `OpenInv` |
| `NothingLeftOpen` | `DestroyClosesAll` | under `OrderlyEnd`, from `DestroyInv` |
| `RunnersServeRequests` | `ImplementsDatabaseRequests` | under `OpensOnce`, from `RequestsInv` |

`Undisturbed` says that there is one bridge thread and no `onDestroy()`;
`two_bridges` shows that the first half is needed. `RunnerInv` ties three views
of a runner together: it is in the map exactly while it is alive (`MapIsAlive`),
it has a connection exactly while it is between opening and closing
(`ConnectionInv`), and a bridge thread that found no runner still finds none
(`FoundInv`): nobody else puts one there. `OnceInv` says where an unanswered
request can be: made but still at a bridge, or named by a runner that is
opening, or in one queue at one place, or held by the runner that has taken it,
and never at two of them; it does not mention the map, which is why it survives
everything that `onDestroy()` and a second bridge thread do.

`OneOpenAtATime` adds to `Undisturbed` that the application opens again only when
its last open, close or delete has been answered, and not after a failed open.
`OpenInv` then says that a runner a bridge thread has found for an open goes on to
serve (`OpenCallInv`): what could stop it is a close that is under way
(`ClosingInv`) or an open that failed (`FailedInv`). The run `answered` and the
counterexample with `"retryOpen"` show both sides of it.

`OrderlyEnd` says that there is one bridge thread, that `onDestroy()` does not come
during an open and that no request comes behind it. `DestroyInv`: until it begins,
the map and the queues are as without it (`IdleInv`); from then on nothing is being
opened (`NoOpeningInv`); an open connection is that of the runner in the map
(`OpenIsMappedInv`), which `onDestroy()` therefore finds and closes
(`DisposedInv`).

`OpensOnce` adds to `Undisturbed` that no open is asked for while another is
unanswered or after one has failed; closes, deletes and batches wait for nothing.
It is what `requests` assumes. `RequestsInv` is `RunnerInv` and `OnceInv` with what a
runner has taken (`QueryInv`) and that a failed open is the last (`FailedInv`). The
step where the request takes effect is the one that gives the runner its
connection (an open), takes it from the map (a close or delete), runs the batch, or
finds the map empty; all others leave what `DatabaseRequests` sees.

`ConnectionTableProofs` proves, for any databases, on both platforms, for any number
of calls, transactions and reloads, and with no assumption:

| Theorem | Property | Argument |
|---|---|---|
| `TypesOfTheTable` | `TypeOK` | from `CoreInv` |
| `NoStatementNowhere` | `StatementsHaveConnection` | from `TableInv`, `Ready` |
| `OpenConnectionsAreKnown` | `ConnectionsAreInTable` | from `TableInv`, `Dictionary` |
| `OldPagesAreNotCommitted` | `UnfinishedIsNotCommitted` | from `CommitInv`, `Filed` |
| `FailureLeavesNothing` | `ErrorLeavesNothing` | from `CommitInv`, `Filed` and `Plain` |
| `SuccessIsCommitted` | `SuccessIsDurable` | from `CommitInv`, `Filed`, `Plain` and `WritesCounted` |
| `RecoversFromReload` | `FirstTransactionRecovers` | from `CommitInv`, `Recovered` |

`TableInv` is about tasks and the table. `CoreInv`: what is named exists, a batch's
statements are those its transaction sends at this point, calls of one page for a
database are made one at a time, and no write in a file or on a connection is one
its transaction has still to count. `Alone`: where calls of two pages did not
overlap, only the first task of a database can be carried out. `Dictionary`: the
entry of the table, and the connection a task is about to enter, are open
connections of this database, each known once. `Ready`: a batch finds an entry in the
table.

`CommitInv` is about the database, where tasks are in order (`Ordered`): on Android,
and on iOS for databases without overlap. A batch that has begun is the first of its
database (`Front`), so nobody closes, deletes or replaces its connection, and the
connection in the table is inside its transaction with exactly the writes it
has made, unless one of its statements has failed (`Stages`). A connection is
inside a transaction of its database that has not ended or whose COMMIT failed
(`Homes`, `Begins` with `MayBeOpen`), which may be that of an old page: then the new
one's BEGIN is refused, its batch has an error, and it goes on to ROLLBACK, never to
COMMIT. That is why what is left unfinished is not committed (`Filed`), and why one
transaction of a new page is enough to get rid of it (`Recovered`).

`db.executeSql` has no BEGIN and may fall into a transaction that was left open.
`Plain` says what became of its write, and lemma `PlainIsAlone` that it falls into
none unless `LeftOpenBefore` tells so. That condition looks at the outcomes of
transactions only, so it has to be tied to the connection: the transaction in
progress is the last of its database (`Latest`), and no transaction with BEGIN that
came after the one the connection in the table is inside has ended (`Recent`) -- it
would have rolled that one back -- which holds because the batches that can still end
one are those of the last (`Pending`) and a connection on its way into the table is
inside none (`Waiting`). Both invariants were checked with TLC, also with two reloads
and with four transactions, before they were proved.

`FlatResultsProofs` is about operators, not about a specification: what they compute
for lists of any length.

| Theorem | About | Argument |
|---|---|---|
| `StatementsAreRead` | `FlatList`, `Statements` | for any statements with any numbers of parameters, the native side reads from the flat list what it was made of |
| `PartsMakeTheList` | `Part`, `PartCount` | for any list and size of a part, the parts put behind one another are the list |
| `HandlersAreServed` | `Encode`, `Walk` | for any number of statements, each with any number of rows and none failing behind a row, `mycb` returns and has called every handler once, in order, with its own result |

The induction theorems of the library take an operator and cannot be used, so
induction is made from the well-ordering of the naturals: `UpTo` says that a set with
0 that is closed under successors up to n has all of 0..n, and `Recursion` that a function
on 0..n which is defined from the value before exists. What a recursive function
of the model is on 0..n is then shown by writing down what it should be, showing that
this satisfies the definition, and that only one function does. `Laid(list, pieces)` says
that a list is the pieces one behind the other, with the position of each; it is
proved of what `FlattenSeq` makes, and both sides are proved to stand at these
positions: `Statements` because it adds the counts it finds, `mycb` because each result
is as long as the tokens it skips (`OneResult`, `RowsAreRead`). `HandlersAreServed` needs its
assumption: `late_failure` shows the list that breaks it.

`StatementBatchProofs` proves, for any contexts, workers and platforms, any number of
transactions and statements, with or without chunks, any size of the parts, and workers
that are terminated at any moment, under `NoLateFailures`:

| Theorem | Property | Argument |
|---|---|---|
| `InvariantHolds` | - | `IInv` is inductive, one lemma per action (`StartStep`, `TerminateStep`, `TakeRequestStep`, `TakeFromQueueStep`, `ExecuteStatementStep`, `AnswerBatchStep`, `DeliverStep`) |
| `BatchTypeCorrect` | `TypeOK` | from `Posted`, `Holds` |
| `OwnResults` | `HandlersGetOwnResults` | from `Answered`, `Posted` and `HandlersAreServed`'s lemma `LaidWalk` |
| `InTheOrderAdded` | `ExecutedInOrder` | from `Ordered` |
| `CompleteSuccess` | `SuccessIsComplete` | from `Ended`, `Ordered`, `Alone`, `Recovered` and `OneByOne` |
| `EndToldOnce` | `EndIsLast` | from `Ended`, `Ordered` |
| `AlwaysOnItsWay` | `RunningIsOnItsWay` | from `Statuses`, `Phased`, `Queued`, `Executing`, `Answered` |

`NoLateFailures` says that no statement fails behind its first row. It is what `batches`
assumes; `late_failure` refutes the last property without it. It is used where a result is
added to an answer (`ExecuteStatementStep`); all other steps are proved without it.

An answered batch is forgotten by everyone: its handlers, its callback id, the entries
in `batchmap` and the queue are gone, and only `executed` remembers it. No formula over the
variables alone says that the statements left are those behind the ones executed. `IInv`
therefore says that for each context there is a history `g`: how many batches there have
been, which statements and which callback ids each has, how many messages are taken, and
how far each batch has come ("sent", "queued", "executing", "answered", "delivered"). All
variables agree to it (`Way`):

- `Sent`, `Posted`: the requests on their way are the messages of the history behind the
  taken ones, in order, so a part follows its start and a run its last part; the callback
  id of a batch that is not delivered leads to its handlers.
- `Collected`: what is in `batchmap` under the id of a batch is its start and the parts
  that are taken. Another context cannot reach it, because the id has the handler's name.
- `Queued`, `Executing`, `Answered`: what the native side has is a batch of the history
  with a result for each statement executed, laid out as `FlatResultsProofs` needs it.
- `Ordered`: with one batch at a time, or on Android, the executed statements are those of
  the first k batches and the begun part of the next one.
- `Ended`, `Alone`: COMMIT or ROLLBACK is the last statement there is and has been sent;
  without chunks COMMIT is a batch of its own.
- `OneByOne`: without chunks all batches but the last are delivered. `Recovered`: then
  an unrecovered failure is one that the batch on its way will report, so that the COMMIT
  that is told as success was sent when there was none.
- `Statuses`: a running transaction has a batch that is not delivered.

A worker that is terminated keeps its history and loses its side of it (`Left`), which is
why what it leaves on the native side disturbs no other context. The invariant was checked
with TLC first, with the history kept in variables, on the instance of `batches` and on a
larger one.

`SqliteProofs` proves, for any set of connections, any number of pages,
transactions and crashes, with or without disk errors:

| Theorem | Property | Argument |
|---|---|---|
| `SqliteTypeCorrect` | `TypeOK` | from `Inv` |
| `LocksExclude` | `LockInv` | from `Inv` |
| `CacheStaysCurrent` | `CacheIsCurrent` | from `Inv`, `CacheInv` |
| `AtomicOnPowerLoss` | `PowerLossIsAtomic` | from `Inv`, `DiskInv` |

`SqliteRefinementProofs` proves on top of it:

| Theorem | Property | Argument |
|---|---|---|
| `ImplementsAtomic` | `ImplementsAtomicDatabase` | each step, under `Inv`, is a step of `AtomicDatabase` or leaves what it sees |

All of it rests on one inductive invariant, `Inv`, whose parts lean on each other:

- `LockInv`: one connection above SHARED, none beside an EXCLUSIVE lock. This is
  what makes every step on the files the step of a single connection.
- `StateInv`: `Place` says with which state of the pager and at which step which
  lock is held, so that a step's guard gives its lock.
- `JournalInv`: a page that is in the journal but not counted is not yet written
  to the file.
- `WriterInv`: of a connection with a journal of its own: what it has changed is in
  its cache, its dirty pages are in the journal, what it has cleaned is in the
  file, and from `CommitStart` on the change counter in its cache is one more than
  the committed one.
- `PlayInv`: of a journal that is played back: the pages that are not left to do
  have their committed content, and before the deletion all of it is synced.
- `CleanInv`: whoever reads, or has written to its cache only, finds the file
  synced and with the committed content. It is what makes a hot journal of no
  effect once a connection has validated its cache.
- `DiskInv`: a page that is unsynced or not committed is in every journal a loss of
  power may leave; each of these gives the committed content, or they give one
  common other content, that before the latest commit.
- `CacheInv`: a cache that is kept without a lock and belongs to the committed
  value of the change counter has the committed pages. The counter only grows
  where the content changes, so an older cache is recognised.

For the refinement, `Committed(p)` and `After(r, p)` describe what the mapping
makes of a page, now and with the journal `r`. Nearly all steps leave both
(`ImagesKept`, `ImagesSame`): a page is written to the file only when all journals
have its original. `CountRecords` and `PagerWrite` add journals that give the
committed content; `SyncRecords`, and the sync before a hot journal is played
back, leave only such (`Settle`). `CommitEnd` alone changes `Content`: the journals that may
come back give what was committed before, which differs from the new content at
least in the change counter, and becomes `Previous`.

Model-checked only: liveness under fairness (`EveryTransactionSettles`,
`StartedTransactionEnds`, `EveryRequestAnswered`), which is out of the prover's
reach; and the properties of `StatementBatch` in states that a statement failing behind
its first row leads to. Every invariant that a passing run checks is stated by a theorem.

## 6. Not modelled, and the plan

Not modelled, in the parts that have a module:

- Two contexts that use one database at once, a page and a worker. Their locks
  do not know of each other, and the documentation says that data is lost
  (README.md:17, 231), so there is nothing to hold. A page after a page is in
  `ConnectionTable`; contexts side by side, each with its own transaction, are
  in `StatementBatch`.
- Application callbacks that call the API again inside `openerrorcb`, or throw
  out of the callbacks of `open`: what then is promised is stated nowhere.
- The composition of the engine with `DBRunner` in one module: the product of
  their states is out of TLC's reach, and `DatabaseRequests` is what joins them.
- Two workers with one name (README.md:81 asks for unique ones), requests of one
  worker that overtake each other, a worker that is started again after it was
  terminated, and two threads that fill one `Batch` at once: `batchmap` is a
  `ConcurrentHashMap` (SQLitePlugin.java:49), the list of a `Batch` has no lock.
- On iOS an open that fails beside other tasks, `dealloc`, and database paths.
- Numbers of rows affected and insert ids; conversion of parameters and of
  column values.
- Of `sqlite3.c` everything but transactions: the parser, code generator, virtual
  machine, B-tree, functions and full-text search, which compute and hold no
  state across statements; WAL, shared cache, attached files and savepoints of
  the application, which the plugin does not turn on. They are most of the file:
  what is modelled are the functions that decide what survives, which is what the
  plugin relies on.

Left out for good: the argument checks of `openDatabase`, the sample pages, the
unused Android database classes and the packaging.

The plan from here: which of the properties of `StatementBatch` survive a statement that
fails behind its first row.
