# MyLite in TLA+

MyLite is an embedded MySQL-compatible database: a MySQL front end over a
bundled SQLite, storing everything in one `.mylite` file. This directory models
the parts of `packages/libmylite` whose correctness depends on the order of
events: several connections or processes on one file, failures between two
calls, crashes, retries and waits. What is pure computation (parser, built-in
functions, rendering) is listed below and left out.

## The system and its parts

| Part | State | Operations | What makes it hard |
| --- | --- | --- | --- |
| Offset VFS (`storage/mylite_offset_vfs.c`) | physical file, format version | read, write, truncate, size, size file-controls | SQLite's bytes are shifted past a preamble and around a gap at the lock byte; a request may be divided and fail half-way |
| File lifecycle (`mylite_offset_vfs.c`, `mylite_file_open.c`) | lifecycle byte, payload, file locks | create, recover, publish, abort, close | several processes, deaths and power loss between any two calls |
| Session transactions (`mylite_execution_statement_transaction.c`, `..._transaction_statements.inc`, `..._session_savepoints.inc`) | user transaction, autocommit, savepoints, poison flag | START, COMMIT, ROLLBACK, SAVEPOINT, statements, implicit commits | every SQLite command may fail, with or without costing the transaction |
| Temporary tables (`mylite_temporary_catalog.c` and the DDL files) | session catalog in memory, physical tables in SQLite | CREATE, DROP, repair after ROLLBACK | only one of the two copies is transactional |
| Prepared statements (`mylite_execution.c`) | statements, active cursor, read transaction, current completion | prepare, step, reset, finalize, direct commands, close | calls in any order; a cursor holds a transaction between two of them |
| Catalog state (`mylite_catalog_state.c`, `mylite_catalog_integrity_seal.c`) | catalog, generation, seal; per connection: generation, data version, descriptor cache, retained plans | synchronize, mutate, seal, commit, reopen | caches of one connection against the DDL of another |
| Catalog migrations (`mylite_catalog_migrations.c`, `mylite_catalog_state.c`) | schema version and shape of the catalog | 37 steps, validation, seal, commit | several connections open an old file; tables are rebuilt, some of them several times, from hand-written column lists |
| AUTO_INCREMENT (`..._transaction_statements.inc`, `..._insert_execution.inc`, `..._update_execution.inc`, `..._dml_planning.inc`) | counter, rows, per-session high-water marks, `insert_id` | INSERT, REPLACE, UPDATE, DELETE, TRUNCATE, ALTER TABLE, COMMIT, ROLLBACK, close | consumed values survive a rollback only through a second transaction; some statements move the counter from elsewhere, or not at all |
| Named locks (`mylite_named_locks.c`) | process-wide entry array | GET_LOCK with its wait, RELEASE_LOCK, RELEASE_ALL_LOCKS, close | the wait leaves the mutex; ownership is keyed by an id that SQL can change |
| Process list (`mylite_connection.c`) | linked list of handles, a snapshot in each | open, publish, SHOW PROCESSLIST, close | two kinds of mutex; the array is allocated outside both |

They interact in layers. An open runs the file lifecycle on the offset VFS and
then loads the catalog, migrating it if an earlier release left the file. A
statement synchronizes the catalog inside the
transaction that the session layer opened for it. AUTO_INCREMENT reconciliation
is part of COMMIT, ROLLBACK and close. Named locks depend only on connection ids
and on close.

The correctness properties sought: a published file is complete and stays
complete; bytes reserved for the preamble and the lock never hold data; a
statement happens wholly or not at all; the session and SQLite agree about
being in a transaction; no statement runs from a stale plan; a committed seal
is honest; a migration happens wholly or not at all and loses no column; the
counter is above the rows; a temporary table the session knows exists; the rows
of a cursor are of one state of the data; a list of sessions is complete and
each row of it whole; calls that promise to return do.

## Modules

| Module | Models |
| --- | --- |
| `OffsetMapping` | the address arithmetic, as operators |
| `OffsetFile` | the shifted file: each VFS call is an action on the physical bytes |
| `ByteFile` | abstract: a plain file of bytes, what SQLite expects of a VFS |
| `FileLifecycle` | one open per process, one action per VFS or SQLite call, so other processes, faults and deaths fall between them |
| `SqliteEngine` | external: the possible outcomes of SQLite's transaction commands |
| `SessionTransaction` | one connection; an action is one client command or one phase of a statement |
| `TransactionSpec` | abstract: transactions with nested savepoints |
| `SessionRefinement` | how a client sees the state of a connection: the mapping from `SessionTransaction` to `TransactionSpec` |
| `PreparedStatements` | the statements of one connection, one action per call of the C interface, others writing meanwhile |
| `CatalogGeneration` | several connections on one catalog, with synchronization, analysis, execution and completion as separate steps |
| `CatalogSchema` | the shape of the catalog at every schema version, as operators: what each migration step adds, copies and drops |
| `CatalogMigration` | several connections that open an old file: version reads, lock, steps, validation, seal, commit |
| `AutoIncrement` | the counter of one table under several connections |
| `NamedLockMap` | abstract: the registry as a function from names to owner and hold count |
| `NamedLocks` | the connections that use `NamedLockMap`, with the polling wait |
| `NamedLockTable` | the entry array with swap-removal |
| `ProcessList` | one thread per handle, one action per stretch under a mutex or per pointer followed |
| `MC*` | instances for TLC |
| `*Proofs` | theorems and proofs |

Three detailed specifications implement an abstract one, stated with
`INSTANCE ... WITH`: `OffsetFile` implements `ByteFile` (a torn write may store
any prefix), `SessionTransaction` implements `TransactionSpec` (SQLite's
savepoint stack, which keeps replaced savepoints, maps to a list with unique
names), and `NamedLockTable` implements `NamedLockMap`, return values included.
`NamedLocks` is composed with the abstract registry through `EXTENDS`.

Operators named as a mutant in their comment, or with a name that extends the
one that follows (`TryGetUnguarded`, `MutateSessionLags`), are plausible wrong
versions of the definition after them. No specification uses them; they record
that the property next to them in `PROJECT.json` notices such a mistake.

### Correspondence and abstractions

* **OffsetFile.** `disk` and `size` are the physical file. A page has one
  content value. The sizes are scaled down (preamble and gap 2, lock byte 8),
  with one page size that fits the split and one that straddles it.
* **FileLifecycle.** `pre` is the lifecycle state in the preamble (`broken`:
  short or unwritten), `synced` what a power loss falls back to, `payload` the
  SQLite part: none, a hot-journal write in progress (`partial`), an
  unreadable first page (`torn`), or the catalog. `lock`/`shared` are SQLite's
  file locks. Faults are any failed call, a death or a power loss.
* **SessionTransaction.** A writing statement writes two rows so that it can
  fail between them. `run` is the statement in progress; `outer` says that it
  opened the SQLite transaction itself. A catalog mutation's inner savepoint is
  part of the DDL statement. Every command may fail, and a COMMIT, a write or
  a read also in the way that makes SQLite roll the whole transaction back.
  `lost` is history: a command without a clean-up of its own did that to a user
  transaction, which the session does not record. A temporary table of
  statement `s` is `s` in `temps` (the session's catalog, which no ROLLBACK
  touches) and `<<s, 3>>` among what SQLite stores. The repair after ROLLBACK
  and ROLLBACK TO (`RepairOutcomes`) is part of these actions: it drops what
  has no descriptor, then creates what is missing, and may stop at any of these
  statements. After it ROLLBACK reconciles the AUTO_INCREMENT counters in a
  transaction of its own (`ReconcileOutcomes`); when that fails, the result of its
  ROLLBACK is ignored, and `stuck` is history that SQLite stayed in that
  transaction. Names, columns and rows of temporary tables are left out.
* **PreparedStatements.** A state of the data is the set of writes it contains,
  so the rows of a cursor can be compared with the data at its first step.
  `tx` is who owns SQLite's transaction, `active` the `active_cursor`,
  `current` the statement whose number is `session.statement_id`. A step that
  fetches rows is two actions, so that an execution can fail after it took a
  transaction. Bindings and result columns are left out; autocommit is on.
* **CatalogGeneration.** A catalog is a content number (which DDL produced it),
  a generation and a seal. `sess.gen` stands for both `catalog.generation` and
  `session.catalog_generation`, which the code always assigns together.
  A DDL may fail between the catalog mutation and its end, for instance by an
  interrupted integrity validation; `abandoned` is history and says that this
  left the session with a generation that was never committed. The guard check of
  `begin_statement_transaction` is a second line of defence behind the planning
  transaction and has no action of its own. Plan keys also hold SQLite's schema
  generation; it is left out.
* **CatalogSchema, CatalogMigration.** A shape maps each catalog table to its
  set of columns, with CHECKs, the index and the seal triggers as marks; types,
  defaults and row values are left out. A step reads its columns from the shape
  it meets, as `INSERT ... SELECT` does, so a column that the step names and the
  table lacks is a failure, and one the step does not name is lost. A file starts
  at any version of `Released`, built by the earlier steps. Faults are a failed
  statement at any point and a death; a wait for the lock may time out.
* **ProcessList.** A handle is a piece of memory that is opened again after it
  was freed. A snapshot is two numbers that the owner writes one after the
  other. `always` and `ever` are history: the handles registered during the
  whole of a walk, and at some time during it.
* **AutoIncrement.** One table with a unique AUTO_INCREMENT column. The time
  between ROLLBACK and its reconciliation is a state. An autocommit statement is
  one step because it runs under the write lock from the counter read to the
  commit. TRUNCATE and ALTER TABLE in a user transaction are a `Commit` step and
  then their own. A closed connection is an idle one with a fresh session. One
  whose failed reconciliation could not be rolled back (`stuck`) keeps the write
  lock and can begin nothing, until a failing read ends SQLite's transaction or
  the handle goes; a close then finds a transaction open, reconciles inside it
  and reports success, and SQLite rolls it back.
  A statement changes one row; colliding with another unique key is a choice.
  History: `given` (the values each connection was given and that nobody set the
  counter back below; the column's last value, which is generated repeatedly,
  is not recorded), `pending` (those not yet secured by a reconciliation),
  `reused` (who was given a value it had had) and `bypassed` (a statement stored
  a row without going by the counter).
* **NamedLocks.** Time is the number of milliseconds slept, with three in a
  second, a slice of two and a cap of five, so that the last slice is shorter
  and the cap is reached. `granted` is history: what each caller was told;
  so is `renamed`: some connection has set its `pseudo_thread_id`.

## Runs

Passing:

| Run | Checks | Bounds |
| --- | --- | --- |
| `MCOffsetFile` | reserved bytes are never written; `OffsetFile` implements `ByteFile` | formats 2 and 3, pages of 2 and 4, offsets up to the overflow limit |
| `MCFileLifecycle` | `COMMITTED` implies a complete catalog; open handles see one; a catalog is never lost; a published file never looks unfinished again, after a power loss either; ownership discipline; who keeps trying undisturbed opens the file | 3 processes, 2 faults: a creator, a recoverer and a bystander, with a fault during the clean-up of a fault |
| `MCSessionTransaction` | no committed part of a statement; session and SQLite agree; savepoint names are live; the temporary tables the session knows exist; implements `TransactionSpec` | 2 statements, 2 names, 3 savepoints; every command may fail |
| `MCPreparedStatements` | a streaming cursor is guarded; its rows and its count are of one state; a reported write is committed; nothing stays held after an execution; completions do not replace later ones | 2 statement objects of 5 kinds, prepared again and again, 2 writes |
| `MCCatalogGeneration` | no stale plan; committed catalogs are sealed; a seal that names the committed generation is for the committed content; write statements end | 2 connections, 2 writes |
| `MCCatalogMigration` | a migration is all or nothing; an opened connection sees the current shape; only faults and timeouts refuse an open; no column is lost on the way; who keeps trying opens | 2 connections, files of versions 1, 13, 17, 31 and 37, 1 fault, 1 DDL by an opened connection |
| `MCAutoIncrement` | the counter is above the rows; consumed values stay covered by mark or counter; nobody is given a value twice | 2 connections with different increments, values to 3, inserts and transactions without limit, 1 event of the other kinds (`MaxRare`) |
| `MCNamedLocks` | grants match the registry; a timeout is only reported while somebody else holds the lock; GET_LOCK returns | 2 connections, 2 names, holds to 2, 3 ids, one of which may be set as `pseudo_thread_id` |
| `MCNamedLockTable` | the array implements the registry | 3 names, so that the moved entry is neither first nor last |
| `MCProcessList` | the list is the open handles; a walk only follows live ones; rows are whole; sessions that were there all the time are listed, those never there are not; threads do not wait for each other for ever | 3 handles, 2 of which list, 4 opens, so that memory is reused during a walk |

Some of these properties name an exception, a history variable that is set where
the code makes the exception arise:

* `LocksAgree` until a `pseudo_thread_id` is set (`renamed`): the locks taken
  under the old id are then out of reach of RELEASE_LOCK() and of close.
* `SessionMatchesEngine` until a COMMIT, a read, a temporary CREATE or DROP or
  a repair fails so that SQLite rolls back (`lost`). The session goes on
  believing in its transaction and is not poisoned, although
  `docs/architecture/review-2026-07-remediation.md:111` would poison handles
  whose transaction state cannot be proven. `TransactionSpec` promises of such a
  handle only that what it still commits is whole statements.
* `SessionMatchesEngine` for the transaction that a reconciliation after ROLLBACK
  could not end (`stuck`): SQLite is in a transaction and the session is neither
  in one nor poisoned. What is checked of it is that it shows the rows of the file
  and never writes one: the BEGIN of every statement that writes is refused, COMMIT
  and ROLLBACK do nothing, a query joins it.
* `TempsBacked` after a repair that failed, until one succeeds, and after a DROP
  of several tables that failed half-way in a user transaction, where it has no
  savepoint (`unrepaired`). The session then knows tables that are not there;
  DROP cannot remove them, and a ROLLBACK outside a transaction does not
  repair.
* `StreamIsGuarded` and `RowsOfOneState` once a second stream was stepped
  (`overlapped`): a step does not look at `active_cursor`, so the second takes
  the first one's place and its end clears the guard.
* `RowsOfOneState` for rows that prepare kept (`early`): a query without
  parameters and without a streaming plan is executed by prepare, although
  `docs/specs/prepared-statement-lazy-prepare/specs.md:131-132` says that a
  prepared statement owns no completed materialized rowset.
* `NothingLeftHeld` after the row count or COMMIT at the end of a stream failed
  (`unended`), until the statement is reset or finalized.
* `NoStalePlan`, `SealCurrent` and `WritesEnd` for sessions that did not
  abandon a DDL after its mutation (`abandoned`). For one that did, the next
  DDL finds a generation that is not its guard and replans without end, since
  the data version has not moved.
* `CounterAboveRows` until a statement goes past the counter (`bypassed`):
  an INSERT after `SET insert_id`, which takes the place of counter and mark and
  then stores its successor even when it is lower; an UPDATE from another
  column, and an INSERT of an explicit value that ends in ON DUPLICATE KEY UPDATE
  of the column to that value (`id = VALUES(id)`), which store a number and leave
  the counter alone; and a value below a mark that a failed
  reconciliation left, which looks smaller than the counter. TRUNCATE and ALTER
  TABLE restore it. An explicit value after `SET insert_id` can thus set the
  counter back, although
  `docs/specs/auto-increment-concurrency-integrity/specs.md:46-47` says that
  explicit values never lower it.
* `ConsumedCovered` and `OwnValuesFresh` let go of values at or above a counter
  that TRUNCATE, ALTER TABLE or `insert_id` set back, unless the session's own
  mark covers them, and of unsecured values of a session that dies or is closed
  while its reconciliation is stuck.
* `OwnValuesFresh` is about the values of one connection. An insert of another
  one between ROLLBACK and its reconciliation is given a value that was consumed
  before, which
  `docs/specs/auto-increment-concurrency-integrity/specs.md:64-66` excludes.
* `PublishedStays` allows `RECOVERY_REQUIRED` as well as `COMMITTED`: the state
  is read before the initialization lock and not again under it, so a file that
  was published meanwhile may be recovered once more or marked for recovery,
  although `docs/specs/storage-file-initialization-lifecycle/specs.md:103`
  forbids it. It keeps its catalog (`CatalogKept`).

Two connections are enough for the catalog and the counter: SQLite admits one
writer, so an interference needs one connection that remembers and one that
writes. Two writes allow an abandoned DDL and a foreign one under the same number;
the violating run has a third, the statement that trips over it. Two writing statements let one create a
temporary table and the other change rows or a second table; three savepoints
hold a name, its replacement and one between them. With three statements and two
savepoints the same properties hold (428,000 states). The versions of `Released`
stand before, between and after the steps that rebuild a table more than once.
One rare event is a statement that goes past the counter, one that sets it back,
a stuck reconciliation or a savepoint; the order and number of inserts, commits
and rollbacks around it is free. Two of them in one behaviour take TLC longer than these runs should;
that the properties hold for any number is proved.

Deadlock checking is off where the system ends: `MCNamedLocks` and
`MCProcessList` (the bound on ids or opens is spent and all handles are closed),
`MCCatalogMigration` (all connections are open) and `MCPreparedStatements`
(after close, when all statements are finalized). Where a system may stop for another
reason (all statements used, all values taken) it can still close and open.

Each of the following runs violates one property, which states what a document
or an interface says. The findings in `PROJECT.json` give the lines.

| Run | The code |
| --- | --- |
| `MCOffsetFileShortRead` | a short first half of a divided read leaves the rest of the buffer unfilled |
| `MCCatalogGenerationStale` | an abandoned generation in memory is taken for another connection's DDL of the same number |

### Fairness

* `NamedLocks`: weak fairness of waking. `sqlite3_sleep` returns. Nothing is
  assumed about who gets the lock; only bounded waits are promised to return.
* `FileLifecycle`: weak fairness of the steps of an open that has begun and of
  ending a read: calls return. That the caller goes on trying, and that the
  others leave the file alone from some point on, is the premise of
  `OpensInTheEnd`, not of the specification.
* `CatalogGeneration`: weak fairness of the steps the library takes by itself
  once a statement has begun. Nothing is assumed about the application.
* `CatalogMigration`: weak fairness of the steps of an open: calls return, and
  SQLite's write lock is released by whoever holds it. The step that begins an
  open is among them, so `OpensInTheEnd` speaks of applications that try again
  after a failure; the library itself does not retry.
* `ProcessList`: weak fairness of the threads inside a call. They run, and an
  unlocked mutex is taken in the end; when calls are made is left open.
* The other specifications state no fairness and no liveness: nothing in them
  waits.

## Proofs

Proved with TLAPS for every value of the constants that meets the named
assumptions of the modules; the bounds of the runs are not assumed to be small.
Each proof has an inductive invariant (`IInv` unless another name is given below),
which TLC checked on the run's instance before it was proved, and one lemma per
action.

`DatabaseFileProofs` and `RegistryProofs` each have the proofs of two components
that belong together and share no state. To keep their names apart `OffsetFile`
and `NamedLocks` call their formulae `VfsSpec` and `LocksSpec` (and so on), and
their invariants are `VfsInv` and `LocksInv`. The session has three proof
modules that extend one another, to keep each one small enough for the prover.

* **DatabaseFileProofs**, the bytes of the file (`OffsetMappingAssumption`,
  `OffsetFileAssumption`: preamble below the lock byte, sums that fit). The mapping avoids preamble and
  gap, is strictly increasing, sizes translate back to themselves and end one
  past the last byte, and the pieces of a divided request follow the mapping.
  `ReservedSafe` lifts this to the state machine; the invariant is
  strengthened with the types of the version, the page size and the file.
  `OffsetFileImplementsByteFile` is the refinement: the logical bytes are those
  the mapping finds (`BytesSeen`), so a write or truncation changes the logical
  bytes in its range and no others, and a read returns them. `RInv` adds what
  the mapping of states needs: nothing is stored past the end of the file, and a
  legacy file ends below a page boundary below its limit (`LegacyEnd`), since a
  read of the page across the limit is answered with zeros.
* **DatabaseFileProofs**, the opens (`MaxFaultsAssumption`, `NobodyAssumption`;
  any number of processes and faults). `TypeOK`, `PublishedMeansComplete` and
  `HandlesSeeCatalog` are not inductive by themselves: publishing is safe
  because only an owner is there, and a process between its catalog write and
  its publication must not be overtaken. `IInv` adds `OwnerPlaces` (which
  points of an open own the initialization) and `CatalogPlaces` (a process that
  writes the catalog found none; one that opened without the lock found one).
  `CatalogKept` follows from the same invariant. `PublishedStays` needs
  `Creation` besides: a file without a readable preamble has at most one
  creator, and nobody else is past its first look at it.
* **SessionTransactionProofs** (`SessionTransactionAssumption`; any statements,
  names and number of savepoints). `StatementsWhole` is about the file, but a
  COMMIT makes the file what SQLite's view is, and a ROLLBACK TO makes the view
  what a savepoint saved; so `IInv` says of the engine (`Working`) that every
  savepoint saved whole statements, that the statement's own savepoint is on top
  while it writes and that only its rows can be half there. `Linked` (the session
  and SQLite agree on the transaction, every listed savepoint is on the stack) is
  needed for `SessionMatchesEngine`, `Backed` (the tables the session knows are
  in the view and in what a failing statement goes back to) for `TempsBacked`.
  `IInv` describes a connection that is not stuck and `Adrift` one that is (no
  savepoints, the view is the file, at most a query runs); `SessionInv`, that one
  of the two holds, is inductive: from `Adrift` only queries, refused statements
  and a new open are possible (`AdriftNext`).
  The lemmas on SQLite's commands say which of these shapes each outcome has.
* **SessionCommandProofs** (commands between statements, statements that begin)
  and **SessionRefinementProofs** (statements that run and end, the theorems).
  `SessionImplementsTransactions` is the refinement: one lemma per action shows
  that the client sees a step of `TransactionSpec` or nothing. It needs `RInv`
  besides: whatever SQLite can commit or go back to has the committed rows
  (`RowsKept`), and a running statement has added nothing but its own rows to
  what it began with (`Based`). Without the first a ROLLBACK TO could take
  committed rows away; without the second a finished statement could show more
  than itself. The savepoints a client sees are those the registry lists
  (`Seen`), so replacing, releasing and rolling back to a name come down to what
  the registry and SQLite's stack have in common. `Valid` is what the mapping needs
  of a state, stuck or not; a stuck connection shows the client nothing new
  (`AdriftSimulated`). `CommittedRowsStay`
  (no step takes a committed row out of the file) follows from the same lemmas.
* **PreparedStatementsProofs** (`WritesAssumption`, `KindAssumption`,
  `StmtAssumption`; any statements of any kinds). `IInv` says of each statement
  where it is in its life (`InOrder`), that it is guarded, that while it streams
  the connection still reads the state it began with from inside a transaction
  (`Fresh`), and that what it holds it holds as a stream or after a failed end
  (`Holds`). `CompletionsInOrder` is an action property over the same invariant.
* **CatalogGenerationProofs** (`CatalogGenerationAssumption`,
  `NoConnAssumption`; any connections and writes). A plan is current because the
  session is, and the session may lag behind the file only while SQLite's data
  version tells it so and it is in no transaction (`Knows`). That needs who holds
  the lock and is where in its statement (`Role`), what the uncommitted catalog
  of the holder can be (`HolderWork`), and for the seals that any seal names the
  content it was computed for (`Honest`).
* **AutoIncrementProofs** (`AutoIncrementAssumption`, `NoHolderAssumption`; any
  connections, increments, offsets, column range and number of rare events).
  `RowsBelow` and `GivenCovered` say of the uncommitted counter and of the one at
  the savepoint what the properties say of the committed one: a COMMIT, or a
  COMMIT after ROLLBACK TO, would keep them. `OneWriter` (the lock belongs to the
  session in a transaction or stuck in one) is why nobody else's uncommitted state
  matters.
* **RegistryProofs**, the named locks (`MaxHoldAssumption`,
  `NamedLocksAssumption`; any connections, names, timeouts and pseudo ids). `LocksAgree` is not inductive:
  a release or a sweep by id takes the caller's holds and nobody else's only if
  the id is the caller's alone. `LocksInv` adds, until an id is set, that the ids of
  open connections are distinct and below the next one to be given out.
  `TimeoutOnlyWhileHeld` is an action property; it needs that a waiting
  connection has no answer yet (`Unanswered`).
* **RegistryProofs**, the process list (`ListerAssumption`, `BoundsAssumption`,
  `HandleAssumption`: finitely many handles, none of them NULL). The list is a
  recursive function of the state, and an operation on it changes pointers, not
  the function. The proof goes by way of chains: different handles joined by
  their next pointers from the head to NULL. A chain is no longer than there are
  handles; what a walk meets is the chain (`ChainAt`, by the least position where
  they would differ); pushing and unlinking turn a chain into a chain. `IInv`
  has a chain (`Chained`), the mutexes where the threads are (`Guarded`), and
  that a walk has copied a prefix of the list (`Linked`), which cannot change
  under it because it holds the registry mutex.

Model-checked only:

* all liveness (`GetLockReturns`, both `OpensInTheEnd`, `WritesEnd`,
  `ThreadsReturn`): fairness and ENABLED are outside the prover;
* `TableImplementsMap`: the sweep over the entry array is a recursive operator,
  with which the prover cannot work;
* `CatalogMigration`: its properties are about what 37 concrete steps make of
  concrete column sets. TLC computes that; there is no parameter to generalize
  over but the number of connections.

The library's induction theorems take an operator as parameter, which the
installed provers cannot instantiate. Where a proof needs an induction
(`ChainAt`) it takes the least counterexample instead.

## Not modelled

* Lexer, parser, analysis, translation, built-in functions, collations, JSON,
  spatial code, system tables, results, diagnostics: sequential computation over
  values, without state that another actor can reach.
* The content of DDL, and the validators of catalog rows against each other: one
  mutation is one change, a failed validation one outcome.
* ALTER TABLE of a temporary table, a DROP TABLE of temporary together with
  persistent or missing tables, and AUTO_INCREMENT of temporary tables.
* AUTO_INCREMENT in statements of several rows (INSERT of several rows,
  INSERT ... SELECT, LOAD DATA, UPDATE of several rows): the model has statements
  of one row, and what happens between two rows of one statement, under the
  write lock throughout, is left out.
* LOCK TABLES: the set of locked tables is recorded and shown but enforced
  nowhere, so no statement behaves differently for it.
* READ ONLY and isolation characteristics: stored values, a deferred BEGIN and a
  refusal of writes in one step.
* Parameter bindings and the schema a prepared statement remembers.
* PHP extensions: adapters over the C interface.
* SQLite itself: modelled as external where the runtime depends on it.

The definitions stand for about 7,900 lines of the 34 files they are taken from
(34,800 lines): the stateful core of the library. By line count most of
libmylite is the sequential code listed above, tables and generated data
included, so the share of the whole is small.

## Plan

1. Proofs: that a migration is all or nothing for any number of connections.
2. AUTO_INCREMENT: statements of several rows.
3. Catalog: the generation-change helpers, cache eviction.
4. Temporary tables: ALTER TABLE and mixed DROP TABLE.
