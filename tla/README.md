# A TLA+ model of the Aptos indexer processors

This directory holds TLA+ modules that model the Rust indexer of this
repository (`src/rust`), TLC configurations that check them on small
instances, and proofs, checked by TLAPS, of their main properties for all
values of the constants. `PROJECT.json` lists the runs, the source lines each
definition models, the findings, the hazards and the theorems.

## The system

An indexer process (`processor/src/worker.rs`) reads the transactions of the
Aptos chain from a gRPC data service and writes rows derived from them to
Postgres. Its parts:

| Part | Source | State | Operations |
|---|---|---|---|
| fetcher task | `grpc_stream.rs` | next version to fetch, last version fetched, retry counters, the open stream | connect, request, receive a response, filter and chunk it, send it, reconnect, drain and close |
| transaction channel | `worker.rs` | at most `BUFFER_SIZE` messages | send, receive, close |
| processor tasks | `worker.rs`, `processors/*` | the message each works on | receive, parse, write, report, exit |
| parsing | `processors/*`, `models/*` | rows and maps of a batch | passes over a transaction's events and changes, lookups in the database |
| result channel | `worker.rs` | at most `BUFFER_SIZE` results | send, receive |
| gap detector task | `gap_detector.rs` | next version to process, results waiting behind a gap, last result of the prefix | process a result, follow the chain, store the status |
| database writes | `utils/database.rs` | statements in flight, row locks | chunk, send, retry once, join |
| database | Postgres | tables, `processor_status`, `ledger_infos` | upsert, lock, detect deadlocks |
| panic hook | `server-framework/src/lib.rs` | | ends the process when any task panics |
| chain id check | `worker.rs`, `grpc_stream.rs` | `ledger_infos` | read or insert, compare |
| Python and TypeScript workers | `python/utils/worker.py`, `typescript/sdk` | a queue, a stream | fetch, process, store the status |

What makes this hard: processor tasks finish batches in any order; a process
can end between any two steps, with rows half written and statements still
inside the database; the data service may time out, break off, or skip; several
statements lock rows of one table at once; a restart repeats work already done,
cut into other batches; a transaction does not say all that its rows need, and
what is missing comes from the batch so far or from a table that other tasks are
writing.

## Modules

The pipeline:

| Module | Models |
|---|---|
| `GapDetector` | the gap detector task, as a component without an environment |
| `GapDetection` | the gap detector, fed the batches of a range in any order |
| `Fetcher` | the fetcher task and the data service, as a component |
| `Fetching` | the fetcher with a consumer that remembers what it receives |
| `Worker` | the whole process: fetcher, channels, processor tasks, gap detector, crash and restart |
| `AtLeastOnce` | the abstract promise: rows are only added, and a checkpoint moves forward over completely indexed prefixes |
| `Tables` | the catalogue: for each table its primary key, its `ON CONFLICT` rule, how a batch's rows are collected and what they are sorted by |
| `Upsert` | concurrent chunked upserts into one table of some kind |
| `MCWorker`, `MCUpsert` | symmetry and the kinds of tables for TLC |
| `GapDetectionProofs`, `FetchingProofs`, `WorkerProofs`, `UpsertProofs` | theorems; `FetcherProofs` has the lemmas on the fetcher that two of them share |

The processors:

| Module | Models |
|---|---|
| `Parsing` | transactions, rows and the accumulator of a batch |
| `Objects` | the objects processor |
| `Stake` | the stake processor |
| `Events` | the events processor |
| `UserTransactions` | the user transaction and the account transactions processors |
| `Coins` | the coin and the fungible asset processors |
| `Ans` | the processor of the name service |
| `DefaultTransactions` | the default and the transaction metadata processors |
| `TokenV1`, `TokenV2` | the token and the token v2 processors |
| `Statements` | what becomes of a batch's rows: maps and lists, conflict clauses, statements |
| `Processing` | tasks that run one of these over batches of a chain: parse, look up, retry, write, report, panic, be killed, start again |
| `Ledger` | what the tables should say, and the properties of what is written |
| `MCProcessing` | transactions and chains for TLC |
| `StatementsProofs`, `ProcessingProofs` | theorems |

Correspondence to the code. Variables keep the names of the fields and locals
they stand for (`next_version_to_fetch`, `seen_versions`, `new_prev_batch`...);
`..._pc` variables say where a task's loop is. In `Worker` a transaction is its
version and `committed` is the set of versions whose rows are in the database;
in `Upsert` a row is a primary key and the version it comes from. The clock of
the status update is a nondeterministic choice between
`UpdateLastProcessedVersion` and `SkipStatusUpdate`. `update_prev_batch`'s loop
is modelled one iteration per step, although no other task can observe the
states in between. The data service and Postgres are external: `StreamServes`,
`LockRow`, `DeadlockVictim`, `Upserted`, `Refused` and `Killed` describe them as
the code relies on them. Definitions named `X_Something`, marked "Variant", are
altered forms of `X` used to confirm that the properties can tell them apart; no
specification uses them.

The processors are functions of the code: each takes the accumulator of a batch,
a transaction, its version and, where the code queries the database, the tables,
and returns the accumulator with the rows of the transaction added, `missed` if a
lookup found nothing and `panicked` if the code panics. A row is its table, its
primary key, its version and the columns that some property tells apart.
Addresses, types, handles and amounts are members of small sets; a hash is the
printed form of what is hashed, which is distinct for distinct arguments.
`Processing` runs these functions: one step per transaction, per lookup retry and
per statement on a table that some lookup reads or two statements write (the
other statements of a batch take effect in one step, since nothing can tell when
they do). In `Statements`, `Collected` is what the batch's maps and lists hold in
the end, at the positions at which it was pushed; `Executed` is a table after a
statement, key by key; `Updated` keeps the columns that a statement's `SET` leaves
out.

`Worker`, `Upsert` and `Processing` are three views of the same tasks. `Worker`
has the whole pipeline and knows of a batch only whether it is written; `Upsert`
has chunks, locks, retries and orphaned statements for one table; `Processing`
has the contents of the rows, with statements that take effect at once, and
starts again after any prefix of what was reported, which is what `Worker`
shows of the stored status.

## Runs

| Run | Bounds | Shows |
|---|---|---|
| `gap_detection` | 6 versions, all 32 ways to cut them, all orders | the prefix is exact whenever the loop waits; the status never names an unreported version; nothing rewinds; it completes |
| `fetching` | versions 1..7 of 8, responses up to 4, chunks of 2, 6 failures, retry limit 3 | each kept transaction once, in order, in adjacent ranges; nothing past the end; closing means delivered; it finishes |
| `worker` | 2 tasks, versions 0..4, responses up to 2, 2 failures or kills | the status covers only written versions, nothing is skipped, an exit is complete, `AtLeastOnce` is implemented, the worker completes |
| `worker_config_start` | 2 tasks, `starting_version` 1, no ending version | restarts that go back never rewind the status |
| `upsert` | 2 tasks, 3 versions, 2 keys, 1 failure or kill, all kinds of tables but one | no stale row survives; when all is done the table is exactly the latest (first) state |
| `upsert_live` | 2 tasks, 2 versions, 2 keys, 2 failures, 3 lives, fully sorted kinds | no circular wait, also with orphaned statements; every version is eventually done |
| `processing` | 12 processors, 42 histories of 1 to 4 transactions, batches of 1 or 2, 2 lookup attempts, 1 kill | see below |

The bounds are chosen so that the interesting cases occur: more batches than
tasks, a full channel (`BufferSize` 2), a response at, below and above the chunk
size, a filtered version at a batch boundary, failures up to and past the retry
limit (`fetching`), two restarts, batches with two writes of one key, orphaned
statements of an earlier life next to those of a later one. `U64Size` keeps the
width of the requested count (a wrap is visible). `worker_config_start` does not
check for deadlock: without an ending version the worker waits at the head of
the chain, as it should. The kind of table that `upsert` leaves out is that of
the delegated pools: a batch that writes a pool twice keeps the last write,
although the table is meant to have the first. `WhereVersions`, the versions
with a value that contains "where", is empty in the runs: such a value drops the
version clause of its statement, and `NeverStale` is false with one. The starts
of `fetching` are at or below the ending version; one two or more past it wraps
the requested count around.

`processing` asks of every processor:

- `RowsOnlyAdvance`: no step loses a row, or replaces one of a table with a version
  clause against the direction of the clause;
- `ExecutedIsStored`: the rows of a batch whose statement has been executed are
  in their table;
- `ListedOnce`: no statement lists a key twice where the database would refuse it;
- `NeverPanics`: no transaction of a history panics;
- `HistoryIsTrue`, `NothingLost`: in a table with one row per version and place,
  the rows are those that an indexer taking the transactions one by one would
  have stored, whatever the batches and restarts (an `UPDATE` of such a row sets
  some columns again, `Updated`); none of a reported version is missing;
- `TablesConverge`: when all is processed, all tables, the current ones included,
  are those of that indexer, whatever order the statements were executed in. Not
  compared are the two tables that keep the first row (`KeptFirst`);
- `LedgerAgrees`: when all is processed, the current tables say what the chain
  says: who owns each object and token, the shares and voters of each delegator,
  each amount of a token, coin or asset, each offer, name and table item. This is
  stated from the changes of the chain, not from the code;
- `Progress`: every version is processed in the end.

The histories are those in which each way through the parsing code is taken: a
resource before and after the one it depends on, one transaction's change undone
by the next, in the same batch or in the batch of another task, before and after
a restart. For processors that look rows up in tables (objects, stake, token,
token v2) the properties are claimed for one task: with two, a lookup may come
before the other task's statement, and after `query_retries` attempts the code
gives up. The stake history with two tasks is there for the panic that follows,
from which a restart recovers. Left out of `HistoryIsTrue` and `NothingLost`,
because they depend on how versions are cut into batches, are: the events made up
for multisig accounts, the rows of objects that are written to without their
core, the activity of a burn, the owner of a burn processed again, and the
activities of a store that is deleted (`Comparable`).

Runs that are expected to fail, each showing a disagreement between the code
and what the repository says of it (details under "findings"):

| Run | What happens |
|---|---|
| `worker_chunked` | chunks of a response carry the whole response's range; one written chunk lets the status pass the others, and a restart loses them |
| `upsert_unsorted` | pending claims that differ in `to_address` only, and current v2 names that differ in `token_standard` only, are sent in arbitrary order; tasks deadlock |
| `events_index` | the event made up for a multisig account is numbered by the batch, and has the number of another event of its transaction; the statement is refused |
| `stake_shares` | a transaction that moves shares from one cycle to the next leaves the deleted share in the table |
| `objects_deletion` | the deletion of an object that another task has not written yet is dropped |

`upsert_unsorted` rests on Postgres locking rows in statement order; the code
retries a statement once, so a deadlock costs a retry and, the second time, the
process. The delegator balances are not among these tables: their sort leaves out a
column of the primary key too, but so does the key of their map, so that a batch
sends one of the rows that differ in it only. `events_index` rests on Postgres
refusing an `ON CONFLICT DO UPDATE` that would affect a row twice.

## Fairness

`Fetching`, `GapDetection`, `Worker!FairSpec` and `Upsert!FairSpec` assume weak
fairness of: each task's own steps (the tokio runtime polls every task that is
ready), the data service answering an open stream, the database executing
unblocked statements and ending deadlocks, and a supervisor that starts the
process again. `Processing!Spec` assumes weak fairness of each task, written out
with the condition `CanGoOn` under which the task has a step. No failure is ever
forced, and failures are bounded: with unboundedly many, completion is not
promised by the code either.

## Proofs

Each proof module states the inductive invariant it uses, one lemma per action
or group of actions, and theorems of the form `Spec => []P`. All hold for every
value of the constants that satisfies the assumptions of the module
(`FetcherAssumption`, `UpsertAssumption`, `ProcessingAssumption`, ...), which say
that counts are natural numbers, that the ending version fits into 64 bits and
that there are finitely many keys. A theorem with a further hypothesis says so.

`GapDetectionProofs`, for every range and every way to cut it. The inductive
invariant has three parts: the batches tile the range (`Tiling`); the reported
batches are those below the frontier together with those in `seen_versions`
(`Frontier`), where the frontier is `next_version_to_process`, or the end of
`new_prev_batch` while the chain is followed; and the locals are well-formed
(`WellFormed`). `NextIsFirstMissing` alone is not inductive: it says nothing
about the loop's intermediate states or about what waits in the map. Theorems:
`TypeInvariant`, `PrefixIsExact`, `SeenIsExact`, `StatusIsReported`,
`NothingRewinds`.

`FetchingProofs`, for every way the service cuts the versions into responses,
every filter, chunk size and channel size, and any failures: `TypeInvariant`,
`TransactionsAreFetchedOnce`, `RangesStayAdjacent`, `ClosedIsDelivered`,
`NothingIsSentPastEnding`. The properties alone are not inductive: they say
nothing of where the next response begins. The invariant (`Inv`) adds what
relates the fetcher's locals at each place of its loop (`FetchConsistent`, in
`FetcherProofs`): the next version to fetch follows the last one fetched, an open
stream serves from there on, and messages wait only where the loop sends them; and
that the last message ends at the last version fetched (`EndsAt`). `NothingIsSentPastEnding` assumes that the start is at most one
past the ending version: two or more past it the requested count wraps around
and the service is asked for everything.

`WorkerProofs`, for any number of tasks, versions, failures and restarts.
`TypeInvariant` and `StatusIsMonotone` hold without hypotheses.
`StatusIsCovered`, `ResultsStayWritten` and `Refinement` (the worker implements
`AtLeastOnce`) assume `MaxBatch <= PbChannelTxnChunkSize`, that is, that no
response is broken into chunks; `worker_chunked` shows that without this they
are false. With the default chunk size of 100,000 the hypothesis holds as long
as the service's responses are smaller. The invariant is `TypeOK`,
`ResultsAreWritten` and `StatusCovered`: a result stands for written rows from
the moment a task reports it until it has become part of the prefix, because
the message it came from was whole. `NothingIsSkipped` and `ExitIsFinal` need
that hypothesis only for the restart: they also hold with chunks when the config
names the starting version, since the process then begins there and not at the
status. Their invariant (`SkipInv`) adds `FetchConsistent` of the fetcher.

`UpsertProofs`, for any number of tasks, versions, keys, chunks, failures and
lives. `TypeInvariant` has no hypotheses. `RowsNeverGoStale` assumes that no
value contains "where". `NoStatementsDeadlock` assumes tables whose rows are
collected by primary key (`CollectedByKey`) and sorted by the whole key. Its
invariant (`RowsInv`) is that the keys of a statement's rows differ and, where the
table is sorted, ascend.
In a circle of waiting statements each would wait for a smaller key than the
statement it waits for does (`WaitsUpwards`), although there are finitely many.
`DoneStaysVisible` assumes that no value contains "where" and that collecting
and clause agree (`Converges`, true of all tables but the delegated pools). Its
invariant (`VisibleInv`) follows a write from the batch to the table: the
statements of a batch carry all that its transactions write, a statement that
succeeded is visible, and what is visible stays. `TablesEndExact` adds, under the
same hypotheses, that every row sent or stored was written by its version under
its key (`GenuineInv`), so that in the end the table is what the versions one
after the other make it. `MCUpsert` evaluates which
kinds of tables of the catalogue meet these hypotheses (`KindsAssumption`).

`StatementsProofs` is about the operators: what an `UPDATE`, a statement and a
set of statements keep of a table, that `insert_to_db` leaves no statement out
(`StepsFacts`), and that the database accepts what was collected in a map
(`CollectedIsAccepted`), whatever the rows are.

`ProcessingProofs`, for every chain, every number of tasks, any batches, kills
and panics, and every processor: nothing is assumed of what the parsing
functions return. `StoredRowsOnlyAdvance` (invariant `TablesInv`: stored rows have
a version, without which a clause would compare nothing) and `BatchRowsAreStored` (`WriteInv`, which adds
that the statements of one step write different tables). `SameClause`, that the
statements for deleted tokens have the clause of those for live ones, is
evaluated by TLC on the catalogue.

Only model-checked:

- all liveness (`PrefixCompletes`, `FetcherFinishes`, `WorkerCompletes`,
  `AllDone`, `Progress`): fairness and ENABLED are outside what TLAPS can prove;
- what the parsing functions compute, and so `TypeOK`, `ListedOnce`,
  `NeverPanics`, `HistoryIsTrue`, `NothingLost`, `TablesConverge` and
  `LedgerAgrees`: they are
  folds over sequences, and induction over those is out of the provers' reach.

## Not modelled

- Of the processors: the decoding of payloads, timestamps and big decimals, and
  columns that are copied from the transaction without a decision. Of the
  statements: chunks, in `Processing` (they are in `Upsert`).
- Of the signatures of a multi key account, which key made which: the code stores
  the n-th signature with the n-th key, next to the list of the indices of all
  signers. The model pairs them in the same way, and no property asks for more.
- The chain id check: it runs once before everything else.
- The NFT metadata processor: it publishes messages to an external queue and
  keeps no state; its parsing is a subset of the token v2 processor's. The
  monitoring processor writes nothing.
- Migrations, configuration parsing, metrics, and the moving average, which is
  used for log lines.
- The transaction filter is any set of kept versions.
- The Python and TypeScript workers, which are implementations of their own.
- The limit on results that wait behind a gap only writes a log line, and is
  left out. The final status update is not awaited when `run` returns; the model
  has the same behaviour, and no property asks for more.
