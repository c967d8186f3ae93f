----------------------------- MODULE Processing -----------------------------
(***************************************************************************)
(* Processor tasks that parse batches of transactions and write the rows   *)
(* (process_transactions and insert_to_db of every processor).  A task     *)
(* takes the next batch, parses its transactions one after the other       *)
(* (looking up in the tables what the transaction does not say), then      *)
(* sends one statement per table.  Other tasks work at the same time on    *)
(* other batches, so that a lookup sees the tables as the statements so    *)
(* far have left them.  When a task panics, or the process is killed, the  *)
(* process starts again after the versions that are done.                  *)
(*                                                                         *)
(* The chunks of a statement, row locks and orphaned statements are the    *)
(* subject of Upsert; here a statement takes effect in one step.           *)
(***************************************************************************)
EXTENDS Statements, Objects, Stake, Events, Coins, TokenV2, Ans, DefaultTransactions

CONSTANTS
    Setups,         \* the cases studied: processor, tasks and chain
    Templates,      \* per processor: the transactions a chain is made of, by name
    MaxBatch,       \* most transactions in one batch
    QueryRetries,   \* query_retries of the config
    MaxKills        \* bound on kills from outside

ASSUME ProcessingAssumption ==
    /\ \A s \in Setups : s.chain \in Seq(STRING)
    /\ MaxBatch \in Nat \ {0}
    /\ QueryRetries \in Nat
    /\ MaxKills \in Nat

VARIABLES
    setup,          \* the case; never changes
    db,             \* per table and key: the row
    task,           \* per task: what it is doing
    next_version,   \* first version that no task has taken
    done,           \* versions whose batch was reported as processed
    kills

vars == <<setup, db, task, next_version, done, kills>>

Processor == setup.processor

\* The names of the transactions, by version.
chain == setup.chain

TxnAt(v) == Templates[Processor][chain[v]]

TablesOf(processor) ==
    CASE processor = "objects_processor" -> ObjectsInsert
      [] processor = "stake_processor" -> StakeInsert
      [] processor = "events_processor" -> EventsInsert
      [] processor = "user_transaction_processor" -> UserTransactionInsert
      [] processor = "account_transactions_processor" -> AccountTransactionsInsert
      [] processor = "coin_processor" -> CoinInsert
      [] processor = "fungible_asset_processor" -> FungibleAssetInsert
      [] processor = "ans_processor" -> AnsInsert
      [] processor = "default_processor" -> DefaultInsert
      [] processor = "transaction_metadata_processor" -> TransactionMetadataInsert
      [] processor = "token_processor" -> TokenInsert
      [] processor = "token_v2_processor" -> TokenV2Insert

Idle == [pc |-> "idle"]

Init ==
    /\ setup \in Setups
    /\ db = [t \in TablesOf(Processor) |-> NoMap]
    /\ task = [t \in setup.tasks |-> Idle]
    /\ next_version = 1
    /\ done = {}
    /\ kills = 0

-----------------------------------------------------------------------------
(* Parsing *)

\* The maps a processor starts a batch with.
Memo(processor, txns) ==
    CASE processor = "stake_processor" -> [active |-> NoMap, handles |-> NoMap]
      [] processor = "token_processor" ->
            get_table_handle_to_owner_from_transactions(txns)
      [] processor = "token_v2_processor" ->
            [helper |-> NoMap, prior |-> NoMap,
             handles |-> get_table_handle_to_owner_from_transactions(txns)]
      [] OTHER -> NoMap

Parse(processor, acc, txn, v, tables) ==
    CASE processor = "objects_processor" -> ObjectsParse(acc, txn, v, tables)
      [] processor = "stake_processor" -> StakeParse(acc, txn, v, tables)
      [] processor = "events_processor" -> EventsParse(acc, txn, v)
      [] processor = "user_transaction_processor" -> UserTransactionParse(acc, txn, v)
      [] processor = "account_transactions_processor" -> AccountTransactionsParse(acc, txn, v)
      [] processor = "coin_processor" -> CoinParse(acc, txn, v)
      [] processor = "fungible_asset_processor" -> parse_v2_coin(acc, txn, v)
      [] processor = "ans_processor" -> parse_ans(acc, txn, v)
      [] processor = "default_processor" -> DefaultParse(acc, txn, v)
      [] processor = "transaction_metadata_processor" ->
            TransactionMetadataParse(acc, txn, v)
      [] processor = "token_processor" -> TokenParse(acc, txn, v, tables)
      [] processor = "token_v2_processor" -> parse_v2_token(acc, txn, v, tables)

\* A task receives the next batch.
TakeBatch(t) ==
    /\ task[t].pc = "idle"
    /\ \E n \in 1 .. MaxBatch :
          LET last == next_version + n - 1
          IN  /\ last <= Len(chain)
              /\ task' = [task EXCEPT ![t] =
                    [pc |-> "parsing", first |-> next_version, last |-> last,
                     at |-> next_version, tried |-> 0,
                     acc |-> Batch(Memo(Processor,
                                [i \in 1 .. n |-> TxnAt(next_version + i - 1)]))]]
              /\ next_version' = last + 1
    /\ UNCHANGED <<setup, db, done, kills>>

Parsed(t) == Parse(Processor, task[t].acc, TxnAt(task[t].at), task[t].at, db)

\* Variant: the count starts over instead of ending the loop.
RetryLookup_Forever(t) ==
    /\ task[t].pc = "parsing"
    /\ task[t].at <= task[t].last
    /\ Parsed(t).missed
    /\ task' = [task EXCEPT ![t].tried = (@ + 1) % QueryRetries]
    /\ UNCHANGED <<setup, db, next_version, done, kills>>

\* The loops "while tried < query_retries": a lookup found nothing, and sleeps
\* before it tries again.  The lookups of one transaction are tried together.
RetryLookup(t) ==
    /\ task[t].pc = "parsing"
    /\ task[t].at <= task[t].last
    /\ Parsed(t).missed
    /\ task[t].tried + 1 < QueryRetries
    /\ task' = [task EXCEPT ![t].tried = @ + 1]
    /\ UNCHANGED <<setup, db, next_version, done, kills>>

\* One iteration of the loop over the transactions of the batch.
ParseTransaction(t) ==
    /\ task[t].pc = "parsing"
    /\ task[t].at <= task[t].last
    /\ Parsed(t).missed => task[t].tried + 1 >= QueryRetries
    /\ ~Parsed(t).panicked
    /\ task' = [task EXCEPT ![t].acc = [Parsed(t) EXCEPT !.missed = FALSE],
                            ![t].at = @ + 1,
                            ![t].tried = 0]
    /\ UNCHANGED <<setup, db, next_version, done, kills>>

-----------------------------------------------------------------------------
(* Writing *)

\* All transactions of the batch are parsed: insert_to_db.
InsertToDb(t) ==
    /\ task[t].pc = "parsing"
    /\ task[t].at > task[t].last
    /\ LET rows == Collected(task[t].acc.rows)
       IN  task' = [task EXCEPT ![t] =
                [pc |-> "writing", first |-> task[t].first, last |-> task[t].last,
                 rows |-> rows, todo |-> Steps({rows[i].table : i \in DOMAIN rows})]]
    /\ UNCHANGED <<setup, db, next_version, done, kills>>

\* The statements of a batch run concurrently.
ExecuteStatements(t, statements) ==
    /\ \A s \in statements : ~Refused(task[t].rows, s)
    /\ db' = ExecutedAll(db, task[t].rows, statements)
    /\ task' = [task EXCEPT ![t].todo = @ \ {statements}]
    /\ UNCHANGED <<setup, next_version, done, kills>>

\* Variant: the version after the batch is reported too.
Report_PastEnd(t) ==
    /\ task[t].pc = "writing"
    /\ task[t].todo = {}
    /\ done' = done \cup task[t].first .. task[t].last + 1
    /\ task' = [task EXCEPT ![t] = Idle]
    /\ UNCHANGED <<setup, db, next_version, kills>>

\* insert_to_db returned: the batch is reported.
Report(t) ==
    /\ task[t].pc = "writing"
    /\ task[t].todo = {}
    /\ done' = done \cup task[t].first .. task[t].last
    /\ task' = [task EXCEPT ![t] = Idle]
    /\ UNCHANGED <<setup, db, next_version, kills>>

-----------------------------------------------------------------------------
(* Failures *)

\* The next process starts after the stored status, which is at or below the
\* versions that are done without a gap.
StartAgain ==
    /\ task' = [t \in setup.tasks |-> Idle]
    /\ \E v \in 1 .. Len(chain) + 1 :
          /\ 1 .. v - 1 \subseteq done
          /\ next_version' = v
          /\ done' = 1 .. v - 1
    /\ UNCHANGED <<setup, db>>

\* An unwrap or a panic! while a transaction is parsed.
ParsePanics(t) ==
    /\ task[t].pc = "parsing"
    /\ task[t].at <= task[t].last
    /\ Parsed(t).missed => task[t].tried + 1 >= QueryRetries
    /\ Parsed(t).panicked
    /\ StartAgain
    /\ UNCHANGED kills

\* A statement is refused, also when it is sent a second time.
InsertFails(t, statements) ==
    /\ \E s \in statements : Refused(task[t].rows, s)
    /\ StartAgain
    /\ UNCHANGED kills

Killed ==
    /\ kills < MaxKills
    /\ kills' = kills + 1
    /\ StartAgain

Settled == done = DOMAIN chain

Rest == Settled /\ UNCHANGED vars

TaskStep(t) ==
    \/ TakeBatch(t) \/ RetryLookup(t) \/ ParseTransaction(t)
    \/ ParsePanics(t) \/ InsertToDb(t) \/ Report(t)
    \/ /\ task[t].pc = "writing"
       /\ \E ss \in task[t].todo : ExecuteStatements(t, ss) \/ InsertFails(t, ss)

Next ==
    \/ \E t \in setup.tasks : TaskStep(t)
    \/ Killed
    \/ Rest

Tasks == UNION {s.tasks : s \in Setups}

\* When TaskStep(t) is enabled; each of its steps changes the task.
CanGoOn(t) ==
    /\ t \in setup.tasks
    /\ task[t].pc # "idle" \/ next_version <= Len(chain)

\* Weak fairness of the tasks.  The runtime polls every task that can go on; a
\* statement and a lookup are answered, and a process that ended is started
\* again.
Spec ==
    /\ Init /\ [][Next]_vars
    /\ \A t \in Tasks : []<>~CanGoOn(t) \/ []<><<task'[t] # task[t]>>_vars

-----------------------------------------------------------------------------
(* Properties of the tasks; those of what is written are in Ledger *)

\* What a statement has written stays: whatever other tasks, repeated batches and
\* later processes write, no row disappears, and a row of a table with a version
\* clause only gives way to one of the same or a later version (of an earlier one
\* where the table has the first), although several statements, with different
\* lists of columns to set, write the table.
RowsOnlyAdvance ==
    [][\A t \in DOMAIN db : \A k \in DOMAIN db[t] :
          /\ k \in DOMAIN db'[t]
          /\ Queries[t].guard \in {"latest", "first"} =>
                \/ db'[t][k] = db[t][k]
                \/ Queries[t].guard = "latest" /\ db[t][k].v <= db'[t][k].v
                \/ Queries[t].guard = "first" /\ db[t][k].v >= db'[t][k].v]_vars

\* The rows of a batch whose statement is no longer to be executed are in their
\* table, so that all are when the batch is reported.
ExecutedIsStored ==
    \A t \in setup.tasks : task[t].pc = "writing" =>
        \A i \in DOMAIN task[t].rows :
            LET r == task[t].rows[i]
            IN  r.table \notin UNION task[t].todo /\ TableOf(r.table) \in DOMAIN db
                    => r.key \in DOMAIN db[TableOf(r.table)]
=============================================================================
