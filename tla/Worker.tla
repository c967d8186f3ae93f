------------------------------- MODULE Worker -------------------------------
(***************************************************************************)
(* One indexer process (worker.rs): the fetcher task, the processor tasks  *)
(* that write to the database, the gap detector task, the two bounded      *)
(* channels between them, and the database that outlives the process.      *)
(* The process may be killed, or end itself by a panic in any task, at any *)
(* moment; it is then started again.                                       *)
(***************************************************************************)
EXTENDS Fetcher, GapDetector

CONSTANTS
    Tasks,                  \* the concurrent processor tasks
    StartingVersion         \* starting_version of the config, or NoVersion

ASSUME WorkerAssumption ==
    /\ Tasks # {}
    /\ StartingVersion \in Nat \cup {NoVersion}
    /\ NoBatch \notin TransactionsPBResponse

VARIABLES
    process,        \* "down", "running" or "exited"
    task_pc,        \* per task: "fetch", "process", "report" or "done"
    task_batch,     \* per task: the message it works on, or NoBatch
    gap_channel,    \* the channel of results to the gap detector
    committed       \* versions whose rows are in the database

taskVars == <<task_pc, task_batch>>
vars == <<process, fetchVars, channel, faults, taskVars, gap_channel,
          gapVars, status, committed>>

Result(m) == [start_version |-> m.start_version, end_version |-> m.end_version]

\* What a processor task holds when it is spawned.
TasksIdle == [t \in Tasks |-> "fetch"]
NoBatches == [t \in Tasks |-> NoBatch]

Init ==
    /\ process = "down"
    /\ FetchInit(0)
    /\ GapInit(0)
    /\ channel = <<>>
    /\ gap_channel = <<>>
    /\ task_pc = TasksIdle
    /\ task_batch = NoBatches
    /\ faults = 0
    /\ status = NoStatus
    /\ committed = {}

-----------------------------------------------------------------------------
(* Start and end of the process *)

\* Variant: an off-by-one past the first unprocessed version.
GetStartVersion_OffByOne ==
    IF status = NoStatus THEN 0 ELSE status + 2

\* get_start_version, and the default when there is no row.
GetStartVersion == IF status = NoStatus THEN 0 ELSE status + 1

\* The version of the config takes precedence over the one of the database.
FinalStartVersion ==
    IF StartingVersion # NoVersion THEN StartingVersion ELSE GetStartVersion

\* The part of memory that run() sets up: empty channels, idle tasks.
SpawnTasks ==
    /\ channel' = <<>>
    /\ gap_channel' = <<>>
    /\ task_pc' = TasksIdle
    /\ task_batch' = NoBatches

\* Worker::run up to the point where it waits for its tasks.
Run ==
    /\ process = "down"
    /\ process' = "running"
    /\ FetchReset(FinalStartVersion)
    /\ GapReset(FinalStartVersion)
    /\ SpawnTasks
    /\ UNCHANGED <<faults, status, committed>>

\* The process is gone, and its memory with it.
Die ==
    /\ process' = "down"
    /\ FetchReset(0)
    /\ GapReset(0)
    /\ SpawnTasks
    /\ UNCHANGED status

\* The transactions that tasks are writing: when the process ends, any part of
\* them may have reached the database.
BeingWritten ==
    UNION {task_batch[t].txns : t \in {u \in Tasks : task_pc[u] = "process"}}

\* A panic outside the fetcher (the panic hook calls process::exit), for example
\* of a task whose send or status update failed, or a kill from outside.
Crash ==
    /\ process = "running"
    /\ Fault
    /\ \E written \in SUBSET BeingWritten : committed' = committed \cup written
    /\ Die

\* The fetcher's panic reaches the panic hook.
FetcherPanics ==
    /\ process = "running"
    /\ fetch_pc = "panic"
    /\ \E written \in SUBSET BeingWritten : committed' = committed \cup written
    /\ Die
    /\ UNCHANGED faults

\* Variant: run waits for the fetcher only.
RunReturns_FetcherOnly ==
    /\ process = "running"
    /\ fetch_pc = "closed"
    /\ process' = "exited"
    /\ UNCHANGED <<fetchVars, channel, faults, taskVars, gap_channel, gapVars,
                   status, committed>>

\* try_join_all returns: the fetcher and every processor task have finished.
\* Nobody waits for the gap detector.
RunReturns ==
    /\ process = "running"
    /\ fetch_pc = "closed"
    /\ \A t \in Tasks : task_pc[t] = "done"
    /\ process' = "exited"
    /\ UNCHANGED <<fetchVars, channel, faults, taskVars, gap_channel, gapVars,
                   status, committed>>

-----------------------------------------------------------------------------
(* launch_processor_task *)

SetTask(t, pc, batch) ==
    /\ task_pc' = [task_pc EXCEPT ![t] = pc]
    /\ task_batch' = [task_batch EXCEPT ![t] = batch]

\* fetch_transactions returns a message.
FetchTransactions(t) ==
    /\ process = "running"
    /\ task_pc[t] = "fetch"
    /\ channel # <<>>
    /\ SetTask(t, "process", Head(channel))
    /\ channel' = Tail(channel)
    /\ UNCHANGED <<process, fetchVars, faults, gap_channel, gapVars, status,
                   committed>>

\* Variant: the result is reported before the rows are written.
DoProcessor_Late(t) ==
    /\ process = "running"
    /\ task_pc[t] = "process"
    /\ SetTask(t, "report", task_batch[t])
    /\ UNCHANGED <<process, fetchVars, channel, faults, gap_channel, gapVars,
                   status, committed>>

\* do_processor succeeds: all rows of the message are in the database.
DoProcessor(t) ==
    /\ process = "running"
    /\ task_pc[t] = "process"
    /\ committed' = committed \cup task_batch[t].txns
    /\ SetTask(t, "report", task_batch[t])
    /\ UNCHANGED <<process, fetchVars, channel, faults, gap_channel, gapVars,
                   status>>

\* do_processor fails after it has written some of the rows: the task panics.
ProcessorPanics(t) ==
    /\ process = "running"
    /\ task_pc[t] = "process"
    /\ Fault
    /\ \E written \in SUBSET BeingWritten : committed' = committed \cup written
    /\ Die

\* The result goes to the gap detector, and the task is ready for more.
SendResult(t) ==
    /\ process = "running"
    /\ task_pc[t] = "report"
    /\ Len(gap_channel) < BufferSize
    /\ gap_channel' = Append(gap_channel, Result(task_batch[t]))
    /\ SetTask(t, "fetch", NoBatch)
    /\ UNCHANGED <<process, fetchVars, channel, faults, gapVars, status,
                   committed>>

\* fetch_transactions fails: the channel is empty and its sender is gone.
TaskExits(t) ==
    /\ process = "running"
    /\ task_pc[t] = "fetch"
    /\ channel = <<>>
    /\ fetch_pc = "closed"
    /\ SetTask(t, "done", NoBatch)
    /\ UNCHANGED <<process, fetchVars, channel, faults, gap_channel, gapVars,
                   status, committed>>

-----------------------------------------------------------------------------
(* The fetcher and the gap detector inside the process *)

FetcherRuns ==
    /\ process = "running"
    /\ FetchProgress
    /\ UNCHANGED <<process, taskVars, gap_channel, gapVars, status, committed>>

StreamFails ==
    /\ process = "running"
    /\ FetchFault
    /\ UNCHANGED <<process, taskVars, gap_channel, gapVars, status, committed>>

ReceiveResult ==
    /\ process = "running"
    /\ gap_channel # <<>>
    /\ ProcessVersions(Head(gap_channel))
    /\ gap_channel' = Tail(gap_channel)
    /\ UNCHANGED <<process, fetchVars, channel, faults, taskVars, committed>>

GapDetectorRuns ==
    /\ process = "running"
    /\ GapStep
    /\ UNCHANGED <<process, fetchVars, channel, faults, taskVars, gap_channel,
                   committed>>

\* The process has returned from main.
Exited == process = "exited" /\ UNCHANGED vars

TaskRuns(t) ==
    FetchTransactions(t) \/ DoProcessor(t) \/ SendResult(t) \/ TaskExits(t)

Next ==
    \/ Run \/ RunReturns \/ Exited
    \/ Crash \/ FetcherPanics \/ StreamFails
    \/ FetcherRuns
    \/ \E t \in Tasks : TaskRuns(t) \/ ProcessorPanics(t)
    \/ ReceiveResult \/ GapDetectorRuns

\* The runtime polls every task that can go on, the data service serves what it
\* has, and a process that went down is started again.  No failure is forced.
Fairness ==
    /\ WF_vars(Run)
    /\ WF_vars(RunReturns)
    /\ WF_vars(FetcherPanics)
    /\ WF_vars(FetcherRuns)
    /\ \A t \in Tasks : WF_vars(TaskRuns(t))
    /\ WF_vars(ReceiveResult)
    /\ WF_vars(GapDetectorRuns)

Spec == Init /\ [][Next]_vars
FairSpec == Spec /\ Fairness

-----------------------------------------------------------------------------
TypeOK ==
    /\ process \in {"down", "running", "exited"}
    /\ FetchTypeOK
    /\ GapTypeOK
    /\ task_pc \in [Tasks -> {"fetch", "process", "report", "done"}]
    /\ task_batch \in [Tasks -> TransactionsPBResponse \cup {NoBatch}]
    /\ \A t \in Tasks : task_pc[t] \in {"process", "report"} =>
                            task_batch[t] \in TransactionsPBResponse
    /\ gap_channel \in Seq(Results)
    /\ committed \subseteq Nat

\* The version the first run started from.
FirstVersion == IF StartingVersion = NoVersion THEN 0 ELSE StartingVersion

\* Every transaction that the filter keeps, up to the version in the
\* processor_status row, is in the database ("We can assume that all previously
\* processed versions are successful"): a restart from that row loses nothing.
StatusCovered ==
    \A v \in Retained(FirstVersion, status) : v \in committed

\* The kept transactions of the range of r are all in the database.
Written(r) == Retained(r.start_version, r.end_version) \subseteq committed

\* The message has all the transactions it should have.
Whole(m) == m.txns = Retained(m.start_version, m.end_version)

WrittenUpTo(v) == Retained(FirstVersion, v) \subseteq committed

\* Why StatusCovered holds: a result stands for rows that are in the database,
\* from the moment a task is about to report it until the gap detector has made
\* it part of the prefix, because the message it comes from was whole; and the
\* prefix, also while it is being extended, is in the database up to its end.
ResultsAreWritten ==
    /\ \A i \in DOMAIN outbox : Whole(outbox[i])
    /\ \A i \in DOMAIN channel : Whole(channel[i])
    /\ \A t \in Tasks :
          /\ task_pc[t] \in {"process", "report"} => Whole(task_batch[t])
          /\ task_pc[t] = "report" => task_batch[t].txns \subseteq committed
    /\ \A i \in DOMAIN gap_channel : Written(gap_channel[i])
    /\ \A r \in seen_versions : Written(r)
    /\ WrittenUpTo(next_version_to_process - 1)
    /\ gap_pc = "chain" => WrittenUpTo(new_prev_batch.end_version)
    /\ last_success_batch # NoBatch => WrittenUpTo(last_success_batch.end_version)

\* The messages that have been fetched and not completely written.
InFlight ==
    {outbox[i] : i \in DOMAIN outbox}
    \cup {channel[i] : i \in DOMAIN channel}
    \cup {task_batch[t] : t \in {u \in Tasks : task_pc[u] = "process"}}

\* While the process runs, a transaction at or below last_fetched_version is in
\* the database or on its way: no handover between tasks, no reconnection and no
\* restart drops one.
NothingSkipped ==
    process = "running" =>
        \A v \in Retained(FirstVersion, last_fetched_version) :
            v \in committed \/ \E m \in InFlight : v \in m.txns

\* A worker that returns has indexed everything up to its ending version ("we
\* will make sure that all existing transactions are processed").
ExitIsComplete ==
    process = "exited" =>
        Retained(FirstVersion, EndingVersion) \subseteq committed

\* The stored version never decreases, also when a config with a
\* starting_version makes every restart process old versions again.
StatusNeverRewinds == [][status <= status']_vars

\* A bounded number of failures does not keep a worker with an ending version
\* from completing: it does not deadlock on its channels or wait for a result
\* that never comes.
WorkerCompletes == <>(process = "exited")

\* The worker implements at-least-once indexing with a prefix checkpoint.
Promise == INSTANCE AtLeastOnce WITH
    Wanted <- Included, First <- FirstVersion,
    indexed <- committed, checkpoint <- status

ImplementsAtLeastOnce == Promise!ALOSpec
=============================================================================
