---------------------------- MODULE WorkerProofs ----------------------------
(***************************************************************************)
(* What Worker.tla promises, for every number of tasks and versions, every *)
(* channel capacity and every number of failures.                          *)
(***************************************************************************)
EXTENDS Worker, FetcherProofs

-----------------------------------------------------------------------------
(* The messages made of a response *)

\* A response that does not reach the chunk size, or only just, becomes one
\* message, which has all the transactions the filter keeps.
LEMMA MessagesWhole ==
    ASSUME NEW first \in Nat, NEW last \in Nat, first <= last,
           last - first + 1 <= PbChannelTxnChunkSize
    PROVE  \A i \in 1 .. Len(Messages(first, last)) :
              Whole(Messages(first, last)[i])
<1> DEFINE kept == Retained(first, last)
           n == Cardinality(kept)
           size == PbChannelTxnChunkSize
           message(T) == [txns |-> T, start_version |-> first, end_version |-> last]
           parts == (n + size - 1) \div size
           part(i) == {v \in kept : Rank(kept, v) \div size = i - 1}
<1>1. IsFiniteSet(kept) /\ n \in Nat /\ n <= size
  <2>1. /\ IsFiniteSet(kept)
        /\ n \in Nat
        /\ n <= last - first + 1
    <3>1. first \in Int /\ last \in Int
        OBVIOUS
    <3> QED BY <3>1, RetainedIsFinite
  <2>2. size \in Nat
      BY FetcherAssumption
  <2> HIDE DEF n, kept
  <2> QED BY <2>1, <2>2
<1>2. size \in Nat /\ size >= 1
    BY FetcherAssumption
<1>3. Whole(message(kept))
    BY DEF Whole
<1>4. CASE n < size
  <2>1. Messages(first, last) = <<message(kept)>>
      BY <1>4 DEF Messages
  <2> HIDE DEF message
  <2> QED BY <1>3, <2>1
<1>5. CASE ~(n < size)
  <2>1. Messages(first, last) = [i \in 1 .. parts |-> message(part(i))]
      BY <1>5 DEF Messages
  <2>2. parts = 1
    <3> HIDE DEF n
    <3>1. n = size
        BY <1>1, <1>2, <1>5
    <3>2. (size + size - 1) \div size = 1
        BY <1>2
    <3> QED BY <3>1, <3>2
  <2>3. part(1) = kept
    <3>1. kept \subseteq Int
        BY DEF Retained
    <3>2. ASSUME NEW v \in kept
          PROVE  Rank(kept, v) \div size = 0
      <4>1. Rank(kept, v) \in Nat /\ Rank(kept, v) < n
          BY <1>1, <3>1, RankBelowCardinality
      <4> HIDE DEF n, kept
      <4> QED BY <1>1, <1>2, <4>1
    <3> QED BY <3>2
  <2>4. Len(Messages(first, last)) = 1 /\ Messages(first, last)[1] = message(kept)
    <3> HIDE DEF kept, part, parts, message
    <3> QED BY <2>1, <2>2, <2>3
  <2> HIDE DEF message
  <2> QED BY <1>3, <2>4
<1> QED BY <1>4, <1>5

-----------------------------------------------------------------------------
(* Types *)

\* Every step of the gap detector keeps its state well-formed.
LEMMA GapStepType ==
    ASSUME GapTypeOK,
           GapStep \/ (\E r \in Results : ProcessVersions(r))
    PROVE  GapTypeOK'
<1> USE NoBatchAssumption
<1>1. ASSUME NEW r \in Results, ProcessVersions(r)
      PROVE  GapTypeOK'
    BY <1>1 DEF ProcessVersions, InsertSeen, GapTypeOK
<1>2. CASE FollowChain
    BY <1>2 DEF FollowChain, GapTypeOK
<1>3. CASE UpdatePrevBatch
    BY <1>3 DEF UpdatePrevBatch, GapTypeOK, Results
<1>4. CASE UpdateLastProcessedVersion
  <2>1. status' \in Nat \cup {NoStatus}
      BY <1>4 DEF UpdateLastProcessedVersion, StatusUpsert, GapTypeOK, Results
  <2> QED BY <1>4, <2>1 DEF UpdateLastProcessedVersion, GapTypeOK
<1>5. CASE SkipStatusUpdate
    BY <1>5 DEF SkipStatusUpdate, GapTypeOK
<1> QED BY <1>1, <1>2, <1>3, <1>4, <1>5 DEF GapStep

\* The version a process starts from is a natural number.
LEMMA StartVersionType ==
    ASSUME TypeOK
    PROVE  FinalStartVersion \in Nat
BY WorkerAssumption
DEF TypeOK, GapTypeOK, FinalStartVersion, GetStartVersion, NoStatus

\* A process that has just been started, or has just ended, is well-formed.
LEMMA ResetType ==
    ASSUME TypeOK, NEW v \in Nat,
           FetchReset(v), GapReset(v), SpawnTasks, UNCHANGED status,
           process' \in {"down", "running"},
           faults' \in 0 .. MaxFaults, committed' \subseteq Nat
    PROVE  TypeOK'
<1>1. FetchTypeOK'
    BY FetcherAssumption DEF FetchReset, SpawnTasks, FetchTypeOK
<1>2. GapTypeOK'
    BY DEF GapReset, TypeOK, GapTypeOK
<1>3. /\ task_pc' \in [Tasks -> {"fetch", "process", "report", "done"}]
      /\ task_batch' \in [Tasks -> TransactionsPBResponse \cup {NoBatch}]
      /\ \A t \in Tasks : task_pc'[t] \notin {"process", "report"}
      /\ gap_channel' \in Seq(Results)
    BY DEF SpawnTasks, TasksIdle, NoBatches
<1> QED BY <1>1, <1>2, <1>3 DEF TypeOK

\* What tasks are writing when the process ends are versions.
LEMMA BeingWrittenType ==
    ASSUME TypeOK
    PROVE  BeingWritten \subseteq Nat
BY DEF TypeOK, BeingWritten, TransactionsPBResponse

\* A process that ends with part of a batch written is well-formed.
LEMMA DieType ==
    ASSUME TypeOK, Die, faults' \in 0 .. MaxFaults,
           \E written \in SUBSET BeingWritten : committed' = committed \cup written
    PROVE  TypeOK'
<1>1. committed' \subseteq Nat
    BY BeingWrittenType DEF TypeOK
<1> QED BY <1>1, ResetType DEF Die

\* A step of a processor task keeps the state well-formed.
LEMMA TaskType ==
    ASSUME TypeOK, NEW t \in Tasks, TaskRuns(t)
    PROVE  TypeOK'
<1> USE DEF fetchVars, streamVars, gapVars, taskVars, SetTask
<1>1. CASE FetchTransactions(t)
  <2>1. /\ Head(channel) \in TransactionsPBResponse
        /\ Tail(channel) \in Seq(TransactionsPBResponse)
      BY <1>1 DEF FetchTransactions, TypeOK, FetchTypeOK
  <2>2. FetchTypeOK'
      BY <1>1, <2>1 DEF FetchTransactions, TypeOK, FetchTypeOK
  <2>3. GapTypeOK'
      BY <1>1 DEF FetchTransactions, TypeOK, GapTypeOK
  <2> QED BY <1>1, <2>1, <2>2, <2>3 DEF FetchTransactions, TypeOK
<1>2. CASE DoProcessor(t)
  <2>1. FetchTypeOK' /\ GapTypeOK'
      BY <1>2 DEF DoProcessor, TypeOK, FetchTypeOK, GapTypeOK
  <2>2. task_batch[t] \in TransactionsPBResponse
      BY <1>2 DEF DoProcessor, TypeOK
  <2>3. committed' \subseteq Nat
      BY <1>2, <2>2 DEF DoProcessor, TypeOK, TransactionsPBResponse
  <2> QED BY <1>2, <2>1, <2>2, <2>3 DEF DoProcessor, TypeOK
<1>3. CASE SendResult(t)
  <2>1. FetchTypeOK' /\ GapTypeOK'
      BY <1>3 DEF SendResult, TypeOK, FetchTypeOK, GapTypeOK
  <2>2. Result(task_batch[t]) \in Results
      BY <1>3 DEF SendResult, TypeOK, TransactionsPBResponse, Result, Results
  <2>3. gap_channel' \in Seq(Results)
      BY <1>3, <2>2 DEF SendResult, TypeOK
  <2> QED BY <1>3, <2>1, <2>3 DEF SendResult, TypeOK
<1>4. CASE TaskExits(t)
  <2>1. FetchTypeOK' /\ GapTypeOK'
      BY <1>4 DEF TaskExits, TypeOK, FetchTypeOK, GapTypeOK
  <2> QED BY <1>4, <2>1 DEF TaskExits, TypeOK
<1> QED BY <1>1, <1>2, <1>3, <1>4 DEF TaskRuns

\* Every step of the worker keeps the state well-formed.
LEMMA NextType ==
    ASSUME TypeOK, [Next]_vars
    PROVE  TypeOK'
<1> USE DEF fetchVars, streamVars, gapVars, taskVars
<1>1. CASE Run
  <2>1. faults' \in 0 .. MaxFaults /\ committed' \subseteq Nat
      BY <1>1 DEF Run, TypeOK, FetchTypeOK
  <2> QED BY <1>1, <2>1, StartVersionType, ResetType DEF Run
<1>2. CASE RunReturns
    BY <1>2 DEF RunReturns, TypeOK, FetchTypeOK, GapTypeOK
<1>3. CASE Crash
  <2>1. faults' \in 0 .. MaxFaults
      BY <1>3, FetcherAssumption DEF Crash, Fault, TypeOK, FetchTypeOK
  <2> QED BY <1>3, <2>1, DieType DEF Crash
<1>4. CASE FetcherPanics
  <2>1. faults' \in 0 .. MaxFaults
      BY <1>4 DEF FetcherPanics, TypeOK, FetchTypeOK
  <2> QED BY <1>4, <2>1, DieType DEF FetcherPanics
<1>5. CASE StreamFails \/ FetcherRuns
  <2>1. FetchTypeOK'
      BY <1>5, FetchStepType DEF StreamFails, FetcherRuns, TypeOK
  <2>2. GapTypeOK'
      BY <1>5 DEF StreamFails, FetcherRuns, TypeOK, GapTypeOK
  <2> QED BY <1>5, <2>1, <2>2 DEF StreamFails, FetcherRuns, TypeOK
<1>6. ASSUME NEW t \in Tasks, TaskRuns(t)
      PROVE  TypeOK'
    BY <1>6, TaskType
<1>7. ASSUME NEW t \in Tasks, ProcessorPanics(t)
      PROVE  TypeOK'
  <2>1. faults' \in 0 .. MaxFaults
      BY <1>7, FetcherAssumption DEF ProcessorPanics, Fault, TypeOK, FetchTypeOK
  <2> QED BY <1>7, <2>1, DieType DEF ProcessorPanics
<1>8. CASE ReceiveResult
  <2>1. Head(gap_channel) \in Results /\ gap_channel' \in Seq(Results)
      BY <1>8 DEF ReceiveResult, TypeOK
  <2>2. GapTypeOK'
      BY <1>8, <2>1, GapStepType DEF ReceiveResult, TypeOK
  <2>3. FetchTypeOK'
      BY <1>8 DEF ReceiveResult, TypeOK, FetchTypeOK
  <2> QED BY <1>8, <2>1, <2>2, <2>3 DEF ReceiveResult, TypeOK
<1>9. CASE GapDetectorRuns
  <2>1. GapTypeOK'
      BY <1>9, GapStepType DEF GapDetectorRuns, TypeOK
  <2>2. FetchTypeOK'
      BY <1>9 DEF GapDetectorRuns, TypeOK, FetchTypeOK
  <2> QED BY <1>9, <2>1, <2>2 DEF GapDetectorRuns, TypeOK
<1>10. CASE UNCHANGED vars
    BY <1>10 DEF vars, TypeOK, FetchTypeOK, GapTypeOK
<1> QED
    BY <1>1, <1>2, <1>3, <1>4, <1>5, <1>6, <1>7, <1>8, <1>9, <1>10
    DEF Next, Exited

\* The first process starts well-formed.
LEMMA InitType == Init => TypeOK
<1> SUFFICES ASSUME Init PROVE TypeOK
    OBVIOUS
<1>1. FetchTypeOK
    BY FetcherAssumption DEF Init, FetchInit, FetchTypeOK
<1>2. GapTypeOK
    BY DEF Init, GapInit, GapTypeOK
<1> QED BY <1>1, <1>2 DEF Init, TypeOK, TasksIdle, NoBatches

\* Every variable of the worker keeps its type: in particular the retry
\* counters of the fetcher stay within their limits.
THEOREM TypeInvariant == Spec => []TypeOK
BY InitType, NextType, PTL DEF Spec

-----------------------------------------------------------------------------
(* The stored version *)

Inv == TypeOK /\ ResultsAreWritten /\ StatusCovered

\* The version indexing starts from is a natural number.
LEMMA FirstVersionType == FirstVersion \in Nat
BY WorkerAssumption DEF FirstVersion

\* A written result that starts where the written prefix ends extends it.
LEMMA PrefixExtends ==
    ASSUME NEW r \in Results, WrittenUpTo(r.start_version - 1), Written(r)
    PROVE  WrittenUpTo(r.end_version)
BY FirstVersionType DEF WrittenUpTo, Written, Retained, Results

\* What is written stays written.
LEMMA WrittenStays ==
    ASSUME NEW r, NEW v, committed \subseteq committed'
    PROVE  /\ Written(r) => Written(r)'
           /\ WrittenUpTo(v) => WrittenUpTo(v)'
BY DEF Written, WrittenUpTo

\* A process that has just been started, or has just ended, holds no results.
LEMMA ResetInv ==
    ASSUME Inv, NEW v \in Nat,
           FetchReset(v), GapReset(v), SpawnTasks, UNCHANGED status,
           committed \subseteq committed',
           WrittenUpTo(v - 1)
    PROVE  ResultsAreWritten' /\ StatusCovered'
<1>1. StatusCovered'
    BY DEF Inv, StatusCovered
<1>2. WrittenUpTo(v - 1)'
    BY WrittenStays
<1>3. /\ outbox' = <<>> /\ channel' = <<>> /\ gap_channel' = <<>>
      /\ seen_versions' = {}
      /\ next_version_to_process' = v
      /\ gap_pc' = "recv"
      /\ last_success_batch' = NoBatch
    BY DEF FetchReset, GapReset, SpawnTasks
<1>4. \A t \in Tasks : task_pc'[t] = "fetch"
    BY DEF SpawnTasks, TasksIdle
<1>5. WrittenUpTo(next_version_to_process - 1)'
    BY <1>2, <1>3 DEF WrittenUpTo
<1> QED BY <1>1, <1>3, <1>4, <1>5 DEF ResultsAreWritten

\* A process that ends with part of a batch written breaks no promise.
LEMMA DieInv ==
    ASSUME Inv, Die,
           \E written \in SUBSET BeingWritten : committed' = committed \cup written
    PROVE  ResultsAreWritten' /\ StatusCovered'
<1>1. WrittenUpTo(0 - 1)
    BY FirstVersionType DEF WrittenUpTo, Retained
<1> QED BY <1>1, ResetInv DEF Die

\* The kept transactions below the version a process starts from are in the
\* database: trivially so when the config sets that version.
LEMMA StartIsCovered ==
    ASSUME TypeOK, StatusCovered \/ StartingVersion # NoVersion
    PROVE  WrittenUpTo(FinalStartVersion - 1)
<1>1. CASE StartingVersion # NoVersion
  <2>1. StartingVersion \in Nat
      BY <1>1, WorkerAssumption
  <2>2. FinalStartVersion = StartingVersion /\ FirstVersion = StartingVersion
      BY <1>1 DEF FinalStartVersion, FirstVersion
  <2> QED BY <2>1, <2>2 DEF WrittenUpTo, Retained
<1>2. CASE StartingVersion = NoVersion
  <2>1. FirstVersion = 0
      BY <1>2 DEF FirstVersion
  <2>2. FinalStartVersion - 1 = status
      BY <1>2 DEF TypeOK, GapTypeOK, FinalStartVersion, GetStartVersion, NoStatus
  <2> QED BY <1>2, <2>1, <2>2 DEF StatusCovered, WrittenUpTo
<1> QED BY <1>1, <1>2

\* A restart resumes where the written prefix ends.
LEMMA RunInv ==
    ASSUME Inv, Run
    PROVE  ResultsAreWritten' /\ StatusCovered'
<1>1. FinalStartVersion \in Nat
    BY StartVersionType DEF Inv
<1>2. WrittenUpTo(FinalStartVersion - 1)
    BY StartIsCovered DEF Inv
<1> QED BY <1>1, <1>2, ResetInv DEF Run

\* A step of the fetcher sends whole messages when no response is too large for
\* one message.
LEMMA FetchInv ==
    ASSUME Inv, MaxBatch <= PbChannelTxnChunkSize,
           FetchProgress \/ FetchFault,
           UNCHANGED <<taskVars, gap_channel, gapVars, status, committed>>
    PROVE  ResultsAreWritten' /\ StatusCovered'
<1> USE FetcherAssumption
<1>1. StatusCovered'
    BY DEF Inv, StatusCovered
<1> SUFFICES ResultsAreWritten'
    BY <1>1
<1>2. ASSUME \A i \in DOMAIN outbox' : Whole(outbox'[i]),
             \A i \in DOMAIN channel' : Whole(channel'[i])
      PROVE  ResultsAreWritten'
    BY <1>2 DEF Inv, ResultsAreWritten, Written, WrittenUpTo, Whole, taskVars, gapVars
<1>3. ASSUME UNCHANGED <<outbox, channel>>
      PROVE  ResultsAreWritten'
    BY <1>2, <1>3 DEF Inv, ResultsAreWritten
<1>4. ASSUME NEW first \in Nat, NEW last \in Nat, first <= last,
             last - first + 1 <= PbChannelTxnChunkSize,
             ReceiveResponse(first, last)
      PROVE  ResultsAreWritten'
  <2>1. /\ UNCHANGED channel
        /\ \/ UNCHANGED outbox
           \/ outbox' = Messages(first, last)
      BY <1>4 DEF ReceiveResponse
  <2>2. \A i \in 1 .. Len(Messages(first, last)) : Whole(Messages(first, last)[i])
      BY <1>4, MessagesWhole
  <2>3. DOMAIN Messages(first, last) = 1 .. Len(Messages(first, last))
      BY MessagesType
  <2>4. \A i \in DOMAIN outbox' : Whole(outbox'[i])
      BY <2>1, <2>2, <2>3 DEF Inv, ResultsAreWritten
  <2>5. \A i \in DOMAIN channel' : Whole(channel'[i])
      BY <2>1 DEF Inv, ResultsAreWritten
  <2> QED BY <1>2, <2>4, <2>5
<1>5. CASE StreamServes
  <2>1. PICK n \in 1 .. MaxBatch : ReceiveResponse(stream_next, stream_next + n - 1)
      BY <1>5 DEF StreamServes
  <2>2. stream_next \in Nat
      BY DEF Inv, TypeOK, FetchTypeOK
  <2> QED BY <1>4, <2>1, <2>2
<1>6. CASE StreamServesGap
  <2>1. PICK first \in 0 .. LedgerHead : ReceiveResponse(first, first)
      BY <1>6 DEF StreamServesGap
  <2> QED BY <1>4, <2>1
<1>7. CASE SendToChannel
  <2>1. /\ outbox \in Seq(TransactionsPBResponse)
        /\ outbox # <<>>
        /\ channel \in Seq(TransactionsPBResponse)
        /\ channel' = Append(channel, Head(outbox))
        /\ outbox' = Tail(outbox)
      BY <1>7 DEF SendToChannel, Inv, TypeOK, FetchTypeOK
  <2>2. /\ \A i \in 1 .. Len(outbox) : Whole(outbox[i])
        /\ \A i \in 1 .. Len(channel) : Whole(channel[i])
      BY <2>1 DEF Inv, ResultsAreWritten
  <2> HIDE DEF TransactionsPBResponse
  <2>3. \A i \in DOMAIN outbox' : Whole(outbox'[i])
      BY <2>1, <2>2
  <2>4. \A i \in DOMAIN channel' : Whole(channel'[i])
      BY <2>1, <2>2
  <2> QED BY <1>2, <2>3, <2>4
<1>8. CASE Connected \/ StreamOpened \/ CloseChannel
    BY <1>3, <1>8 DEF Connected, StreamOpened, CloseChannel
<1>9. CASE StreamStops \/ AttemptTimesOut \/ AttemptFails \/ EmptyResponse
    BY <1>3, <1>9 DEF StreamStops, AttemptTimesOut, AttemptFails, EmptyResponse
<1> QED
    BY <1>5, <1>6, <1>7, <1>8, <1>9 DEF FetchProgress, FetchFault

\* A step of a processor task reports only what it has written.
LEMMA TaskInv ==
    ASSUME Inv, NEW t \in Tasks, TaskRuns(t)
    PROVE  ResultsAreWritten' /\ StatusCovered'
<1> USE DEF fetchVars, streamVars, gapVars, taskVars, SetTask
<1>1. /\ task_pc \in [Tasks -> {"fetch", "process", "report", "done"}]
      /\ task_batch \in [Tasks -> TransactionsPBResponse \cup {NoBatch}]
    BY DEF Inv, TypeOK
<1>2. CASE FetchTransactions(t)
  <2>1. /\ channel \in Seq(TransactionsPBResponse)
        /\ channel # <<>>
        /\ channel' = Tail(channel)
      BY <1>2 DEF FetchTransactions, Inv, TypeOK, FetchTypeOK
  <2>2. \A i \in 1 .. Len(channel) : Whole(channel[i])
    <3>1. \A i \in DOMAIN channel : Whole(channel[i])
        BY Zenon DEF Inv, ResultsAreWritten
    <3>2. DOMAIN channel = 1 .. Len(channel)
      <4> HIDE DEF TransactionsPBResponse
      <4> QED BY <2>1
    <3> QED BY <3>1, <3>2, Zenon
  <2>3. /\ Whole(Head(channel))
        /\ \A i \in DOMAIN channel' : Whole(channel'[i])
    <3> HIDE DEF TransactionsPBResponse
    <3> QED BY <2>1, <2>2
  <2>4. \A u \in Tasks :
            /\ task_pc'[u] \in {"process", "report"} => Whole(task_batch'[u])
            /\ task_pc'[u] = "report" => task_batch'[u].txns \subseteq committed'
      BY <1>1, <1>2, <2>3 DEF FetchTransactions, Inv, ResultsAreWritten
  <2> QED BY <1>2, <2>3, <2>4
          DEF FetchTransactions, Inv, ResultsAreWritten, StatusCovered, Written,
              WrittenUpTo, Whole
<1>3. CASE DoProcessor(t)
  <2>1. /\ committed \subseteq committed'
        /\ task_batch[t].txns \subseteq committed'
        /\ task_batch' = task_batch
      BY <1>1, <1>3 DEF DoProcessor
  <2>2. \A u \in Tasks :
            /\ task_pc'[u] \in {"process", "report"} => Whole(task_batch'[u])
            /\ task_pc'[u] = "report" => task_batch'[u].txns \subseteq committed'
      BY <1>1, <1>3, <2>1 DEF DoProcessor, Inv, ResultsAreWritten
  <2>3. StatusCovered'
      BY <1>3, <2>1 DEF DoProcessor, Inv, StatusCovered
  <2> QED BY <1>3, <2>1, <2>2, <2>3
          DEF DoProcessor, Inv, ResultsAreWritten, Written, WrittenUpTo, Whole
<1>4. CASE SendResult(t)
  <2>1. Written(Result(task_batch[t]))
      BY <1>4 DEF SendResult, Inv, ResultsAreWritten, Written, Whole, Result
  <2>2. /\ gap_channel \in Seq(Results)
        /\ Result(task_batch[t]) \in Results
        /\ gap_channel' = Append(gap_channel, Result(task_batch[t]))
      BY <1>4 DEF SendResult, Inv, TypeOK, Result, Results, TransactionsPBResponse
  <2>3. \A i \in DOMAIN gap_channel : Written(gap_channel[i])
      BY Zenon DEF Inv, ResultsAreWritten
  <2>4. \A i \in DOMAIN gap_channel' : Written(gap_channel'[i])
    <3>1. \A i \in DOMAIN gap_channel' :
            \/ i \in DOMAIN gap_channel /\ gap_channel'[i] = gap_channel[i]
            \/ gap_channel'[i] = Result(task_batch[t])
      <4> HIDE DEF Results, Result
      <4> QED BY <2>2
    <3> QED BY <2>1, <2>3, <3>1, Zenon
  <2>5. \A u \in Tasks :
            /\ task_pc'[u] \in {"process", "report"} => Whole(task_batch'[u])
            /\ task_pc'[u] = "report" => task_batch'[u].txns \subseteq committed'
      BY <1>1, <1>4 DEF SendResult, Inv, ResultsAreWritten
  <2> QED BY <1>4, <2>4, <2>5
          DEF SendResult, Inv, ResultsAreWritten, StatusCovered, Written,
              WrittenUpTo, Whole
<1>5. CASE TaskExits(t)
  <2>1. \A u \in Tasks :
            /\ task_pc'[u] \in {"process", "report"} => Whole(task_batch'[u])
            /\ task_pc'[u] = "report" => task_batch'[u].txns \subseteq committed'
      BY <1>1, <1>5 DEF TaskExits, Inv, ResultsAreWritten
  <2> QED BY <1>5, <2>1
          DEF TaskExits, Inv, ResultsAreWritten, StatusCovered, Written,
              WrittenUpTo, Whole
<1> QED BY <1>2, <1>3, <1>4, <1>5 DEF TaskRuns

\* A step of the gap detector extends the prefix only over written results, and
\* stores only the end of the prefix.
LEMMA GapInv ==
    ASSUME Inv, ReceiveResult \/ GapDetectorRuns
    PROVE  ResultsAreWritten' /\ StatusCovered'
<1> USE DEF fetchVars, streamVars, taskVars
<1>1. /\ UNCHANGED <<outbox, channel, taskVars, committed>>
      /\ \A i \in DOMAIN outbox : Whole(outbox[i])
      /\ \A i \in DOMAIN channel : Whole(channel[i])
      /\ \A t \in Tasks :
            /\ task_pc[t] \in {"process", "report"} => Whole(task_batch[t])
            /\ task_pc[t] = "report" => task_batch[t].txns \subseteq committed
      /\ \A r \in seen_versions : r \in Results /\ Written(r)
      /\ gap_channel \in Seq(Results)
      /\ \A i \in 1 .. Len(gap_channel) : Written(gap_channel[i])
    BY DEF ReceiveResult, GapDetectorRuns, Inv, ResultsAreWritten, TypeOK, GapTypeOK
<1>2. ASSUME \A i \in DOMAIN gap_channel' : Written(gap_channel'[i]),
             \A r \in seen_versions' : Written(r),
             WrittenUpTo(next_version_to_process' - 1),
             gap_pc' = "chain" => WrittenUpTo(new_prev_batch'.end_version),
             last_success_batch' # NoBatch =>
                WrittenUpTo(last_success_batch'.end_version)
      PROVE  ResultsAreWritten'
    BY <1>1, <1>2 DEF ResultsAreWritten, Written, WrittenUpTo, Whole
<1>3. CASE ReceiveResult
  <2> DEFINE r == Head(gap_channel)
  <2>1. /\ gap_channel # <<>>
        /\ gap_channel' = Tail(gap_channel)
        /\ ProcessVersions(r)
      BY <1>3 DEF ReceiveResult
  <2>2. /\ r \in Results
        /\ Written(r)
        /\ \A i \in DOMAIN gap_channel' : Written(gap_channel'[i])
    <3> HIDE DEF Results
    <3> QED BY <1>1, <2>1
  <2> HIDE DEF r
  <2>3. StatusCovered'
      BY <1>1, <2>1 DEF ProcessVersions, Inv, StatusCovered
  <2>4. CASE gap_pc' = "report"
      BY <1>1, <1>2, <2>1, <2>2, <2>3, <2>4
      DEF ProcessVersions, InsertSeen, Inv, ResultsAreWritten
  <2>5. CASE gap_pc' = "chain"
    <3>1. r.start_version = next_version_to_process /\ new_prev_batch' = r
        BY <2>1, <2>5 DEF ProcessVersions
    <3>2. WrittenUpTo(r.start_version - 1)
        BY <3>1 DEF Inv, ResultsAreWritten
    <3>3. WrittenUpTo(r.end_version)
        BY <2>2, <3>2, PrefixExtends
    <3> QED BY <1>1, <1>2, <2>1, <2>2, <2>3, <2>5, <3>1, <3>3
            DEF ProcessVersions, Inv, ResultsAreWritten
  <2> QED BY <2>1, <2>4, <2>5 DEF ProcessVersions
<1>4. ASSUME GapDetectorRuns
      PROVE  \A i \in DOMAIN gap_channel' : Written(gap_channel'[i])
    BY <1>4 DEF GapDetectorRuns, Inv, ResultsAreWritten
<1>5. CASE GapDetectorRuns /\ FollowChain
  <2>1. PICK s \in seen_versions :
            /\ s.start_version = new_prev_batch.end_version + 1
            /\ seen_versions' = seen_versions \ {s}
            /\ new_prev_batch' = s
      BY <1>5 DEF FollowChain
  <2>2. /\ WrittenUpTo(new_prev_batch.end_version)
        /\ new_prev_batch \in Results
      BY <1>5 DEF FollowChain, Inv, ResultsAreWritten, TypeOK, GapTypeOK
  <2>3. s.start_version - 1 = new_prev_batch.end_version
      BY <2>1, <2>2 DEF Results
  <2>4. WrittenUpTo(s.end_version)
      BY <1>1, <2>1, <2>2, <2>3, PrefixExtends
  <2>5. StatusCovered'
      BY <1>1, <1>5 DEF FollowChain, Inv, StatusCovered
  <2> QED BY <1>1, <1>2, <1>4, <1>5, <2>1, <2>4, <2>5
          DEF FollowChain, Inv, ResultsAreWritten
<1>6. CASE GapDetectorRuns /\ UpdatePrevBatch
  <2>1. /\ WrittenUpTo(new_prev_batch.end_version)
        /\ new_prev_batch \in Results
        /\ next_version_to_process' = new_prev_batch.end_version + 1
        /\ last_success_batch' = new_prev_batch
      BY <1>6 DEF UpdatePrevBatch, Inv, ResultsAreWritten, TypeOK, GapTypeOK
  <2>2. next_version_to_process' - 1 = new_prev_batch.end_version
      BY <2>1 DEF Results
  <2>3. StatusCovered'
      BY <1>1, <1>6 DEF UpdatePrevBatch, Inv, StatusCovered
  <2> QED BY <1>1, <1>2, <1>4, <1>6, <2>1, <2>2, <2>3 DEF UpdatePrevBatch
<1>7. CASE GapDetectorRuns /\ UpdateLastProcessedVersion
  <2>1. WrittenUpTo(last_success_batch.end_version)
      BY <1>7 DEF UpdateLastProcessedVersion, Inv, ResultsAreWritten
  <2>2. status' = status \/ status' = last_success_batch.end_version
      BY <1>7 DEF UpdateLastProcessedVersion, StatusUpsert
  <2>3. StatusCovered'
      BY <1>1, <2>1, <2>2 DEF Inv, StatusCovered, WrittenUpTo
  <2> QED BY <1>1, <1>2, <1>4, <1>7, <2>3
          DEF UpdateLastProcessedVersion, Inv, ResultsAreWritten
<1>8. CASE GapDetectorRuns /\ SkipStatusUpdate
    BY <1>1, <1>2, <1>4, <1>8
    DEF SkipStatusUpdate, Inv, ResultsAreWritten, StatusCovered
<1> QED BY <1>3, <1>5, <1>6, <1>7, <1>8 DEF GapDetectorRuns, GapStep

\* Nothing is stored, so nothing is covered, at the beginning.
LEMMA InitInv == Init => Inv
<1> SUFFICES ASSUME Init PROVE Inv
    OBVIOUS
<1>1. TypeOK
    BY InitType
<1>2. StatusCovered
    BY FirstVersionType DEF Init, StatusCovered, Retained, NoStatus
<1>3. WrittenUpTo(next_version_to_process - 1)
    BY FirstVersionType DEF Init, GapInit, WrittenUpTo, Retained
<1>4. /\ outbox = <<>> /\ channel = <<>> /\ gap_channel = <<>>
      /\ \A t \in Tasks : task_pc[t] = "fetch"
      /\ seen_versions = {} /\ gap_pc = "recv" /\ last_success_batch = NoBatch
    BY DEF Init, FetchInit, GapInit, TasksIdle
<1>5. ResultsAreWritten
    BY <1>3, <1>4 DEF ResultsAreWritten
<1> QED BY <1>1, <1>2, <1>5 DEF Inv

\* Every step of the worker preserves the inductive invariant.
LEMMA NextInv ==
    ASSUME Inv, [Next]_vars, MaxBatch <= PbChannelTxnChunkSize
    PROVE  Inv'
<1>1. TypeOK'
    BY NextType DEF Inv
<1> SUFFICES ResultsAreWritten' /\ StatusCovered'
    BY <1>1 DEF Inv
<1>2. CASE Run
    BY <1>2, RunInv
<1>3. CASE RunReturns \/ UNCHANGED vars
    BY <1>3
    DEF RunReturns, vars, fetchVars, streamVars, taskVars, gapVars, Inv,
        ResultsAreWritten, StatusCovered, Written, WrittenUpTo, Whole
<1>4. CASE Crash \/ FetcherPanics \/ (\E t \in Tasks : ProcessorPanics(t))
    BY <1>4, DieInv DEF Crash, FetcherPanics, ProcessorPanics
<1>5. CASE StreamFails \/ FetcherRuns
    BY <1>5, FetchInv DEF StreamFails, FetcherRuns
<1>6. CASE \E t \in Tasks : TaskRuns(t)
    BY <1>6, TaskInv
<1>7. CASE ReceiveResult \/ GapDetectorRuns
    BY <1>7, GapInv
<1> QED BY <1>2, <1>3, <1>4, <1>5, <1>6, <1>7 DEF Next, Exited

\* As long as no response of the data service is larger than the chunk size,
\* every transaction that the filter keeps, up to the version stored in the
\* processor_status row, is in the database: whatever the number of processor
\* tasks and the order in which they finish, through every reconnection, panic,
\* kill and restart.
THEOREM StatusIsCovered ==
    ASSUME MaxBatch <= PbChannelTxnChunkSize
    PROVE  Spec => []StatusCovered
<1>1. Inv /\ [Next]_vars => Inv'
    BY NextInv
<1>2. Inv => StatusCovered
    BY DEF Inv
<1> QED BY InitInv, <1>1, <1>2, PTL DEF Spec

\* Under the same condition a result stands for written rows wherever it is
\* between a processor task and the stored version.
THEOREM ResultsStayWritten ==
    ASSUME MaxBatch <= PbChannelTxnChunkSize
    PROVE  Spec => []ResultsAreWritten
<1>1. Inv /\ [Next]_vars => Inv'
    BY NextInv
<1>2. Inv => ResultsAreWritten
    BY DEF Inv
<1> QED BY InitInv, <1>1, <1>2, PTL DEF Spec

-----------------------------------------------------------------------------
(* Refinement *)

\* Only a status update of the gap detector changes the stored version.
LEMMA StatusSteps ==
    ASSUME TypeOK, [Next]_vars
    PROVE  \/ UNCHANGED status
           \/ status <= status' /\ UNCHANGED committed
<1> USE DEF fetchVars, streamVars, gapVars, taskVars
<1>1. CASE Run \/ RunReturns \/ UNCHANGED vars
    BY <1>1 DEF Run, RunReturns, vars
<1>2. CASE Crash \/ FetcherPanics \/ (\E t \in Tasks : ProcessorPanics(t))
    BY <1>2 DEF Crash, FetcherPanics, ProcessorPanics, Die
<1>3. CASE StreamFails \/ FetcherRuns
    BY <1>3 DEF StreamFails, FetcherRuns
<1>4. CASE \E t \in Tasks : TaskRuns(t)
    BY <1>4 DEF TaskRuns, FetchTransactions, DoProcessor, SendResult, TaskExits
<1>5. CASE ReceiveResult
    BY <1>5 DEF ReceiveResult, ProcessVersions
<1>6. CASE GapDetectorRuns
  <2>1. CASE UpdateLastProcessedVersion
    <3>1. last_success_batch \in Results /\ status \in Int
        BY <2>1 DEF UpdateLastProcessedVersion, TypeOK, GapTypeOK, NoStatus
    <3> QED BY <1>6, <2>1, <3>1
            DEF GapDetectorRuns, UpdateLastProcessedVersion, StatusUpsert, Results
  <2>2. CASE FollowChain \/ UpdatePrevBatch \/ SkipStatusUpdate
      BY <2>2 DEF FollowChain, UpdatePrevBatch, SkipStatusUpdate
  <2> QED BY <1>6, <2>1, <2>2 DEF GapDetectorRuns, GapStep
<1> QED BY <1>1, <1>2, <1>3, <1>4, <1>5, <1>6 DEF Next, Exited

\* The stored version never decreases, whatever versions a restart processes
\* again: the WHERE clause of the status upsert is enough.
THEOREM StatusIsMonotone == Spec => StatusNeverRewinds
<1>1. TypeOK /\ [Next]_vars => [status <= status']_vars
  <2> SUFFICES ASSUME TypeOK, [Next]_vars
               PROVE  status <= status'
      OBVIOUS
  <2>1. status \in Int
      BY DEF TypeOK, GapTypeOK, NoStatus
  <2> QED BY <2>1, StatusSteps
<1> QED BY TypeInvariant, <1>1, PTL DEF Spec, StatusNeverRewinds

\* The database only gains transactions, and only ones the filter keeps.
LEMMA CommittedSteps ==
    ASSUME Inv, committed \subseteq Included, [Next]_vars
    PROVE  committed \subseteq committed' /\ committed' \subseteq Included
<1> USE DEF fetchVars, streamVars, gapVars, taskVars
<1>1. \A t \in Tasks : task_pc[t] \in {"process", "report"} =>
                            task_batch[t].txns \subseteq Included
    BY DEF Inv, ResultsAreWritten, Whole, Retained
<1>2. CASE Run \/ RunReturns \/ UNCHANGED vars
    BY <1>2 DEF Run, RunReturns, vars
<1>3. CASE Crash \/ FetcherPanics \/ (\E t \in Tasks : ProcessorPanics(t))
  <2>1. BeingWritten \subseteq Included
      BY <1>1 DEF BeingWritten
  <2>2. \E written \in SUBSET BeingWritten : committed' = committed \cup written
      BY <1>3 DEF Crash, FetcherPanics, ProcessorPanics
  <2> QED BY <2>1, <2>2
<1>4. CASE StreamFails \/ FetcherRuns
    BY <1>4 DEF StreamFails, FetcherRuns
<1>5. ASSUME NEW t \in Tasks, TaskRuns(t)
      PROVE  committed \subseteq committed' /\ committed' \subseteq Included
    BY <1>1, <1>5
    DEF TaskRuns, FetchTransactions, DoProcessor, SendResult, TaskExits
<1>6. CASE ReceiveResult \/ GapDetectorRuns
    BY <1>6 DEF ReceiveResult, GapDetectorRuns
<1> QED BY <1>2, <1>3, <1>4, <1>5, <1>6 DEF Next, Exited

\* Under the same condition the worker implements AtLeastOnce: for a reader of
\* the database it does nothing but index transactions it should index, and
\* move its checkpoint forward over a prefix that is completely indexed.
THEOREM Refinement ==
    ASSUME MaxBatch <= PbChannelTxnChunkSize
    PROVE  Spec => ImplementsAtLeastOnce
<1> DEFINE RInv == Inv /\ committed \subseteq Included
<1>1. Init => RInv /\ Promise!ALOInit
    BY InitInv DEF Init, Promise!ALOInit, NoStatus
<1>2. RInv /\ [Next]_vars => RInv'
    BY NextInv, CommittedSteps
<1>3. RInv /\ [Next]_vars => [Promise!ALONext]_(Promise!aloVars)
  <2> SUFFICES ASSUME RInv, [Next]_vars
               PROVE  Promise!ALONext
      OBVIOUS
  <2>1. committed \subseteq committed' /\ committed' \subseteq Included
      BY CommittedSteps
  <2>2. CASE UNCHANGED status
      BY <2>1, <2>2 DEF Promise!ALONext, Promise!Index
  <2>3. CASE status <= status' /\ UNCHANGED committed
    <3>1. StatusCovered'
        BY NextInv DEF Inv
    <3>2. \A v \in Included :
              FirstVersion <= v /\ v <= status' => v \in committed
      <4>1. Included \subseteq Nat
          BY FetcherAssumption
      <4>2. status' \in Int /\ FirstVersion \in Nat
          BY NextType, FirstVersionType DEF Inv, TypeOK, GapTypeOK, NoStatus
      <4> QED BY <2>3, <3>1, <4>1, <4>2 DEF StatusCovered, Retained
    <3> QED BY <2>3, <3>2 DEF Promise!ALONext, Promise!Advance
  <2>4. TypeOK
      BY DEF Inv
  <2> QED BY <2>2, <2>3, <2>4, StatusSteps
<1> HIDE DEF RInv
<1> QED
    BY <1>1, <1>2, <1>3, PTL DEF Spec, ImplementsAtLeastOnce, Promise!ALOSpec

-----------------------------------------------------------------------------
(* Nothing is skipped *)

\* The elements of a queue are its first one and those of the rest.
LEMMA HeadAndTail ==
    ASSUME NEW S, NEW q \in Seq(S), q # <<>>
    PROVE  {q[i] : i \in DOMAIN q} = {Head(q)} \cup {Tail(q)[i] : i \in DOMAIN Tail(q)}
<1>1. /\ Len(q) \in Nat /\ Len(q) >= 1 /\ DOMAIN q = 1 .. Len(q)
      /\ Head(q) = q[1]
      /\ DOMAIN Tail(q) = 1 .. Len(q) - 1
      /\ \A i \in 1 .. Len(q) - 1 : Tail(q)[i] = q[i + 1]
    OBVIOUS
<1>2. ASSUME NEW i \in DOMAIN q
      PROVE  q[i] \in {Head(q)} \cup {Tail(q)[j] : j \in DOMAIN Tail(q)}
  <2>1. CASE i = 1
      BY <1>1, <2>1
  <2>2. CASE i # 1
    <3>1. i - 1 \in 1 .. Len(q) - 1 /\ (i - 1) + 1 = i
        BY <1>1, <2>2
    <3>2. q[i] = Tail(q)[i - 1]
        BY <1>1, <3>1
    <3> QED BY <1>1, <3>1, <3>2
  <2> QED BY <2>1, <2>2
<1>3. ASSUME NEW i \in DOMAIN Tail(q)
      PROVE  Tail(q)[i] \in {q[j] : j \in DOMAIN q}
  <2>1. i + 1 \in DOMAIN q /\ Tail(q)[i] = q[i + 1]
      BY <1>1
  <2> QED BY <2>1
<1>4. Head(q) \in {q[j] : j \in DOMAIN q}
    BY <1>1
<1> QED BY <1>2, <1>3, <1>4

\* The elements of a queue with one more at its end.
LEMMA AppendElements ==
    ASSUME NEW S, NEW q \in Seq(S), NEW x \in S
    PROVE  {Append(q, x)[i] : i \in DOMAIN Append(q, x)} =
                {q[i] : i \in DOMAIN q} \cup {x}
<1>1. /\ Len(q) \in Nat /\ DOMAIN q = 1 .. Len(q)
      /\ DOMAIN Append(q, x) = 1 .. Len(q) + 1
      /\ \A i \in 1 .. Len(q) : Append(q, x)[i] = q[i]
      /\ Append(q, x)[Len(q) + 1] = x
    OBVIOUS
<1>2. \A i \in 1 .. Len(q) + 1 : i \in 1 .. Len(q) \/ i = Len(q) + 1
    BY <1>1
<1>3. \A i \in 1 .. Len(q) : i \in 1 .. Len(q) + 1
    BY <1>1
<1>4. Len(q) + 1 \in 1 .. Len(q) + 1
    BY <1>1
<1> QED BY <1>1, <1>2, <1>3, <1>4, Zenon

\* The inductive invariant of what has been fetched.
SkipInv == TypeOK /\ FetchConsistent /\ NothingSkipped /\ ExitIsComplete

\* The transactions with rows in the database or in a message under way.
Reached == committed \cup UNION {m.txns : m \in InFlight}

\* A fresh fetcher is consistent.
LEMMA ResetConsistent ==
    ASSUME NEW v \in Nat, FetchReset(v), SpawnTasks
    PROVE  FetchConsistent'
BY DEF FetchReset, SpawnTasks, FetchConsistent

\* A step of the fetcher loses no message and adds all the messages of the next
\* response.
LEMMA FetchReaches ==
    ASSUME SkipInv, FetchEffect, UNCHANGED <<taskVars, committed>>
    PROVE  /\ Reached \subseteq Reached'
           /\ \A v \in Retained(FirstVersion, last_fetched_version') :
                 \/ v \in Retained(FirstVersion, last_fetched_version)
                 \/ v \in Reached'
<1> DEFINE waiting == {outbox[i] : i \in DOMAIN outbox}
           queued == {channel[i] : i \in DOMAIN channel}
           held == {task_batch[t] : t \in {u \in Tasks : task_pc[u] = "process"}}
<1>1. /\ outbox \in Seq(TransactionsPBResponse)
      /\ channel \in Seq(TransactionsPBResponse)
      /\ last_fetched_version \in Int
      /\ -1 <= last_fetched_version
    BY DEF SkipInv, TypeOK, FetchTypeOK
<1>2. /\ InFlight = (waiting \cup queued) \cup held
      /\ InFlight' = (waiting' \cup queued') \cup held'
      /\ held' = held
    BY DEF InFlight, taskVars
<1>3. CASE UNCHANGED <<outbox, channel, last_fetched_version>>
    BY <1>2, <1>3 DEF Reached
<1>4. CASE /\ outbox # <<>>
           /\ channel' = Append(channel, Head(outbox))
           /\ outbox' = Tail(outbox)
           /\ UNCHANGED last_fetched_version
  <2> HIDE DEF TransactionsPBResponse
  <2>1. waiting = {Head(outbox)} \cup waiting'
    <3>1. {outbox[i] : i \in DOMAIN outbox} =
                {Head(outbox)} \cup {Tail(outbox)[i] : i \in DOMAIN Tail(outbox)}
        BY <1>1, <1>4, HeadAndTail
    <3>2. waiting' = {Tail(outbox)[i] : i \in DOMAIN Tail(outbox)}
        BY <1>4, Zenon
    <3> QED BY <3>1, <3>2, Zenon
  <2>2. queued' = queued \cup {Head(outbox)}
    <3>1. Head(outbox) \in TransactionsPBResponse
        BY <1>1, <1>4
    <3> DEFINE c == Append(channel, Head(outbox))
    <3>2. {c[i] : i \in DOMAIN c} = {channel[i] : i \in DOMAIN channel} \cup {Head(outbox)}
        BY <1>1, <3>1, AppendElements
    <3>3. queued' = {c[i] : i \in DOMAIN c}
        BY <1>4, Zenon
    <3> QED BY <3>2, <3>3, Zenon
  <2> HIDE DEF waiting, queued, held
  <2>3. InFlight' = InFlight
      BY <1>2, <2>1, <2>2
  <2> QED BY <1>4, <2>3 DEF Reached
<1>5. CASE /\ outbox = <<>>
           /\ last_fetched_version' \in Nat
           /\ last_fetched_version < last_fetched_version'
           /\ outbox' = Messages(last_fetched_version + 1, last_fetched_version')
           /\ UNCHANGED channel
  <2> DEFINE first == last_fetched_version + 1
             last == last_fetched_version'
             M == Messages(first, last)
  <2>1. first \in Nat /\ last \in Nat
      BY <1>1, <1>5
  <2>2. /\ \A v \in Retained(first, last) : \E i \in 1 .. Len(M) : v \in M[i].txns
        /\ DOMAIN M = 1 .. Len(M)
    <3> HIDE DEF first, last
    <3>1. M \in Seq(TransactionsPBResponse)
        BY <2>1, MessagesType
    <3>2. DOMAIN M = 1 .. Len(M)
      <4> HIDE DEF M, TransactionsPBResponse
      <4> QED BY <3>1
    <3> QED BY <2>1, <3>2, MessagesContent
  <2>3. waiting = {} /\ queued' = queued /\ waiting' = {M[i] : i \in DOMAIN M}
      BY <1>5
  <2> HIDE DEF waiting, queued, held, M
  <2>4. InFlight \subseteq InFlight'
      BY <1>2, <2>3
  <2>5. Reached \subseteq Reached'
      BY <2>4 DEF Reached
  <2>6. ASSUME NEW v \in Retained(first, last)
        PROVE  v \in Reached'
    <3>1. PICK i \in DOMAIN M : v \in M[i].txns
        BY <2>2
    <3>2. M[i] \in InFlight'
        BY <1>2, <2>3
    <3> QED BY <3>1, <3>2 DEF Reached
  <2>7. ASSUME NEW v \in Retained(FirstVersion, last)
        PROVE  v \in Retained(FirstVersion, last_fetched_version)
               \/ v \in Retained(first, last)
      BY <1>1, <2>1, FirstVersionType DEF Retained
  <2> HIDE DEF first, last
  <2> QED BY <2>5, <2>6, <2>7 DEF last
<1> QED BY <1>3, <1>4, <1>5 DEF FetchEffect

\* A step of a processor task passes a message on, or writes it.
LEMMA TaskReaches ==
    ASSUME TypeOK, NEW t \in Tasks, TaskRuns(t)
    PROVE  Reached \subseteq Reached'
<1> USE DEF fetchVars, streamVars, SetTask
<1> DEFINE waiting == {outbox[i] : i \in DOMAIN outbox}
           queued == {channel[i] : i \in DOMAIN channel}
           held == {task_batch[u] : u \in {u \in Tasks : task_pc[u] = "process"}}
<1>1. /\ InFlight = (waiting \cup queued) \cup held
      /\ InFlight' = (waiting' \cup queued') \cup held'
    BY DEF InFlight
<1>2. /\ task_pc \in [Tasks -> {"fetch", "process", "report", "done"}]
      /\ task_batch \in [Tasks -> TransactionsPBResponse \cup {NoBatch}]
      /\ channel \in Seq(TransactionsPBResponse)
    BY DEF TypeOK, FetchTypeOK
<1>3. CASE FetchTransactions(t)
  <2>1. waiting' = waiting /\ UNCHANGED committed
      BY <1>3 DEF FetchTransactions
  <2>2. queued = {Head(channel)} \cup queued'
    <3> HIDE DEF TransactionsPBResponse
    <3>1. channel # <<>> /\ channel' = Tail(channel)
        BY <1>3 DEF FetchTransactions
    <3>2. {channel[i] : i \in DOMAIN channel} =
                {Head(channel)} \cup {Tail(channel)[i] : i \in DOMAIN Tail(channel)}
        BY <1>2, <3>1, HeadAndTail
    <3>3. queued' = {Tail(channel)[i] : i \in DOMAIN Tail(channel)}
        BY <3>1, Zenon
    <3> QED BY <3>2, <3>3, Zenon
  <2>3. Head(channel) \in held' /\ held \subseteq held'
    <3>1. /\ task_pc[t] = "fetch"
          /\ task_pc' = [task_pc EXCEPT ![t] = "process"]
          /\ task_batch' = [task_batch EXCEPT ![t] = Head(channel)]
        BY <1>3 DEF FetchTransactions
    <3>2. task_pc'[t] = "process" /\ task_batch'[t] = Head(channel)
        BY <1>2, <3>1
    <3>3. \A u \in Tasks : task_pc[u] = "process" =>
                task_pc'[u] = "process" /\ task_batch'[u] = task_batch[u]
        BY <1>2, <3>1
    <3> QED BY <3>2, <3>3
  <2> HIDE DEF waiting, queued, held
  <2>4. InFlight \subseteq InFlight'
      BY <1>1, <2>1, <2>2, <2>3
  <2> QED BY <2>1, <2>4 DEF Reached
<1>4. CASE DoProcessor(t)
  <2>1. /\ waiting' = waiting
        /\ queued' = queued
        /\ committed' = committed \cup task_batch[t].txns
      BY <1>4 DEF DoProcessor
  <2>2. held \subseteq held' \cup {task_batch[t]}
    <3>1. \A u \in Tasks : u # t =>
                task_pc'[u] = task_pc[u] /\ task_batch'[u] = task_batch[u]
        BY <1>2, <1>4 DEF DoProcessor
    <3> QED BY <3>1
  <2> HIDE DEF waiting, queued, held
  <2>3. InFlight \subseteq InFlight' \cup {task_batch[t]}
      BY <1>1, <2>1, <2>2
  <2> QED BY <2>1, <2>3 DEF Reached
<1>5. CASE SendResult(t) \/ TaskExits(t)
  <2>1. waiting' = waiting /\ queued' = queued /\ UNCHANGED committed
      BY <1>5 DEF SendResult, TaskExits
  <2>2. held \subseteq held'
    <3>1. task_pc[t] # "process"
        BY <1>5 DEF SendResult, TaskExits
    <3>2. \A u \in Tasks : u # t =>
                task_pc'[u] = task_pc[u] /\ task_batch'[u] = task_batch[u]
        BY <1>2, <1>5 DEF SendResult, TaskExits
    <3> QED BY <3>1, <3>2
  <2> HIDE DEF waiting, queued, held
  <2>3. InFlight \subseteq InFlight'
      BY <1>1, <2>1, <2>2
  <2> QED BY <2>1, <2>3 DEF Reached
<1> QED BY <1>3, <1>4, <1>5 DEF TaskRuns

\* Every step keeps what has been fetched in the database or on its way.
LEMMA NextSkip ==
    ASSUME SkipInv, StatusCovered \/ StartingVersion # NoVersion, [Next]_vars
    PROVE  SkipInv'
<1> USE DEF fetchVars, streamVars, taskVars
<1>1. TypeOK'
    BY NextType DEF SkipInv
<1>2. /\ TypeOK
      /\ FetchConsistent
      /\ process = "running" =>
            Retained(FirstVersion, last_fetched_version) \subseteq Reached
    BY DEF SkipInv, NothingSkipped, Reached
<1>3. ASSUME FetchConsistent', process' # "exited",
             process' = "running" =>
                Retained(FirstVersion, last_fetched_version') \subseteq Reached'
      PROVE  SkipInv'
  <2>1. NothingSkipped'
      BY <1>3 DEF NothingSkipped, Reached
  <2>2. ExitIsComplete'
      BY <1>3 DEF ExitIsComplete
  <2> QED BY <1>1, <1>3, <2>1, <2>2 DEF SkipInv
<1>4. CASE Run
  <2>1. FinalStartVersion \in Nat
      BY <1>2, StartVersionType
  <2>2. FetchConsistent'
      BY <1>4, <2>1, ResetConsistent DEF Run
  <2>3. Retained(FirstVersion, last_fetched_version') \subseteq committed'
      BY <1>2, <1>4, StartIsCovered DEF Run, FetchReset, WrittenUpTo
  <2> QED BY <1>3, <1>4, <2>2, <2>3 DEF Run, Reached
<1>5. CASE RunReturns
  <2>1. /\ fetch_pc = "closed"
        /\ \A t \in Tasks : task_pc[t] = "done"
        /\ process = "running"
        /\ UNCHANGED <<fetchVars, channel, committed>>
        /\ process' = "exited"
      BY <1>5 DEF RunReturns
  <2>2. /\ outbox = <<>>
        /\ channel = <<>>
        /\ IsEnd(next_version_to_fetch)
        /\ next_version_to_fetch = last_fetched_version + 1
      BY <1>2, <2>1 DEF FetchConsistent
  <2>3. InFlight = {}
      BY <2>1, <2>2 DEF InFlight
  <2>4. Retained(FirstVersion, last_fetched_version) \subseteq committed
      BY <1>2, <2>1, <2>3 DEF Reached
  <2>5. /\ EndingVersion \in Nat
        /\ last_fetched_version \in Int
        /\ EndingVersion <= last_fetched_version
      BY <1>2, <2>2, FetcherAssumption DEF IsEnd, TypeOK, FetchTypeOK
  <2>6. Retained(FirstVersion, EndingVersion) \subseteq committed
      BY <2>4, <2>5, FirstVersionType DEF Retained
  <2>7. FetchConsistent'
      BY <1>2, <2>1 DEF FetchConsistent, IsEnd
  <2> QED BY <1>1, <2>1, <2>6, <2>7 DEF SkipInv, NothingSkipped, ExitIsComplete
<1>6. CASE Crash \/ FetcherPanics \/ (\E t \in Tasks : ProcessorPanics(t))
  <2>1. Die
      BY <1>6 DEF Crash, FetcherPanics, ProcessorPanics
  <2>2. FetchConsistent' /\ process' = "down"
      BY <2>1, ResetConsistent DEF Die
  <2> QED BY <1>3, <2>2
<1>7. CASE StreamFails \/ FetcherRuns
  <2>1. /\ process = "running"
        /\ FetchProgress \/ FetchFault
        /\ UNCHANGED <<process, taskVars, committed>>
      BY <1>7 DEF StreamFails, FetcherRuns
  <2>2. FetchConsistent' /\ FetchEffect
      BY <1>2, <2>1, FetchStep DEF TypeOK
  <2>3. Retained(FirstVersion, last_fetched_version') \subseteq Reached'
      BY <1>2, <2>1, <2>2, FetchReaches
  <2> QED BY <1>3, <2>1, <2>2, <2>3
<1>8. ASSUME NEW t \in Tasks, TaskRuns(t)
      PROVE  SkipInv'
  <2>1. /\ process = "running"
        /\ UNCHANGED <<process, fetchVars>>
        /\ fetch_pc = "closed" => channel' = channel
      BY <1>2, <1>8
      DEF TaskRuns, FetchTransactions, DoProcessor, SendResult, TaskExits,
          FetchConsistent
  <2>2. FetchConsistent'
      BY <1>2, <2>1 DEF FetchConsistent, IsEnd
  <2>3. Reached \subseteq Reached'
      BY <1>2, <1>8, TaskReaches
  <2> QED BY <1>2, <1>3, <2>1, <2>2, <2>3
<1>9. CASE ReceiveResult \/ GapDetectorRuns
  <2>1. process = "running" /\ UNCHANGED <<process, fetchVars, channel, taskVars, committed>>
      BY <1>9 DEF ReceiveResult, GapDetectorRuns
  <2>2. FetchConsistent'
      BY <1>2, <2>1 DEF FetchConsistent, IsEnd
  <2>3. Reached' = Reached
      BY <2>1 DEF Reached, InFlight
  <2> QED BY <1>2, <1>3, <2>1, <2>2, <2>3
<1>10. CASE UNCHANGED vars
  <2>1. UNCHANGED <<process, fetchVars, channel, taskVars, committed>>
      BY <1>10 DEF vars
  <2>2. FetchConsistent'
      BY <1>2, <2>1 DEF FetchConsistent, IsEnd
  <2>3. NothingSkipped' /\ ExitIsComplete'
      BY <2>1 DEF SkipInv, NothingSkipped, ExitIsComplete, InFlight
  <2> QED BY <1>1, <2>2, <2>3 DEF SkipInv
<1> QED
    BY <1>4, <1>5, <1>6, <1>7, <1>8, <1>9, <1>10 DEF Next, Exited

\* Nothing has been fetched before the first process.
LEMMA InitSkip == Init => SkipInv
<1> SUFFICES ASSUME Init PROVE SkipInv
    OBVIOUS
<1>1. FetchConsistent
    BY DEF Init, FetchInit, FetchConsistent
<1>2. NothingSkipped /\ ExitIsComplete
    BY DEF Init, NothingSkipped, ExitIsComplete
<1> QED BY <1>1, <1>2, InitType DEF SkipInv

\* When no response is larger than the chunk size, or the config sets the version
\* to start from, what has been fetched is never skipped.
LEMMA SkipInvariance ==
    ASSUME MaxBatch <= PbChannelTxnChunkSize \/ StartingVersion # NoVersion
    PROVE  Spec => []SkipInv
<1> DEFINE Resumable == StatusCovered \/ StartingVersion # NoVersion
<1>1. Spec => []Resumable
  <2>1. CASE MaxBatch <= PbChannelTxnChunkSize
    <3>1. Spec => []StatusCovered
        BY <2>1, StatusIsCovered
    <3>2. StatusCovered => Resumable
        OBVIOUS
    <3> HIDE DEF Resumable
    <3> QED BY <3>1, <3>2, PTL
  <2>2. CASE StartingVersion # NoVersion
    <3>1. Resumable
        BY <2>2
    <3> HIDE DEF Resumable
    <3> QED BY <3>1, PTL
  <2> QED BY <2>1, <2>2
<1>2. SkipInv /\ Resumable /\ [Next]_vars => SkipInv'
    BY NextSkip
<1> HIDE DEF Resumable
<1> QED BY InitSkip, <1>1, <1>2, PTL DEF Spec

\* If no response is broken into chunks, or the config names the starting version,
\* a transaction at or below last_fetched_version is in the
\* database or in a message under way: no handover between tasks, no reconnection
\* and no restart drops one.
THEOREM NothingIsSkipped ==
    ASSUME MaxBatch <= PbChannelTxnChunkSize \/ StartingVersion # NoVersion
    PROVE  Spec => []NothingSkipped
<1>1. SkipInv => NothingSkipped
    BY DEF SkipInv
<1> QED BY SkipInvariance, <1>1, PTL

\* If no response is broken into chunks, or the config names the starting version,
\* a worker that returns has indexed every transaction up to
\* its ending version, through whatever failures.
THEOREM ExitIsFinal ==
    ASSUME MaxBatch <= PbChannelTxnChunkSize \/ StartingVersion # NoVersion
    PROVE  Spec => []ExitIsComplete
<1>1. SkipInv => ExitIsComplete
    BY DEF SkipInv
<1> QED BY SkipInvariance, <1>1, PTL
=============================================================================
