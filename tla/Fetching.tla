------------------------------ MODULE Fetching ------------------------------
(***************************************************************************)
(* The fetcher with the simplest consumer: something that takes messages   *)
(* out of the channel one at a time and remembers them.                    *)
(***************************************************************************)
EXTENDS Fetcher

CONSTANT StartingVersion

ASSUME StartingVersionAssumption == StartingVersion \in Nat

VARIABLE received       \* the messages taken out of the channel, in order

vars == <<fetchVars, channel, faults, received>>

Init ==
    /\ FetchInit(StartingVersion)
    /\ channel = <<>>
    /\ faults = 0
    /\ received = <<>>

\* receiver.recv() in some processor task.
Receive ==
    /\ channel # <<>>
    /\ received' = Append(received, Head(channel))
    /\ channel' = Tail(channel)
    /\ UNCHANGED <<fetchVars, faults>>

Progress == FetchProgress /\ UNCHANGED received

Failure == FetchFault /\ UNCHANGED received

\* The task has returned, or its panic has ended the process.
Done ==
    /\ fetch_pc = "panic" \/ (fetch_pc = "closed" /\ channel = <<>>)
    /\ UNCHANGED vars

Next == Progress \/ Failure \/ Receive \/ Done

\* The task is polled, the data service answers requests it can answer, and the
\* consumers keep receiving.  Nothing makes a failure happen.
Spec ==
    /\ Init /\ [][Next]_vars
    /\ WF_vars(Progress)
    /\ WF_vars(Receive)

-----------------------------------------------------------------------------
TypeOK ==
    /\ FetchTypeOK
    /\ received \in Seq(TransactionsPBResponse)

\* Everything that has been fetched, in the order it leaves the fetcher.
Fetched == received \o channel \o outbox

TxnsOf(messages) == UNION {messages[i].txns : i \in DOMAIN messages}

\* Every transaction the filter keeps, from the starting version to the last
\* version fetched, is in exactly one message, and the messages are in version
\* order: reconnecting at next_version_to_fetch neither repeats nor skips one.
EachTransactionOnce ==
    /\ TxnsOf(Fetched) = Retained(StartingVersion, last_fetched_version)
    /\ \A i, j \in DOMAIN Fetched : i < j =>
          \A v \in Fetched[i].txns, w \in Fetched[j].txns : v < w

\* The version ranges of consecutive messages are adjacent, except that the
\* chunks of one response share their range; this is what the gap detector
\* builds on.
RangesAreAdjacent ==
    \A i \in 1 .. Len(Fetched) - 1 :
        LET m == Fetched[i]
            n == Fetched[i + 1]
        IN  \/ n.start_version = m.end_version + 1
            \/ /\ n.start_version = m.start_version
               /\ n.end_version = m.end_version

\* The fetcher returns only after the consumers have received all that it was
\* asked for ("we will make sure that all existing transactions are processed").
ClosedMeansDelivered ==
    fetch_pc = "closed" =>
        TxnsOf(received) = Retained(StartingVersion, last_fetched_version)
        /\ last_fetched_version >= EndingVersion

\* "Version to end indexing at": no transaction above it is sent to the
\* processor tasks.
NothingPastEnding ==
    EndingVersion # NoVersion =>
        \A v \in TxnsOf(Fetched) : v <= EndingVersion

\* With an ending version that the chain has reached the task does not run
\* forever: it delivers everything and returns, or it panics, and a panic has a
\* failure of the data service behind it.
FetcherFinishes ==
    <>(fetch_pc = "closed" \/ (fetch_pc = "panic" /\ faults > 0))
=============================================================================
