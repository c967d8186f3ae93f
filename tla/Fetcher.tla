------------------------------ MODULE Fetcher ------------------------------
(***************************************************************************)
(* The fetcher task of a worker (create_fetcher_loop and get_stream in     *)
(* grpc_stream.rs).  It keeps a gRPC stream of transactions open, turns    *)
(* every response into one or more TransactionsPBResponse messages and     *)
(* sends them into the bounded channel the processor tasks read.           *)
(*                                                                         *)
(* The data service is the environment.  A stream serves consecutive       *)
(* versions from the requested one on, in responses of up to MaxBatch      *)
(* transactions.  What goes wrong on its side (a timeout, an error, a      *)
(* broken stream, a response with a gap or without transactions) is        *)
(* counted in faults, of which there are at most MaxFaults.                *)
(***************************************************************************)
EXTENDS Integers, Sequences, FiniteSets

CONSTANTS
    NoVersion,                  \* None of an Option<u64>
    EndingVersion,              \* ending_version of the config, or NoVersion
    Included,                   \* versions that transaction_filter keeps
    PbChannelTxnChunkSize,      \* pb_channel_txn_chunk_size of the config
    BufferSize,                 \* BUFFER_SIZE, the capacity of the channels
    ReconnectionMaxRetries,     \* RECONNECTION_MAX_RETRIES
    LedgerHead,                 \* last version of the chain
    MaxBatch,                   \* most transactions in one response
    U64Size,                    \* number of values of a u64
    MaxFaults                   \* bound on the failures of the environment

ASSUME FetcherAssumption ==
    /\ NoVersion \notin Nat
    /\ EndingVersion \in Nat \cup {NoVersion}
    /\ EndingVersion # NoVersion => EndingVersion < U64Size
    /\ Included \subseteq Nat
    /\ PbChannelTxnChunkSize \in Nat \ {0}
    /\ BufferSize \in Nat \ {0}
    /\ ReconnectionMaxRetries \in Nat \ {0}
    /\ LedgerHead \in Nat
    /\ MaxBatch \in Nat \ {0}
    /\ U64Size \in Nat
    /\ LedgerHead < U64Size
    /\ MaxFaults \in Nat

VARIABLES
    fetch_pc,                   \* "connect", "request", "stream", "send",
                                \* "drain", "closed" or "panic"
    next_version_to_fetch,
    last_fetched_version,
    reconnection_retries,
    connect_retries,            \* local of get_stream
    outbox,                     \* messages of the last response still to be sent
    channel,                    \* the transaction channel
    stream_next,                \* next version the open stream serves
    stream_left,                \* transactions it still owes
    faults

streamVars == <<stream_next, stream_left>>
fetchVars == <<fetch_pc, next_version_to_fetch, last_fetched_version,
               reconnection_retries, connect_retries, outbox, streamVars>>

\* The transactions of a message are the set of their versions.
TransactionsPBResponse ==
    [txns : SUBSET Nat, start_version : Nat, end_version : Nat]

FetchTypeOK ==
    /\ fetch_pc \in {"connect", "request", "stream", "send", "drain",
                     "closed", "panic"}
    /\ next_version_to_fetch \in Nat
    /\ last_fetched_version \in Nat \cup {-1}
    /\ reconnection_retries \in 0 .. ReconnectionMaxRetries
    /\ connect_retries \in 0 .. ReconnectionMaxRetries
    /\ fetch_pc \in {"connect", "request"} =>
            connect_retries < ReconnectionMaxRetries
    /\ outbox \in Seq(TransactionsPBResponse)
    /\ fetch_pc = "send" => outbox # <<>>
    /\ channel \in Seq(TransactionsPBResponse)
    /\ stream_next \in Nat
    /\ stream_left \in Nat
    /\ faults \in 0 .. MaxFaults

FetchInit(starting_version) ==
    /\ fetch_pc = "connect"
    /\ next_version_to_fetch = starting_version
    /\ last_fetched_version = starting_version - 1
    /\ reconnection_retries = 0
    /\ connect_retries = 0
    /\ outbox = <<>>
    /\ stream_next = 0
    /\ stream_left = 0

FetchReset(starting_version) ==
    /\ fetch_pc' = "connect"
    /\ next_version_to_fetch' = starting_version
    /\ last_fetched_version' = starting_version - 1
    /\ reconnection_retries' = 0
    /\ connect_retries' = 0
    /\ outbox' = <<>>
    /\ stream_next' = 0
    /\ stream_left' = 0

Fault == faults < MaxFaults /\ faults' = faults + 1

-----------------------------------------------------------------------------
(* get_stream *)

\* Variant: one transaction too many.
TransactionsCount_OffByOne(start) ==
    IF EndingVersion = NoVersion THEN U64Size
    ELSE (EndingVersion - start + 2) % U64Size

\* The cast of the signed difference to u64: a start beyond the end wraps around.
TransactionsCount(start) ==
    IF EndingVersion = NoVersion THEN U64Size
    ELSE (EndingVersion - start + 1) % U64Size

\* RawDataClient::connect returns a client.
Connected ==
    /\ fetch_pc = "connect"
    /\ fetch_pc' = "request"
    /\ connect_retries' = 0
    /\ UNCHANGED <<next_version_to_fetch, last_fetched_version,
                   reconnection_retries, outbox, channel, streamVars, faults>>

\* get_transactions returns a stream.
StreamOpened ==
    /\ fetch_pc = "request"
    /\ fetch_pc' = "stream"
    /\ connect_retries' = 0
    /\ stream_next' = next_version_to_fetch
    /\ stream_left' = TransactionsCount(next_version_to_fetch)
    /\ UNCHANGED <<next_version_to_fetch, last_fetched_version,
                   reconnection_retries, outbox, channel, faults>>

\* Either of the two calls times out: it is tried again, at most
\* ReconnectionMaxRetries times in all.
AttemptTimesOut ==
    /\ fetch_pc \in {"connect", "request"}
    /\ Fault
    /\ connect_retries' = connect_retries + 1
    /\ fetch_pc' = IF connect_retries + 1 >= ReconnectionMaxRetries
                   THEN "panic" ELSE fetch_pc
    /\ UNCHANGED <<next_version_to_fetch, last_fetched_version,
                   reconnection_retries, outbox, channel, streamVars>>

\* Either of the two calls returns an error: there is no retry.
AttemptFails ==
    /\ fetch_pc \in {"connect", "request"}
    /\ Fault
    /\ fetch_pc' = "panic"
    /\ UNCHANGED <<next_version_to_fetch, last_fetched_version,
                   reconnection_retries, connect_retries, outbox, channel,
                   streamVars>>

-----------------------------------------------------------------------------
(* create_fetcher_loop *)

\* Variant: the end is noticed one version late.
IsEnd_Late(next) == EndingVersion # NoVersion /\ next > EndingVersion + 1

IsEnd(next) == EndingVersion # NoVersion /\ next > EndingVersion

\* The transactions of a response that pass the filter.
Retained(first, last) == (first .. last) \cap Included

\* Position of v among the versions of S, from 0.
Rank(S, v) == Cardinality({w \in S : w < v})

\* Variants: transactions beyond the chunk size dropped; the range taken from
\* what the filter left.
Messages_FirstChunkOnly(first, last) ==
    LET kept == Retained(first, last)
    IN  <<[txns |-> {v \in kept : Rank(kept, v) < PbChannelTxnChunkSize},
           start_version |-> first, end_version |-> last]>>

Messages_FilteredRange(first, last) ==
    <<[txns |-> Retained(first, last),
       start_version |-> first,
       end_version |-> IF last \in Included THEN last ELSE first]>>

\* The messages made of the response first .. last.  Each of them, also each
\* chunk of a response that is broken up, carries the versions of the WHOLE
\* response as its start_version and end_version.
Messages(first, last) ==
    LET kept == Retained(first, last)
        n == Cardinality(kept)
        size == PbChannelTxnChunkSize
        message(T) == [txns |-> T, start_version |-> first, end_version |-> last]
    IN  IF n < size
        THEN <<message(kept)>>
        ELSE [i \in 1 .. (n + size - 1) \div size |->
                message({v \in kept : Rank(kept, v) \div size = i - 1})]

\* Variant: the gap test left out.
ReceiveResponse_NoGapTest(first, last) ==
    /\ fetch_pc = "stream"
    /\ reconnection_retries' = 0
    /\ next_version_to_fetch' = last + 1
    /\ last_fetched_version' = last
    /\ outbox' = Messages(first, last)
    /\ fetch_pc' = "send"
    /\ UNCHANGED <<connect_retries, channel>>

\* A response with the transactions first .. last arrives.
ReceiveResponse(first, last) ==
    /\ fetch_pc = "stream"
    /\ reconnection_retries' = 0
    /\ next_version_to_fetch' = last + 1
    /\ \/ /\ last_fetched_version + 1 # first
          /\ fetch_pc' = "panic"
          /\ UNCHANGED <<last_fetched_version, outbox>>
       \/ /\ last_fetched_version + 1 = first
          /\ last_fetched_version' = last
          /\ outbox' = Messages(first, last)
          /\ fetch_pc' = "send"
    /\ UNCHANGED <<connect_retries, channel>>

\* The stream serves its next transactions.
StreamServes ==
    \E n \in 1 .. MaxBatch :
        /\ n <= stream_left
        /\ stream_next + n - 1 <= LedgerHead
        /\ ReceiveResponse(stream_next, stream_next + n - 1)
        /\ stream_next' = stream_next + n
        /\ stream_left' = stream_left - n
        /\ UNCHANGED faults

\* The stream serves transactions that are not its next ones.
StreamServesGap ==
    \E first \in 0 .. LedgerHead :
        /\ first # stream_next
        /\ Fault
        /\ ReceiveResponse(first, first)
        /\ UNCHANGED streamVars

\* A response without transactions: first().unwrap() panics.
EmptyResponse ==
    /\ fetch_pc = "stream"
    /\ Fault
    /\ fetch_pc' = "panic"
    /\ UNCHANGED <<next_version_to_fetch, last_fetched_version,
                   reconnection_retries, connect_retries, outbox, channel,
                   streamVars>>

\* The send of the next message completes; after the last one the loop goes on.
SendToChannel ==
    /\ fetch_pc = "send"
    /\ Len(channel) < BufferSize
    /\ channel' = Append(channel, Head(outbox))
    /\ outbox' = Tail(outbox)
    /\ fetch_pc' = CASE Len(outbox) > 1 -> "send"
                     [] Len(outbox) <= 1 /\ IsEnd(next_version_to_fetch) -> "drain"
                     [] OTHER -> "stream"
    /\ UNCHANGED <<next_version_to_fetch, last_fetched_version,
                   reconnection_retries, connect_retries, streamVars, faults>>

\* A stream that owes nothing ends; that one ends earlier is a fault.
StreamOver ==
    \/ stream_left = 0 /\ UNCHANGED faults
    \/ stream_left # 0 /\ Fault

\* Variant: the loop never gives up.
StreamStops_NoLimit ==
    /\ fetch_pc = "stream"
    /\ StreamOver
    /\ reconnection_retries' = reconnection_retries + 1
    /\ fetch_pc' = IF IsEnd(next_version_to_fetch) THEN "drain" ELSE "connect"
    /\ connect_retries' = 0
    /\ UNCHANGED <<next_version_to_fetch, last_fetched_version, outbox, channel,
                   streamVars>>

\* The stream ends, fails or is silent for longer than the item timeout.
StreamStops ==
    /\ fetch_pc = "stream"
    /\ StreamOver
    /\ \/ /\ IsEnd(next_version_to_fetch)
          /\ fetch_pc' = "drain"
          /\ UNCHANGED <<reconnection_retries, connect_retries>>
       \/ /\ ~IsEnd(next_version_to_fetch)
          /\ reconnection_retries >= ReconnectionMaxRetries
          /\ fetch_pc' = "panic"
          /\ UNCHANGED <<reconnection_retries, connect_retries>>
       \/ /\ ~IsEnd(next_version_to_fetch)
          /\ reconnection_retries < ReconnectionMaxRetries
          /\ reconnection_retries' = reconnection_retries + 1
          /\ connect_retries' = 0
          /\ fetch_pc' = "connect"
    /\ UNCHANGED <<next_version_to_fetch, last_fetched_version, outbox, channel,
                   streamVars>>

\* Variant: the channel is closed without waiting for it to be empty.
CloseChannel_NoWait ==
    /\ fetch_pc = "drain"
    /\ fetch_pc' = "closed"
    /\ UNCHANGED <<next_version_to_fetch, last_fetched_version,
                   reconnection_retries, connect_retries, outbox, channel,
                   streamVars, faults>>

\* The ending version was reached and the channel has become empty: the task
\* returns, which drops the only sender.
CloseChannel ==
    /\ fetch_pc = "drain"
    /\ channel = <<>>
    /\ fetch_pc' = "closed"
    /\ UNCHANGED <<next_version_to_fetch, last_fetched_version,
                   reconnection_retries, connect_retries, outbox, channel,
                   streamVars, faults>>

\* The steps the task and a working data service take.
FetchProgress ==
    \/ Connected
    \/ StreamOpened
    \/ StreamServes
    \/ SendToChannel
    \/ CloseChannel
    \/ stream_left = 0 /\ StreamStops

FetchFault ==
    \/ AttemptTimesOut
    \/ AttemptFails
    \/ StreamServesGap
    \/ EmptyResponse
    \/ stream_left # 0 /\ StreamStops
=============================================================================
