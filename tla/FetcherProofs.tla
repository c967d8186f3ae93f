---------------------------- MODULE FetcherProofs ---------------------------
(***************************************************************************)
(* Facts about the fetcher that hold whoever reads its channel: what the   *)
(* messages of a response contain, and what a step of the task does to     *)
(* the messages under way.                                                 *)
(***************************************************************************)
EXTENDS Fetcher, SequenceTheorems, FiniteSetTheorems, TLAPS

-----------------------------------------------------------------------------
(* The messages made of a response *)

\* The filter keeps finitely many transactions of a response.
LEMMA RetainedIsFinite ==
    ASSUME NEW first \in Int, NEW last \in Int
    PROVE  /\ IsFiniteSet(Retained(first, last))
           /\ Cardinality(Retained(first, last)) \in Nat
           /\ first <= last =>
                Cardinality(Retained(first, last)) <= last - first + 1
<1>1. /\ IsFiniteSet(first .. last)
      /\ first <= last => Cardinality(first .. last) = last - first + 1
    BY FS_Interval
<1>2. Retained(first, last) \in SUBSET (first .. last)
    BY DEF Retained
<1>3. /\ IsFiniteSet(Retained(first, last))
      /\ Cardinality(Retained(first, last)) <= Cardinality(first .. last)
    BY <1>1, <1>2, FS_Subset
<1>4. /\ Cardinality(Retained(first, last)) \in Nat
      /\ Cardinality(first .. last) \in Nat
    BY <1>1, <1>3, FS_CardinalityType
<1> QED BY <1>1, <1>3, <1>4

\* The rank of a member of a finite set of integers is below the set's size.
LEMMA RankBelowCardinality ==
    ASSUME NEW S, IsFiniteSet(S), S \subseteq Int, NEW v \in S
    PROVE  Rank(S, v) \in Nat /\ Rank(S, v) < Cardinality(S)
<1> DEFINE below == {w \in S : w < v}
<1>1. below \in SUBSET S /\ v \notin below
    OBVIOUS
<1>2. /\ IsFiniteSet(below)
      /\ Cardinality(below) <= Cardinality(S)
      /\ Cardinality(S) = Cardinality(below) => S = below
    BY <1>1, FS_Subset
<1>3. Cardinality(below) \in Nat /\ Cardinality(S) \in Nat
    BY <1>2, FS_CardinalityType
<1>4. Cardinality(below) # Cardinality(S)
    BY <1>1, <1>2
<1>5. Rank(S, v) = Cardinality(below)
    BY DEF Rank
<1> QED BY <1>2, <1>3, <1>4, <1>5

\* A response becomes at least one well-formed message.
LEMMA MessagesType ==
    ASSUME NEW first \in Nat, NEW last \in Nat
    PROVE  /\ Messages(first, last) \in Seq(TransactionsPBResponse)
           /\ Len(Messages(first, last)) >= 1
           /\ \A i \in 1 .. Len(Messages(first, last)) :
                 Messages(first, last)[i].txns \subseteq Retained(first, last)
<1> DEFINE kept == Retained(first, last)
           n == Cardinality(kept)
           size == PbChannelTxnChunkSize
           message(T) == [txns |-> T, start_version |-> first, end_version |-> last]
           parts == (n + size - 1) \div size
           part(i) == {v \in kept : Rank(kept, v) \div size = i - 1}
<1>1. n \in Nat /\ kept \subseteq Nat
  <2>1. n \in Nat
      BY RetainedIsFinite
  <2>2. kept \subseteq Nat
      BY DEF Retained
  <2> QED BY <2>1, <2>2
<1>2. size \in Nat /\ size >= 1
    BY FetcherAssumption
<1>3. \A T \in SUBSET kept : message(T) \in TransactionsPBResponse
    BY <1>1 DEF TransactionsPBResponse
<1>4. CASE n < size
  <2>1. Messages(first, last) = <<message(kept)>>
      BY <1>4 DEF Messages
  <2> HIDE DEF kept
  <2> QED BY <1>3, <2>1 DEF kept
<1>5. CASE ~(n < size)
  <2>1. Messages(first, last) = [i \in 1 .. parts |-> message(part(i))]
      BY <1>5 DEF Messages
  <2>2. parts \in Nat /\ parts >= 1
    <3> HIDE DEF n
    <3> QED BY <1>1, <1>2, <1>5
  <2>3. \A i \in 1 .. parts : part(i) \in SUBSET kept
      OBVIOUS
  <2> HIDE DEF kept, part, parts
  <2>4. Messages(first, last) \in Seq(TransactionsPBResponse)
      BY <1>3, <2>1, <2>2, <2>3
  <2>5. Len(Messages(first, last)) = parts
      BY <2>1, <2>2
  <2> QED BY <2>1, <2>2, <2>3, <2>4, <2>5 DEF kept
<1> QED BY <1>4, <1>5

\* A transaction after another one has a higher rank.
LEMMA RankMonotone ==
    ASSUME NEW S, IsFiniteSet(S), S \subseteq Int,
           NEW v \in S, NEW w \in S, v < w
    PROVE  Rank(S, v) < Rank(S, w)
<1> DEFINE below(x) == {y \in S : y < x}
<1>1. below(v) \in SUBSET below(w) /\ below(v) # below(w) /\ below(w) \in SUBSET S
  <2>1. \A y \in S : y < v => y < w
      OBVIOUS
  <2>2. v \in below(w) /\ v \notin below(v)
      OBVIOUS
  <2> QED BY <2>1, <2>2
<1>2. IsFiniteSet(below(w))
    BY <1>1, FS_Subset
<1>3. /\ IsFiniteSet(below(v))
      /\ Cardinality(below(v)) <= Cardinality(below(w))
      /\ Cardinality(below(w)) # Cardinality(below(v))
  <2> HIDE DEF below
  <2> QED BY <1>1, <1>2, FS_Subset
<1>4. Cardinality(below(v)) \in Nat /\ Cardinality(below(w)) \in Nat
    BY <1>2, <1>3, FS_CardinalityType
<1>5. Rank(S, v) = Cardinality(below(v)) /\ Rank(S, w) = Cardinality(below(w))
    BY DEF Rank
<1> HIDE DEF below
<1> QED BY <1>3, <1>4, <1>5

\* Integer division, as the chunk of a transaction is computed: it is monotone,
\* and one more chunk begins after every d transactions.
LEMMA DivFacts ==
    ASSUME NEW d \in Nat, d >= 1, NEW a \in Nat, NEW b \in Nat
    PROVE  /\ a \div d \in Nat
           /\ a <= b => a \div d <= b \div d
           /\ (a + d) \div d = (a \div d) + 1
OBVIOUS

\* Every transaction that the filter keeps is in some message of the response,
\* and the messages are in version order.  Each message carries the versions of
\* the whole response.
LEMMA MessagesContent ==
    ASSUME NEW first \in Nat, NEW last \in Nat
    PROVE  LET M == Messages(first, last)
           IN  /\ \A i \in 1 .. Len(M) : /\ M[i].start_version = first
                                         /\ M[i].end_version = last
               /\ \A v \in Retained(first, last) :
                     \E i \in 1 .. Len(M) : v \in M[i].txns
               /\ \A i, j \in 1 .. Len(M) : i < j =>
                     \A v \in M[i].txns, w \in M[j].txns : v < w
<1> DEFINE kept == Retained(first, last)
           n == Cardinality(kept)
           size == PbChannelTxnChunkSize
           message(T) == [txns |-> T, start_version |-> first, end_version |-> last]
           parts == (n + size - 1) \div size
           part(i) == {v \in kept : Rank(kept, v) \div size = i - 1}
           M == Messages(first, last)
<1>1. IsFiniteSet(kept) /\ n \in Nat /\ kept \subseteq Nat
  <2>1. first \in Int /\ last \in Int
      OBVIOUS
  <2>2. IsFiniteSet(kept) /\ n \in Nat
      BY <2>1, RetainedIsFinite
  <2>3. kept \subseteq Nat
      BY DEF Retained
  <2> QED BY <2>2, <2>3
<1>2. size \in Nat /\ size >= 1
    BY FetcherAssumption
<1>3. CASE n < size
  <2>1. M = <<message(kept)>>
      BY <1>3 DEF Messages
  <2>2. Len(M) = 1 /\ M[1] = message(kept)
    <3> HIDE DEF message, kept
    <3> QED BY <2>1
  <2>3. /\ M[1].start_version = first
        /\ M[1].end_version = last
        /\ M[1].txns = kept
      BY <2>2
  <2> HIDE DEF M, message, kept
  <2> SUFFICES /\ \A i \in 1 .. 1 : M[i].start_version = first /\ M[i].end_version = last
               /\ \A v \in kept : \E i \in 1 .. 1 : v \in M[i].txns
      BY <2>2 DEF M, kept
  <2> QED BY <2>3
<1>4. CASE ~(n < size)
  <2>1. M = [i \in 1 .. parts |-> message(part(i))]
      BY <1>4 DEF Messages
  <2>2. parts \in Nat /\ parts >= 1
    <3> HIDE DEF n
    <3> QED BY <1>1, <1>2, <1>4
  <2>3. Len(M) = parts
    <3> HIDE DEF message, part, parts
    <3> QED BY <2>1, <2>2
  <2>4. \A i \in 1 .. parts : /\ M[i].start_version = first
                              /\ M[i].end_version = last
                              /\ M[i].txns = part(i)
    <3> HIDE DEF part, parts
    <3> QED BY <2>1
  <2>5. ASSUME NEW v \in kept
        PROVE  \E i \in 1 .. parts : v \in part(i)
    <3> DEFINE r == Rank(kept, v)
    <3>1. r \in Nat /\ r < n
        BY <1>1, RankBelowCardinality
    <3> HIDE DEF r, n
    <3>2. r <= n - 1 /\ n - 1 \in Nat
        BY <1>1, <3>1
    <3>3. /\ r \div size \in Nat
          /\ r \div size <= (n - 1) \div size
        BY <1>2, <3>1, <3>2, DivFacts
    <3>4. parts = ((n - 1) \div size) + 1
      <4>1. ((n - 1) + size) \div size = ((n - 1) \div size) + 1
          BY <1>2, <3>2, DivFacts
      <4>2. (n - 1) + size = n + size - 1
          BY <1>1, <1>2
      <4> QED BY <4>1, <4>2
    <3>5. (n - 1) \div size \in Nat
        BY <1>2, <3>2, DivFacts
    <3>6. (r \div size) + 1 \in 1 .. parts
      <4> HIDE DEF parts
      <4> QED BY <3>3, <3>4, <3>5
    <3>7. v \in part((r \div size) + 1)
      <4>1. r \div size = ((r \div size) + 1) - 1
          BY <3>3
      <4> QED BY <4>1 DEF r
    <3> QED BY <3>6, <3>7
  <2>6. ASSUME NEW i \in 1 .. parts, NEW j \in 1 .. parts, i < j,
               NEW v \in part(i), NEW w \in part(j)
        PROVE  v < w
    <3>1. v \in kept /\ w \in kept /\ v \in Int /\ w \in Int
        BY <1>1
    <3>2. Rank(kept, v) \div size = i - 1 /\ Rank(kept, w) \div size = j - 1
        OBVIOUS
    <3>3. Rank(kept, v) \in Nat /\ Rank(kept, w) \in Nat
        BY <1>1, <3>1, RankBelowCardinality
    <3>4. w = v => FALSE
        BY <2>6, <2>2, <3>2
    <3>5. w < v => Rank(kept, w) < Rank(kept, v)
        BY <1>1, <3>1, RankMonotone
    <3> HIDE DEF kept
    <3>6. ~(Rank(kept, w) < Rank(kept, v))
      <4> SUFFICES ASSUME Rank(kept, w) < Rank(kept, v) PROVE FALSE
          OBVIOUS
      <4>1. Rank(kept, w) \div size <= Rank(kept, v) \div size
          BY <1>2, <3>3, DivFacts
      <4> HIDE DEF parts
      <4> QED BY <2>2, <2>6, <3>2, <4>1
    <3> QED BY <3>1, <3>4, <3>5, <3>6
  <2> HIDE DEF M, part, parts
  <2>7. /\ \A i \in 1 .. Len(M) : M[i].start_version = first /\ M[i].end_version = last
        /\ \A v \in kept : \E i \in 1 .. Len(M) : v \in M[i].txns
      BY <2>3, <2>4, <2>5
  <2>8. \A i, j \in 1 .. Len(M) : i < j =>
                     \A v \in M[i].txns, w \in M[j].txns : v < w
      BY <2>3, <2>4, <2>6
  <2> QED BY <2>7, <2>8 DEF M
<1> QED BY <1>3, <1>4

-----------------------------------------------------------------------------
(* Types *)

\* The number of transactions requested is a u64, also when it wraps around.
LEMMA TransactionsCountType ==
    ASSUME NEW start \in Nat
    PROVE  TransactionsCount(start) \in Nat
<1>1. U64Size \in Nat /\ U64Size > 0
    BY FetcherAssumption
<1>2. CASE EndingVersion = NoVersion
    BY <1>1, <1>2 DEF TransactionsCount
<1>3. CASE EndingVersion # NoVersion
  <2>1. EndingVersion - start + 1 \in Int
      BY <1>3, FetcherAssumption
  <2>2. \A d \in Int : d % U64Size \in Nat
      BY <1>1
  <2> QED BY <1>3, <2>1, <2>2 DEF TransactionsCount
<1> QED BY <1>2, <1>3

\* Receiving a response keeps the fetcher's state well-formed.
LEMMA ReceiveResponseType ==
    ASSUME FetchTypeOK, NEW first \in Nat, NEW last \in Nat,
           ReceiveResponse(first, last),
           faults' \in 0 .. MaxFaults, stream_next' \in Nat, stream_left' \in Nat
    PROVE  FetchTypeOK'
<1>1. /\ Messages(first, last) \in Seq(TransactionsPBResponse)
      /\ Messages(first, last) # <<>>
  <2>1. Len(Messages(first, last)) >= 1
      BY MessagesType
  <2>2. Len(<<>>) = 0
      OBVIOUS
  <2>3. Messages(first, last) # <<>>
      BY <2>1, <2>2
  <2> QED BY <2>3, MessagesType
<1> QED BY <1>1, FetcherAssumption DEF FetchTypeOK, ReceiveResponse

\* Every step of the fetcher keeps its state well-formed.
LEMMA FetchStepType ==
    ASSUME FetchTypeOK, FetchProgress \/ FetchFault
    PROVE  FetchTypeOK'
<1> USE FetcherAssumption
<1>1. CASE Connected
    BY <1>1 DEF Connected, FetchTypeOK, streamVars
<1>2. CASE StreamOpened
  <2>1. TransactionsCount(next_version_to_fetch) \in Nat
      BY TransactionsCountType DEF FetchTypeOK
  <2> QED BY <1>2, <2>1 DEF StreamOpened, FetchTypeOK
<1>3. CASE StreamServes
  <2>1. PICK n \in 1 .. MaxBatch :
            /\ n <= stream_left
            /\ ReceiveResponse(stream_next, stream_next + n - 1)
            /\ stream_next' = stream_next + n
            /\ stream_left' = stream_left - n
            /\ UNCHANGED faults
      BY <1>3 DEF StreamServes
  <2>2. /\ stream_next \in Nat
        /\ stream_next + n - 1 \in Nat
        /\ faults' \in 0 .. MaxFaults
        /\ stream_next' \in Nat
        /\ stream_left' \in Nat
      BY <2>1 DEF FetchTypeOK
  <2> QED BY <2>1, <2>2, ReceiveResponseType
<1>4. CASE SendToChannel
  <2>1. /\ channel' \in Seq(TransactionsPBResponse)
        /\ outbox' \in Seq(TransactionsPBResponse)
        /\ fetch_pc' = "send" => outbox' # <<>>
    <3> HIDE DEF TransactionsPBResponse
    <3>1. /\ outbox \in Seq(TransactionsPBResponse)
          /\ outbox # <<>>
          /\ channel \in Seq(TransactionsPBResponse)
          /\ channel' = Append(channel, Head(outbox))
          /\ outbox' = Tail(outbox)
        BY <1>4 DEF SendToChannel, FetchTypeOK
    <3>2. Head(outbox) \in TransactionsPBResponse
        BY <3>1
    <3>3. fetch_pc' = "send" => Len(outbox) > 1
        BY <1>4 DEF SendToChannel
    <3>4. Len(outbox) > 1 => Tail(outbox) # <<>>
        BY <3>1
    <3> QED BY <3>1, <3>2, <3>3, <3>4
  <2>2. fetch_pc' \in {"send", "drain", "stream"}
      BY <1>4 DEF SendToChannel
  <2> QED BY <1>4, <2>1, <2>2 DEF SendToChannel, FetchTypeOK, streamVars
<1>5. CASE CloseChannel
    BY <1>5 DEF CloseChannel, FetchTypeOK, streamVars
<1>6. CASE StreamStops
    BY <1>6 DEF StreamStops, StreamOver, Fault, FetchTypeOK, streamVars
<1>7. CASE AttemptTimesOut
    BY <1>7 DEF AttemptTimesOut, Fault, FetchTypeOK, streamVars
<1>8. CASE AttemptFails
    BY <1>8 DEF AttemptFails, Fault, FetchTypeOK, streamVars
<1>9. CASE StreamServesGap
  <2>1. PICK first \in 0 .. LedgerHead :
            Fault /\ ReceiveResponse(first, first) /\ UNCHANGED streamVars
      BY <1>9 DEF StreamServesGap
  <2>2. /\ first \in Nat
        /\ faults' \in 0 .. MaxFaults
        /\ stream_next' \in Nat
        /\ stream_left' \in Nat
      BY <2>1 DEF FetchTypeOK, Fault, streamVars
  <2> QED BY <2>1, <2>2, ReceiveResponseType
<1>10. CASE EmptyResponse
    BY <1>10 DEF EmptyResponse, Fault, FetchTypeOK, streamVars
<1> QED
    BY <1>1, <1>2, <1>3, <1>4, <1>5, <1>6, <1>7, <1>8, <1>9, <1>10
    DEF FetchProgress, FetchFault

-----------------------------------------------------------------------------
(* The fetcher's position *)

\* What relates the variables of the task: messages wait to be sent only where
\* the loop sends them, the next version to fetch follows the last one fetched,
\* an open stream serves from there on, and the loop is left only at the end.
FetchConsistent ==
    /\ fetch_pc # "send" => outbox = <<>>
    /\ fetch_pc # "panic" => next_version_to_fetch = last_fetched_version + 1
    /\ fetch_pc \in {"stream", "send"} => stream_next = last_fetched_version + 1
    /\ fetch_pc \in {"drain", "closed"} => IsEnd(next_version_to_fetch)
    /\ fetch_pc = "closed" => channel = <<>>

\* What a step of the fetcher does to the messages under way: nothing, or the
\* first one that waits enters the channel, or the messages of a response that
\* starts right after the last version fetched are made.
FetchEffect ==
    \/ UNCHANGED <<outbox, channel, last_fetched_version>>
    \/ /\ outbox # <<>>
       /\ channel' = Append(channel, Head(outbox))
       /\ outbox' = Tail(outbox)
       /\ UNCHANGED last_fetched_version
    \/ /\ outbox = <<>>
       /\ last_fetched_version' \in Nat
       /\ last_fetched_version < last_fetched_version'
       /\ outbox' = Messages(last_fetched_version + 1, last_fetched_version')
       /\ UNCHANGED channel

\* Every step of the fetcher has one of these effects and keeps its variables
\* consistent.  In particular a stream that serves anything but the next version
\* is noticed, whatever reconnections came before.
LEMMA FetchStep ==
    ASSUME FetchTypeOK, FetchConsistent, FetchProgress \/ FetchFault
    PROVE  FetchConsistent' /\ FetchEffect
<1> USE FetcherAssumption
<1>1. CASE Connected \/ StreamOpened \/ CloseChannel
    BY <1>1
    DEF Connected, StreamOpened, CloseChannel, FetchConsistent, FetchEffect,
        FetchTypeOK, streamVars, IsEnd
<1>2. CASE AttemptTimesOut \/ AttemptFails \/ EmptyResponse
    BY <1>2
    DEF AttemptTimesOut, AttemptFails, EmptyResponse, FetchConsistent, FetchEffect,
        FetchTypeOK, streamVars, IsEnd
<1>3. CASE StreamStops
    BY <1>3
    DEF StreamStops, FetchConsistent, FetchEffect, FetchTypeOK, streamVars, IsEnd
<1>4. CASE StreamServes
  <2>1. PICK n \in 1 .. MaxBatch :
            /\ ReceiveResponse(stream_next, stream_next + n - 1)
            /\ stream_next' = stream_next + n
      BY <1>4 DEF StreamServes
  <2>2. /\ fetch_pc = "stream"
        /\ outbox = <<>>
        /\ stream_next = last_fetched_version + 1
        /\ last_fetched_version \in Int
        /\ stream_next \in Nat
      BY <2>1 DEF ReceiveResponse, FetchConsistent, FetchTypeOK
  <2>3. /\ fetch_pc' = "send"
        /\ last_fetched_version' = stream_next + n - 1
        /\ next_version_to_fetch' = (stream_next + n - 1) + 1
        /\ outbox' = Messages(stream_next, stream_next + n - 1)
        /\ UNCHANGED channel
      BY <2>1, <2>2 DEF ReceiveResponse
  <2>4. FetchConsistent'
      BY <2>1, <2>2, <2>3 DEF FetchConsistent
  <2>5. FetchEffect
      BY <2>2, <2>3 DEF FetchEffect
  <2> QED BY <2>4, <2>5
<1>5. CASE StreamServesGap
  <2>1. PICK first \in 0 .. LedgerHead :
            first # stream_next /\ ReceiveResponse(first, first)
      BY <1>5 DEF StreamServesGap
  <2>2. last_fetched_version + 1 # first /\ outbox = <<>>
      BY <2>1 DEF ReceiveResponse, FetchConsistent
  <2>3. /\ fetch_pc' = "panic"
        /\ UNCHANGED <<outbox, channel, last_fetched_version>>
      BY <2>1, <2>2 DEF ReceiveResponse
  <2> QED BY <2>2, <2>3 DEF FetchConsistent, FetchEffect
<1>6. CASE SendToChannel
  <2>1. /\ fetch_pc = "send"
        /\ outbox # <<>>
        /\ outbox \in Seq(TransactionsPBResponse)
      BY <1>6 DEF SendToChannel, FetchTypeOK
  <2>2. FetchEffect
      BY <1>6, <2>1 DEF SendToChannel, FetchEffect
  <2>3. Len(outbox) <= 1 => Tail(outbox) = <<>>
    <3> HIDE DEF TransactionsPBResponse
    <3> QED BY <2>1
  <2>4. \/ Len(outbox) > 1 /\ fetch_pc' = "send"
        \/ Len(outbox) <= 1 /\ IsEnd(next_version_to_fetch) /\ fetch_pc' = "drain"
        \/ Len(outbox) <= 1 /\ fetch_pc' = "stream"
    <3>1. Len(outbox) \in Nat
        BY <2>1
    <3> QED BY <1>6, <3>1 DEF SendToChannel
  <2>5. FetchConsistent'
      BY <1>6, <2>1, <2>3, <2>4 DEF SendToChannel, FetchConsistent, streamVars, IsEnd
  <2> QED BY <2>2, <2>5
<1> QED
    BY <1>1, <1>2, <1>3, <1>4, <1>5, <1>6 DEF FetchProgress, FetchFault
=============================================================================
