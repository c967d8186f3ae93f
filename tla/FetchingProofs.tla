--------------------------- MODULE FetchingProofs ---------------------------
(***************************************************************************)
(* What Fetching.tla promises, for every filter, chunk size, response size *)
(* and channel capacity, and every number of failures.                     *)
(***************************************************************************)
EXTENDS Fetching, FetcherProofs

-----------------------------------------------------------------------------
(* Sequences of messages *)

\* Moving the first message of one queue to the end of the one before it leaves
\* their concatenation as it is.
LEMMA HeadMoves ==
    ASSUME NEW S, NEW a \in Seq(S), NEW b \in Seq(S), b # <<>>
    PROVE  Append(a, Head(b)) \o Tail(b) = a \o b
<1>1. /\ Head(b) \in S
      /\ Tail(b) \in Seq(S)
      /\ Len(Tail(b)) = Len(b) - 1
      /\ \A i \in 1 .. Len(b) - 1 : Tail(b)[i] = b[i + 1]
      /\ Head(b) = b[1]
      /\ Len(b) \in Nat
      /\ Len(b) >= 1
    OBVIOUS
<1> DEFINE c == Append(a, Head(b))
<1>2. /\ c \in Seq(S)
      /\ Len(c) = Len(a) + 1
      /\ \A i \in 1 .. Len(a) : c[i] = a[i]
      /\ c[Len(a) + 1] = b[1]
      /\ Len(a) \in Nat
    BY <1>1
<1> HIDE DEF c
<1>3. /\ c \o Tail(b) \in Seq(S)
      /\ Len(c \o Tail(b)) = Len(c) + Len(Tail(b))
      /\ \A i \in 1 .. Len(c) + Len(Tail(b)) :
            (c \o Tail(b))[i] = IF i <= Len(c) THEN c[i] ELSE Tail(b)[i - Len(c)]
    BY <1>1, <1>2, ConcatProperties
<1>4. /\ a \o b \in Seq(S)
      /\ Len(a \o b) = Len(a) + Len(b)
      /\ \A i \in 1 .. Len(a) + Len(b) :
            (a \o b)[i] = IF i <= Len(a) THEN a[i] ELSE b[i - Len(a)]
    BY ConcatProperties
<1>5. ASSUME NEW i \in 1 .. Len(a) + Len(b)
      PROVE  (c \o Tail(b))[i] = (a \o b)[i]
  <2>1. CASE i <= Len(a)
      BY <1>1, <1>2, <1>3, <1>4, <2>1
  <2>2. CASE i = Len(a) + 1
      BY <1>1, <1>2, <1>3, <1>4, <2>2
  <2>3. CASE i > Len(a) + 1
    <3>1. (c \o Tail(b))[i] = Tail(b)[i - Len(c)]
        BY <1>1, <1>2, <1>3, <2>3
    <3>2. i - Len(c) \in 1 .. Len(b) - 1 /\ (i - Len(c)) + 1 = i - Len(a)
        BY <1>1, <1>2, <2>3
    <3> QED BY <1>1, <1>4, <2>3, <3>1, <3>2
  <2> QED BY <1>1, <1>2, <2>1, <2>2, <2>3
<1>6. Len(c \o Tail(b)) = Len(a \o b)
    BY <1>1, <1>2, <1>3, <1>4
<1>7. c \o Tail(b) = a \o b
    BY <1>3, <1>4, <1>5, <1>6, SeqEqual
<1> QED BY <1>7 DEF c

\* The properties of the messages fetched, for any sequence F of messages that
\* ends at version L.
Once(F, L) ==
    /\ TxnsOf(F) = Retained(StartingVersion, L)
    /\ \A i, j \in DOMAIN F : i < j =>
          \A v \in F[i].txns, w \in F[j].txns : v < w

Adjacent(F) ==
    \A i \in 1 .. Len(F) - 1 :
        \/ F[i + 1].start_version = F[i].end_version + 1
        \/ /\ F[i + 1].start_version = F[i].start_version
           /\ F[i + 1].end_version = F[i].end_version

EndsAt(F, L) == F # <<>> => F[Len(F)].end_version = L

\* The messages of the next response continue what has been fetched.
LEMMA ResponseExtends ==
    ASSUME NEW F \in Seq(TransactionsPBResponse), NEW L \in Int, NEW l \in Nat,
           StartingVersion - 1 <= L, L < l,
           Once(F, L), Adjacent(F), EndsAt(F, L)
    PROVE  LET G == F \o Messages(L + 1, l)
           IN  Once(G, l) /\ Adjacent(G) /\ EndsAt(G, l)
<1> DEFINE M == Messages(L + 1, l)
           G == F \o M
<1>1. L + 1 \in Nat /\ StartingVersion \in Nat
    BY StartingVersionAssumption
<1>2. /\ M \in Seq(TransactionsPBResponse)
      /\ Len(M) >= 1
      /\ \A i \in 1 .. Len(M) : M[i].txns \subseteq Retained(L + 1, l)
    BY <1>1, MessagesType
<1>3. /\ \A i \in 1 .. Len(M) : M[i].start_version = L + 1 /\ M[i].end_version = l
      /\ \A v \in Retained(L + 1, l) : \E i \in 1 .. Len(M) : v \in M[i].txns
      /\ \A i, j \in 1 .. Len(M) : i < j =>
            \A v \in M[i].txns, w \in M[j].txns : v < w
    BY <1>1, MessagesContent
<1>4. /\ G \in Seq(TransactionsPBResponse)
      /\ Len(G) = Len(F) + Len(M)
      /\ \A i \in 1 .. Len(F) + Len(M) :
            G[i] = IF i <= Len(F) THEN F[i] ELSE M[i - Len(F)]
  <2> HIDE DEF M
  <2> QED BY <1>2, ConcatProperties
<1> HIDE DEF M, G
<1>5. /\ Len(F) \in Nat /\ DOMAIN F = 1 .. Len(F)
      /\ Len(M) \in Nat
      /\ Len(G) \in Nat /\ DOMAIN G = 1 .. Len(G)
    BY <1>2, <1>4
<1>6. \A i \in 1 .. Len(F) : /\ G[i] = F[i]
                             /\ i \in 1 .. Len(G)
    BY <1>4, <1>5
<1>7. \A i \in 1 .. Len(M) : /\ G[Len(F) + i] = M[i]
                             /\ Len(F) + i \in 1 .. Len(G)
    BY <1>4, <1>5
<1>8. \A i \in 1 .. Len(G) : \/ i \in 1 .. Len(F)
                             \/ \E k \in 1 .. Len(M) : i = Len(F) + k
  <2> SUFFICES ASSUME NEW i \in 1 .. Len(G), i \notin 1 .. Len(F)
               PROVE  \E k \in 1 .. Len(M) : i = Len(F) + k
      OBVIOUS
  <2>1. i - Len(F) \in 1 .. Len(M) /\ i = Len(F) + (i - Len(F))
      BY <1>4, <1>5
  <2> QED BY <2>1
<1>9. \A v \in Retained(StartingVersion, L) : v <= L
    BY <1>1 DEF Retained
<1>10. \A v \in Retained(L + 1, l) : v > L /\ v \in Nat
    BY <1>1 DEF Retained
<1>11. Retained(StartingVersion, l) =
            Retained(StartingVersion, L) \cup Retained(L + 1, l)
    BY <1>1 DEF Retained
<1>12. \A i \in 1 .. Len(F) : F[i].txns \subseteq Retained(StartingVersion, L)
    BY <1>5 DEF Once, TxnsOf
<1>13. TxnsOf(G) = Retained(StartingVersion, l)
  <2>1. ASSUME NEW v \in TxnsOf(G)
        PROVE  v \in Retained(StartingVersion, l)
    <3>1. PICK i \in 1 .. Len(G) : v \in G[i].txns
        BY <1>5, <2>1 DEF TxnsOf
    <3>2. CASE i \in 1 .. Len(F)
        BY <1>6, <1>11, <1>12, <3>1, <3>2
    <3>3. ASSUME NEW k \in 1 .. Len(M), i = Len(F) + k
          PROVE  v \in Retained(StartingVersion, l)
        BY <1>2, <1>7, <1>11, <3>1, <3>3
    <3> QED BY <1>8, <3>2, <3>3
  <2>2. ASSUME NEW v \in Retained(StartingVersion, L)
        PROVE  v \in TxnsOf(G)
    <3>1. PICK i \in 1 .. Len(F) : v \in F[i].txns
        BY <1>5, <2>2 DEF Once, TxnsOf
    <3> QED BY <1>5, <1>6, <3>1 DEF TxnsOf
  <2>3. ASSUME NEW v \in Retained(L + 1, l)
        PROVE  v \in TxnsOf(G)
    <3>1. PICK i \in 1 .. Len(M) : v \in M[i].txns
        BY <1>3, <2>3
    <3> QED BY <1>5, <1>7, <3>1 DEF TxnsOf
  <2> QED BY <1>11, <2>1, <2>2, <2>3
<1>14. ASSUME NEW i \in 1 .. Len(G), NEW j \in 1 .. Len(G), i < j,
              NEW v \in G[i].txns, NEW w \in G[j].txns
       PROVE  v < w
  <2>1. CASE i \in 1 .. Len(F) /\ j \in 1 .. Len(F)
      BY <1>5, <1>6, <1>14, <2>1 DEF Once
  <2>2. ASSUME i \in 1 .. Len(F), NEW k \in 1 .. Len(M), j = Len(F) + k
        PROVE  v < w
    <3>1. v \in Retained(StartingVersion, L)
        BY <1>6, <1>12, <2>2
    <3>2. w \in Retained(L + 1, l)
        BY <1>2, <1>7, <2>2
    <3>3. v \in Int /\ v <= L
        BY <1>1, <1>9, <3>1 DEF Retained
    <3> QED BY <1>10, <3>2, <3>3
  <2>3. ASSUME NEW h \in 1 .. Len(M), i = Len(F) + h,
               NEW k \in 1 .. Len(M), j = Len(F) + k
        PROVE  v < w
    <3>1. h < k
        BY <1>5, <1>14, <2>3
    <3>2. v \in M[h].txns /\ w \in M[k].txns
        BY <1>7, <2>3
    <3> QED BY <1>3, <3>1, <3>2
  <2>4. ASSUME NEW h \in 1 .. Len(M), i = Len(F) + h, j \in 1 .. Len(F)
        PROVE  FALSE
      BY <1>5, <1>14, <2>4
  <2> QED BY <1>8, <2>1, <2>2, <2>3, <2>4
<1>15. Adjacent(G)
  <2> SUFFICES ASSUME NEW i \in 1 .. Len(G) - 1
               PROVE  \/ G[i + 1].start_version = G[i].end_version + 1
                      \/ /\ G[i + 1].start_version = G[i].start_version
                         /\ G[i + 1].end_version = G[i].end_version
      BY DEF Adjacent
  <2>1. CASE i < Len(F)
    <3>1. i \in 1 .. Len(F) - 1 /\ i \in 1 .. Len(F) /\ i + 1 \in 1 .. Len(F)
        BY <1>5, <2>1
    <3>2. G[i] = F[i] /\ G[i + 1] = F[i + 1]
        BY <1>6, <3>1
    <3> QED BY <3>1, <3>2 DEF Adjacent
  <2>2. CASE i = Len(F)
    <3>1. i \in 1 .. Len(F) /\ 1 \in 1 .. Len(M)
        BY <1>2, <1>5, <2>2
    <3>3. F # <<>>
        BY <2>2, <3>1
    <3>2. G[i] = F[Len(F)] /\ G[i + 1] = M[1]
        BY <1>6, <1>7, <2>2, <3>1
    <3> QED BY <1>3, <2>2, <3>1, <3>2, <3>3 DEF EndsAt
  <2>3. CASE i > Len(F)
    <3>1. /\ i - Len(F) \in 1 .. Len(M) /\ (i - Len(F)) + 1 \in 1 .. Len(M)
          /\ i = Len(F) + (i - Len(F)) /\ i + 1 = Len(F) + ((i - Len(F)) + 1)
        BY <1>4, <1>5, <2>3
    <3>2. G[i] = M[i - Len(F)] /\ G[i + 1] = M[(i - Len(F)) + 1]
        BY <1>7, <3>1
    <3> QED BY <1>3, <3>1, <3>2
  <2>4. i < Len(F) \/ i = Len(F) \/ i > Len(F)
    <3>1. i \in Int /\ Len(F) \in Int
        BY <1>5
    <3> QED BY <3>1
  <2> QED BY <2>1, <2>2, <2>3, <2>4, Zenon
<1>16. EndsAt(G, l)
  <2>1. Len(M) \in 1 .. Len(M) /\ Len(G) = Len(F) + Len(M)
      BY <1>2, <1>4, <1>5
  <2>2. G[Len(G)] = M[Len(M)]
      BY <1>7, <2>1
  <2> QED BY <1>3, <2>1, <2>2 DEF EndsAt
<1>17. Once(G, l)
    BY <1>5, <1>13, <1>14 DEF Once
<1> QED BY <1>15, <1>16, <1>17 DEF G, M

-----------------------------------------------------------------------------
(* The fetcher and its consumer *)

\* The inductive invariant: nothing has been fetched twice or left out, and the
\* fetcher's position is the end of what has been fetched.
Inv ==
    /\ TypeOK
    /\ FetchConsistent
    /\ StartingVersion - 1 <= last_fetched_version
    /\ Once(Fetched, last_fetched_version)
    /\ Adjacent(Fetched)
    /\ EndsAt(Fetched, last_fetched_version)

\* A step of the fetcher leaves what has been fetched as it is or adds the
\* messages of the next response to it.
LEMMA FetchedGrows ==
    ASSUME TypeOK, FetchEffect, UNCHANGED received
    PROVE  \/ Fetched' = Fetched /\ UNCHANGED last_fetched_version
           \/ /\ last_fetched_version' \in Nat
              /\ last_fetched_version < last_fetched_version'
              /\ Fetched' = Fetched \o
                    Messages(last_fetched_version + 1, last_fetched_version')
<1>1. /\ outbox \in Seq(TransactionsPBResponse)
      /\ channel \in Seq(TransactionsPBResponse)
      /\ received \in Seq(TransactionsPBResponse)
    BY DEF TypeOK, FetchTypeOK
<1>2. CASE UNCHANGED <<outbox, channel, last_fetched_version>>
    BY <1>2 DEF Fetched
<1>3. CASE /\ outbox # <<>>
           /\ channel' = Append(channel, Head(outbox))
           /\ outbox' = Tail(outbox)
           /\ UNCHANGED last_fetched_version
  <2> HIDE DEF TransactionsPBResponse
  <2>1. channel' \o outbox' = channel \o outbox
      BY <1>1, <1>3, HeadMoves
  <2>2. /\ channel' \in Seq(TransactionsPBResponse)
        /\ outbox' \in Seq(TransactionsPBResponse)
      BY <1>1, <1>3
  <2>3. (received \o channel') \o outbox' = received \o (channel' \o outbox')
      BY <1>1, <2>2, ConcatAssociative
  <2>4. (received \o channel) \o outbox = received \o (channel \o outbox)
      BY <1>1, ConcatAssociative
  <2>5. Fetched' = Fetched
      BY <2>1, <2>3, <2>4 DEF Fetched
  <2> QED BY <1>3, <2>5
<1>4. CASE /\ outbox = <<>>
           /\ last_fetched_version' \in Nat
           /\ last_fetched_version < last_fetched_version'
           /\ outbox' = Messages(last_fetched_version + 1, last_fetched_version')
           /\ UNCHANGED channel
  <2>1. Fetched = received \o channel
    <3>1. received \o channel \in Seq(TransactionsPBResponse)
        BY <1>1, ConcatProperties
    <3>2. (received \o channel) \o <<>> = received \o channel
        BY <3>1, ConcatEmptySeq
    <3> QED BY <1>4, <3>2 DEF Fetched
  <2>2. Fetched' = (received \o channel) \o outbox'
      BY <1>4 DEF Fetched
  <2> QED BY <1>4, <2>1, <2>2
<1> QED BY <1>2, <1>3, <1>4 DEF FetchEffect

\* What has been fetched is a sequence of messages.
LEMMA FetchedType ==
    ASSUME TypeOK
    PROVE  Fetched \in Seq(TransactionsPBResponse)
<1>1. /\ outbox \in Seq(TransactionsPBResponse)
      /\ channel \in Seq(TransactionsPBResponse)
      /\ received \in Seq(TransactionsPBResponse)
    BY DEF TypeOK, FetchTypeOK
<1>2. received \o channel \in Seq(TransactionsPBResponse)
    BY <1>1, ConcatProperties
<1> QED BY <1>1, <1>2, ConcatProperties DEF Fetched

\* Nothing has been fetched at the beginning.
LEMMA InitInv == Init => Inv
<1> SUFFICES ASSUME Init PROVE Inv
    OBVIOUS
<1>1. TypeOK
    BY FetcherAssumption, StartingVersionAssumption
    DEF Init, FetchInit, TypeOK, FetchTypeOK
<1>2. FetchConsistent
    BY StartingVersionAssumption DEF Init, FetchInit, FetchConsistent
<1>3. Fetched = <<>>
  <2>1. <<>> \o <<>> = <<>>
      BY ConcatEmptySeq, EmptySeq
  <2> QED BY <2>1 DEF Init, FetchInit, Fetched
<1>4. last_fetched_version = StartingVersion - 1 /\ StartingVersion \in Nat
    BY StartingVersionAssumption DEF Init, FetchInit
<1>5. Retained(StartingVersion, last_fetched_version) = {}
    BY <1>4 DEF Retained
<1>6. /\ Once(Fetched, last_fetched_version)
      /\ Adjacent(Fetched)
      /\ EndsAt(Fetched, last_fetched_version)
    BY <1>3, <1>5 DEF Once, TxnsOf, Adjacent, EndsAt
<1> QED BY <1>1, <1>2, <1>4, <1>6 DEF Inv

\* Every step preserves the inductive invariant.
LEMMA NextInv ==
    ASSUME Inv, [Next]_vars
    PROVE  Inv'
<1>1. CASE Progress \/ Failure
  <2>1. FetchTypeOK /\ FetchConsistent /\ (FetchProgress \/ FetchFault)
      BY <1>1 DEF Progress, Failure, Inv, TypeOK
  <2>2. FetchTypeOK' /\ FetchConsistent' /\ FetchEffect
      BY <2>1, FetchStepType, FetchStep
  <2>3. UNCHANGED received
      BY <1>1 DEF Progress, Failure
  <2>4. TypeOK'
      BY <2>2, <2>3 DEF Inv, TypeOK
  <2>5. CASE Fetched' = Fetched /\ UNCHANGED last_fetched_version
      BY <2>2, <2>4, <2>5 DEF Inv, Once, Adjacent, EndsAt
  <2>6. CASE /\ last_fetched_version' \in Nat
             /\ last_fetched_version < last_fetched_version'
             /\ Fetched' = Fetched \o
                    Messages(last_fetched_version + 1, last_fetched_version')
    <3>1. /\ Fetched \in Seq(TransactionsPBResponse)
          /\ last_fetched_version \in Int
          /\ StartingVersion - 1 <= last_fetched_version
          /\ StartingVersion \in Nat
        BY FetchedType, StartingVersionAssumption DEF Inv, TypeOK, FetchTypeOK
    <3>2. /\ Once(Fetched', last_fetched_version')
          /\ Adjacent(Fetched')
          /\ EndsAt(Fetched', last_fetched_version')
        BY <2>6, <3>1, ResponseExtends DEF Inv
    <3>3. StartingVersion - 1 <= last_fetched_version'
        BY <2>6, <3>1
    <3> QED BY <2>2, <2>4, <3>2, <3>3 DEF Inv, Once, Adjacent, EndsAt
  <2> QED BY <2>2, <2>3, <2>5, <2>6, FetchedGrows DEF Inv
<1>2. CASE Receive
  <2>1. /\ channel # <<>>
        /\ received' = Append(received, Head(channel))
        /\ channel' = Tail(channel)
        /\ UNCHANGED <<fetchVars, faults>>
        /\ received \in Seq(TransactionsPBResponse)
        /\ channel \in Seq(TransactionsPBResponse)
      BY <1>2 DEF Receive, Inv, TypeOK, FetchTypeOK
  <2>2. Fetched' = Fetched
    <3>1. received' \o channel' = received \o channel
        BY <2>1, HeadMoves
    <3> QED BY <2>1, <3>1 DEF Fetched, fetchVars
  <2>3. /\ received' \in Seq(TransactionsPBResponse)
        /\ channel' \in Seq(TransactionsPBResponse)
    <3> HIDE DEF TransactionsPBResponse
    <3> QED BY <2>1
  <2>4. TypeOK'
      BY <2>1, <2>3 DEF Inv, TypeOK, FetchTypeOK, fetchVars, streamVars
  <2>5. FetchConsistent'
      BY <2>1 DEF Inv, FetchConsistent, fetchVars, streamVars, IsEnd
  <2> QED BY <2>1, <2>2, <2>4, <2>5
          DEF Inv, Once, Adjacent, EndsAt, fetchVars
<1>3. CASE UNCHANGED vars
  <2>1. TypeOK' /\ FetchConsistent'
      BY <1>3
      DEF vars, fetchVars, streamVars, Inv, TypeOK, FetchTypeOK, FetchConsistent, IsEnd
  <2>2. Fetched' = Fetched /\ UNCHANGED last_fetched_version
      BY <1>3 DEF vars, fetchVars, Fetched
  <2> QED BY <2>1, <2>2 DEF Inv, Once, Adjacent, EndsAt
<1> QED BY <1>1, <1>2, <1>3 DEF Next, Done

\* The invariant holds in every reachable state.
LEMMA Invariance == Spec => []Inv
BY InitInv, NextInv, PTL DEF Spec

-----------------------------------------------------------------------------
(* What the consumer can rely on *)

\* Every variable of the fetcher keeps its type, whatever the data service does:
\* in particular the retry counters stay within their limits, and there is always
\* a message to send where the loop sends one.
THEOREM TypeInvariant == Spec => []TypeOK
<1>1. Inv => TypeOK
    BY DEF Inv
<1> QED BY Invariance, <1>1, PTL

\* Through any number of timeouts, broken streams and reconnections, every
\* transaction that the filter keeps, from the starting version to the last
\* version fetched, is in exactly one message, and the messages are in version
\* order.
THEOREM TransactionsAreFetchedOnce == Spec => []EachTransactionOnce
<1>1. Inv => EachTransactionOnce
    BY DEF Inv, Once, EachTransactionOnce
<1> QED BY Invariance, <1>1, PTL

\* The version ranges of consecutive messages are adjacent, or are the same when
\* they are chunks of one response.
THEOREM RangesStayAdjacent == Spec => []RangesAreAdjacent
<1>1. Inv => RangesAreAdjacent
    BY DEF Inv, Adjacent, RangesAreAdjacent
<1> QED BY Invariance, <1>1, PTL

\* When the fetcher has returned, the consumers have received every transaction
\* from the starting version to the ending version that the filter keeps.
THEOREM ClosedIsDelivered == Spec => []ClosedMeansDelivered
<1>1. Inv => ClosedMeansDelivered
  <2> SUFFICES ASSUME Inv, fetch_pc = "closed"
               PROVE  /\ TxnsOf(received) = Retained(StartingVersion, last_fetched_version)
                      /\ last_fetched_version >= EndingVersion
      BY DEF ClosedMeansDelivered
  <2>1. /\ outbox = <<>>
        /\ channel = <<>>
        /\ IsEnd(next_version_to_fetch)
        /\ next_version_to_fetch = last_fetched_version + 1
      BY DEF Inv, FetchConsistent
  <2>2. received \in Seq(TransactionsPBResponse) /\ last_fetched_version \in Int
      BY DEF Inv, TypeOK, FetchTypeOK
  <2>3. Fetched = received
    <3>1. received \o <<>> = received
        BY <2>2, ConcatEmptySeq
    <3> QED BY <2>1, <3>1 DEF Fetched
  <2>4. last_fetched_version >= EndingVersion
      BY <2>1, <2>2, FetcherAssumption DEF IsEnd
  <2> QED BY <2>3, <2>4 DEF Inv, Once
<1> QED BY Invariance, <1>1, PTL

\* A stream never owes more than what is left up to the ending version.
WithinEnding ==
    EndingVersion # NoVersion =>
        /\ last_fetched_version <= EndingVersion
        /\ fetch_pc \in {"stream", "send"} =>
                stream_next + stream_left <= EndingVersion + 1

\* Unless the starting version is beyond the ending version by more than one, the
\* number of transactions requested does not wrap around, and no step of the
\* fetcher goes past the ending version.
LEMMA EndingStep ==
    ASSUME Inv, WithinEnding, [Next]_vars
    PROVE  WithinEnding'
<1> SUFFICES ASSUME EndingVersion # NoVersion
             PROVE  /\ last_fetched_version' <= EndingVersion
                    /\ fetch_pc' \in {"stream", "send"} =>
                            stream_next' + stream_left' <= EndingVersion + 1
    BY DEF WithinEnding
<1> USE FetcherAssumption
<1>1. /\ last_fetched_version <= EndingVersion
      /\ fetch_pc \in {"stream", "send"} =>
            stream_next + stream_left <= EndingVersion + 1
      /\ EndingVersion \in Nat
      /\ FetchTypeOK
      /\ FetchConsistent
    BY DEF WithinEnding, Inv, TypeOK
<1>2. CASE StreamOpened
  <2>1. /\ next_version_to_fetch \in Nat
        /\ next_version_to_fetch <= EndingVersion + 1
        /\ UNCHANGED last_fetched_version
        /\ stream_next' = next_version_to_fetch
        /\ stream_left' = (EndingVersion - next_version_to_fetch + 1) % U64Size
      BY <1>1, <1>2 DEF StreamOpened, FetchTypeOK, FetchConsistent, TransactionsCount
  <2> DEFINE left == EndingVersion - next_version_to_fetch + 1
  <2>2. left \in Nat /\ left <= U64Size
      BY <1>1, <2>1
  <2>3. left % U64Size <= left
    <3> HIDE DEF left
    <3>1. CASE left = U64Size
        BY <2>2, <3>1
    <3>2. CASE left < U64Size
        BY <2>2, <3>2
    <3> QED BY <2>2, <3>1, <3>2
  <2>4. left % U64Size \in Nat
    <3> HIDE DEF left
    <3> QED BY <2>2
  <2> QED BY <1>1, <2>1, <2>2, <2>3, <2>4
<1>3. CASE StreamServes
  <2>1. PICK n \in 1 .. MaxBatch :
            /\ n <= stream_left
            /\ ReceiveResponse(stream_next, stream_next + n - 1)
            /\ stream_next' = stream_next + n
            /\ stream_left' = stream_left - n
      BY <1>3 DEF StreamServes
  <2>2. /\ fetch_pc = "stream"
        /\ \/ last_fetched_version' = last_fetched_version
           \/ last_fetched_version' = stream_next + n - 1
      BY <2>1 DEF ReceiveResponse
  <2> QED BY <1>1, <2>1, <2>2 DEF FetchTypeOK
<1>4. CASE StreamServesGap
  <2>1. PICK first \in 0 .. LedgerHead :
            first # stream_next /\ ReceiveResponse(first, first)
      BY <1>4 DEF StreamServesGap
  <2>2. fetch_pc' = "panic" /\ UNCHANGED last_fetched_version
      BY <1>1, <2>1 DEF ReceiveResponse, FetchConsistent
  <2> QED BY <1>1, <2>2
<1>5. CASE SendToChannel
    BY <1>1, <1>5 DEF SendToChannel, streamVars
<1>6. CASE Connected \/ CloseChannel \/ StreamStops
    BY <1>1, <1>6 DEF Connected, CloseChannel, StreamStops, streamVars
<1>7. CASE AttemptTimesOut \/ AttemptFails \/ EmptyResponse
    BY <1>1, <1>7 DEF AttemptTimesOut, AttemptFails, EmptyResponse, streamVars
<1>8. CASE Receive \/ UNCHANGED vars
    BY <1>1, <1>8 DEF Receive, vars, fetchVars, streamVars
<1> QED BY <1>2, <1>3, <1>4, <1>5, <1>6, <1>7, <1>8
        DEF Next, Progress, Failure, Done, FetchProgress, FetchFault

\* With an ending version that is not already passed, no transaction above it is
\* ever sent to the processor tasks.
THEOREM NothingIsSentPastEnding ==
    ASSUME EndingVersion # NoVersion => StartingVersion <= EndingVersion + 1
    PROVE  Spec => []NothingPastEnding
<1>1. Init => WithinEnding
    BY FetcherAssumption, StartingVersionAssumption DEF Init, FetchInit, WithinEnding
<1>2. Inv /\ WithinEnding /\ [Next]_vars => WithinEnding'
    BY EndingStep
<1>3. Inv /\ WithinEnding => NothingPastEnding
  <2> SUFFICES ASSUME Inv, WithinEnding, EndingVersion # NoVersion,
                      NEW v \in TxnsOf(Fetched)
               PROVE  v <= EndingVersion
      BY DEF NothingPastEnding
  <2>1. v \in Retained(StartingVersion, last_fetched_version)
      BY DEF Inv, Once
  <2>2. last_fetched_version \in Int /\ StartingVersion \in Nat
      BY StartingVersionAssumption DEF Inv, TypeOK, FetchTypeOK
  <2>3. last_fetched_version <= EndingVersion /\ EndingVersion \in Nat
      BY FetcherAssumption DEF WithinEnding
  <2> QED BY <2>1, <2>2, <2>3 DEF Retained
<1> QED BY Invariance, <1>1, <1>2, <1>3, PTL DEF Spec
=============================================================================
