---------------------------- MODULE UpsertProofs ----------------------------
(***************************************************************************)
(* What Upsert.tla promises, for every history of writes, every number of  *)
(* tasks, failures and restarts, and every batch and chunk size.           *)
(***************************************************************************)
EXTENDS Upsert, SequenceTheorems, FunctionTheorems, FiniteSetTheorems, TLAPS

-----------------------------------------------------------------------------
(* Numbers and finite sets *)

\* A set of natural numbers has a least element.
LEMMA LeastNat ==
    ASSUME NEW T, T \subseteq Nat, T # {}
    PROVE  \E x \in T : \A y \in T : x <= y
<1> DEFINE R == OpToRel(<, Nat)
<1>1. \A x, y \in Nat : y < x => <<y, x>> \in R
    BY DEF OpToRel
<1>2. IsWellFoundedOn(R, Nat)
    BY NatLessThanWellFounded
<1> HIDE DEF R
<1>3. PICK x \in T : \A y \in T : ~ (<<y, x>> \in R)
    BY <1>2, WFMin
<1>4. ASSUME NEW y \in T
      PROVE  x <= y
  <2>1. x \in Nat /\ y \in Nat /\ <<y, x>> \notin R
      BY <1>3
  <2>2. ~(y < x)
      BY <1>1, <2>1
  <2> QED BY <2>1, <2>2
<1> QED BY <1>4

\* A set of versions has a first and a last one.
LEMMA VersionBounds ==
    ASSUME NEW T, T \subseteq Versions, T # {}
    PROVE  /\ \E x \in T : \A y \in T : x <= y
           /\ \E x \in T : \A y \in T : y <= x
<1>1. LastVersion \in Nat
    BY UpsertAssumption
<1>2. T \subseteq Nat
    BY <1>1 DEF Versions
<1>3. \E x \in T : \A y \in T : x <= y
    BY <1>2, LeastNat
<1>4. \E x \in T : \A y \in T : y <= x
  <2> DEFINE D == {LastVersion - y : y \in T}
  <2>1. D \subseteq Nat /\ D # {}
    <3>1. \A y \in T : LastVersion - y \in Nat
        BY <1>1 DEF Versions
    <3> QED BY <3>1
  <2>2. PICK d \in D : \A e \in D : d <= e
    <3> HIDE DEF D
    <3> QED BY <2>1, LeastNat
  <2>3. PICK x \in T : d = LastVersion - x
      OBVIOUS
  <2>4. ASSUME NEW y \in T
        PROVE  y <= x
    <3>1. LastVersion - x <= LastVersion - y
        BY <2>2, <2>3
    <3>2. x \in Nat /\ y \in Nat
        BY <1>2
    <3> QED BY <1>1, <3>1, <3>2
  <2> QED BY <2>4
<1> QED BY <1>3, <1>4

\* There are finitely many primary keys and finitely many rows.
LEMMA FiniteRows == IsFiniteSet(PrimaryKeys) /\ IsFiniteSet(Row)
<1>1. /\ LastVersion \in Nat
      /\ IsFiniteSet(Keys)
    BY UpsertAssumption
<1>2. IsFiniteSet(0 .. LastVersion) /\ IsFiniteSet(Versions)
    BY <1>1, FS_Interval DEF Versions
<1>3. IsFiniteSet(PrimaryKeys)
    BY <1>1, <1>2, FS_Product DEF PrimaryKeys
<1>4. IsFiniteSet(Row)
  <2> DEFINE T == PrimaryKeys \X Versions
             f == [r \in Row |-> <<r.key, r.version>>]
  <2>1. IsFiniteSet(T)
      BY <1>2, <1>3, FS_Product
  <2>2. f \in [Row -> T]
      BY DEF Row
  <2>3. ASSUME NEW a \in Row, NEW b \in Row, f[a] = f[b]
        PROVE  a = b
    <3>1. a.key = b.key /\ a.version = b.version
        BY <2>3
    <3> QED BY <3>1 DEF Row
  <2>4. f \in Injection(Row, T)
    <3> HIDE DEF f, T
    <3> QED BY <2>2, <2>3, Fun_IsInj
  <2> HIDE DEF f, T
  <2> QED BY <2>1, <2>4, FS_Injection
<1> QED BY <1>3, <1>4

-----------------------------------------------------------------------------
(* The chunks of a list of rows *)

\* Quotient and remainder, as execute_in_chunks cuts a list.
LEMMA DivFacts ==
    ASSUME NEW d \in Nat, d >= 1, NEW a \in Nat, NEW b \in Nat
    PROVE  /\ a \div d \in Nat
           /\ a <= b => a \div d <= b \div d
           /\ (a + d) \div d = (a \div d) + 1
           /\ a % d \in 0 .. d - 1
           /\ a = (a \div d) * d + (a % d)
<1>1. a \div d \in Nat /\ b \div d \in Nat /\ a % d \in 0 .. d - 1 /\ b % d \in 0 .. d - 1
    OBVIOUS
<1>2. a = (a \div d) * d + (a % d) /\ b = (b \div d) * d + (b % d)
    OBVIOUS
<1>3. a <= b => a \div d <= b \div d
    OBVIOUS
<1>4. (a + d) \div d = (a \div d) + 1
    OBVIOUS
<1> QED BY <1>1, <1>2, <1>3, <1>4

\* A chunk is a part of the list.
LEMMA ChunkRows ==
    ASSUME NEW q \in Seq(Row), NEW c \in Nat, c >= 1
    PROVE  /\ Chunk(q, c) \in Seq(Row)
           /\ \A i \in 1 .. Len(Chunk(q, c)) :
                 /\ (c - 1) * ChunkSize + i \in 1 .. Len(q)
                 /\ Chunk(q, c)[i] = q[(c - 1) * ChunkSize + i]
           /\ Len(Chunk(q, c)) =
                 LET n == IF c * ChunkSize < Len(q) THEN c * ChunkSize ELSE Len(q)
                     m == (c - 1) * ChunkSize + 1
                 IN  IF m <= n THEN n - m + 1 ELSE 0
<1> DEFINE m == (c - 1) * ChunkSize + 1
           n == IF c * ChunkSize < Len(q) THEN c * ChunkSize ELSE Len(q)
<1>1. ChunkSize \in Nat /\ Len(q) \in Nat
    BY UpsertAssumption
<1>2. (c - 1) * ChunkSize \in Nat /\ c * ChunkSize \in Nat
    BY <1>1
<1>3. m \in Nat /\ m >= 1 /\ n \in Nat /\ n <= Len(q)
  <2>1. m \in Nat /\ m >= 1
      BY <1>2
  <2>2. n \in Nat /\ n <= Len(q)
      BY <1>1, <1>2
  <2> QED BY <2>1, <2>2
<1>4. Chunk(q, c) = SubSeq(q, m, n)
    BY DEF Chunk
<1>5. (c - 1) * ChunkSize = m - 1
    BY <1>2
<1> HIDE DEF m, n
<1>6. \A i \in m .. n : q[i] \in Row
  <2>1. \A i \in m .. n : i \in 1 .. Len(q)
      BY <1>1, <1>3
  <2> QED BY <2>1, ElementOfSeq
<1>7. /\ SubSeq(q, m, n) \in Seq(Row)
      /\ Len(SubSeq(q, m, n)) = IF m <= n THEN n - m + 1 ELSE 0
      /\ \A i \in 1 .. n - m + 1 : SubSeq(q, m, n)[i] = q[m + i - 1]
    BY <1>3, <1>6, SubSeqProperties
<1>8. ASSUME NEW i \in 1 .. Len(SubSeq(q, m, n))
      PROVE  /\ (m - 1) + i \in 1 .. Len(q)
             /\ SubSeq(q, m, n)[i] = q[(m - 1) + i]
  <2>1. i \in 1 .. n - m + 1 /\ (m - 1) + i = m + i - 1 /\ (m - 1) + i \in 1 .. Len(q)
      BY <1>1, <1>3, <1>7
  <2> QED BY <1>7, <2>1
<1> QED BY <1>4, <1>5, <1>7, <1>8 DEF m, n

\* Every row of the list is in some chunk.
LEMMA ChunksCover ==
    ASSUME NEW q \in Seq(Row), NEW j \in 1 .. Len(q)
    PROVE  \E c \in 1 .. NumChunks(q) : \E i \in 1 .. Len(Chunk(q, c)) :
              Chunk(q, c)[i] = q[j]
<1> DEFINE c == ((j - 1) \div ChunkSize) + 1
           i == ((j - 1) % ChunkSize) + 1
<1>1. ChunkSize \in Nat /\ ChunkSize >= 1 /\ Len(q) \in Nat
    BY UpsertAssumption
<1>2. j \in Nat /\ j - 1 \in Nat /\ Len(q) - 1 \in Nat /\ j - 1 <= Len(q) - 1
    BY <1>1
<1>3. /\ (j - 1) \div ChunkSize \in Nat
      /\ (j - 1) \div ChunkSize <= (Len(q) - 1) \div ChunkSize
      /\ (j - 1) % ChunkSize \in 0 .. ChunkSize - 1
      /\ j - 1 = ((j - 1) \div ChunkSize) * ChunkSize + ((j - 1) % ChunkSize)
    BY <1>1, <1>2, DivFacts
<1>4. /\ (Len(q) - 1) \div ChunkSize \in Nat
      /\ NumChunks(q) = ((Len(q) - 1) \div ChunkSize) + 1
  <2>1. /\ (Len(q) - 1) \div ChunkSize \in Nat
        /\ ((Len(q) - 1) + ChunkSize) \div ChunkSize = ((Len(q) - 1) \div ChunkSize) + 1
      BY <1>1, <1>2, DivFacts
  <2>2. (Len(q) - 1) + ChunkSize = Len(q) + ChunkSize - 1
      BY <1>1
  <2> QED BY <2>1, <2>2 DEF NumChunks
<1>5. c \in 1 .. NumChunks(q) /\ c \in Nat /\ c >= 1
    BY <1>3, <1>4
<1>6. c - 1 = (j - 1) \div ChunkSize /\ i - 1 = (j - 1) % ChunkSize
    BY <1>3
<1>7. i \in 1 .. ChunkSize
    BY <1>1, <1>3
<1> HIDE DEF c, i
<1>8. j = (c - 1) * ChunkSize + i
  <2>1. (c - 1) * ChunkSize \in Nat
      BY <1>1, <1>5
  <2>2. j - 1 = (c - 1) * ChunkSize + (i - 1)
      BY <1>3, <1>6, Zenon
  <2> QED BY <1>2, <1>7, <2>1, <2>2
<1>9. i \in 1 .. Len(Chunk(q, c))
  <2> DEFINE a == (c - 1) * ChunkSize
  <2>1. a \in Nat /\ c * ChunkSize = a + ChunkSize
      BY <1>1, <1>5
  <2>2. Len(Chunk(q, c)) =
            LET n == IF a + ChunkSize < Len(q) THEN a + ChunkSize ELSE Len(q)
                m == a + 1
            IN  IF m <= n THEN n - m + 1 ELSE 0
      BY <1>5, <2>1, ChunkRows
  <2>3. j = a + i /\ j <= Len(q)
      BY <1>8
  <2> HIDE DEF a
  <2> QED BY <1>1, <1>7, <2>1, <2>2, <2>3
<1>10. Chunk(q, c)[i] = q[j]
    BY <1>5, <1>8, <1>9, ChunkRows
<1> QED BY <1>5, <1>9, <1>10

-----------------------------------------------------------------------------
(* The rows of a batch, and the statements for them *)

\* What makes up a row, and how its key is built.
LEMMA PrimaryKeyType ==
    ASSUME NEW v \in Versions, NEW k \in Keys
    PROVE  /\ PrimaryKey(v, k) \in PrimaryKeys
           /\ [key |-> PrimaryKey(v, k), version |-> v] \in Row
<1>1. v \in 0 .. LastVersion /\ 0 \in 0 .. LastVersion
    BY UpsertAssumption DEF Versions
<1>2. PrimaryKey(v, k) \in PrimaryKeys
    BY <1>1 DEF PrimaryKey, PrimaryKeys
<1> QED BY <1>2 DEF Row

\* The rows of a batch come from its transactions.
LEMMA BatchRowsType ==
    ASSUME TypeOK, NEW B, B \subseteq Versions
    PROVE  /\ \A r : r \in AllRows(B) <=>
                 \E v \in B : \E k \in writes[v] :
                    r = [key |-> PrimaryKey(v, k), version |-> v]
           /\ AllRows(B) \subseteq Row
           /\ BatchRows(B) \subseteq AllRows(B)
           /\ BatchRows(B) \subseteq Row
<1>1. ASSUME NEW r
      PROVE  r \in AllRows(B) <=>
                 \E v \in B : \E k \in writes[v] :
                    r = [key |-> PrimaryKey(v, k), version |-> v]
  <2> DEFINE F(v) == {[key |-> PrimaryKey(v, k), version |-> v] : k \in writes[v]}
  <2>1. AllRows(B) = UNION {F(v) : v \in B}
      BY DEF AllRows
  <2>2. \A v : r \in F(v) <=>
             \E k \in writes[v] : r = [key |-> PrimaryKey(v, k), version |-> v]
      OBVIOUS
  <2> HIDE DEF F
  <2>3. r \in UNION {F(v) : v \in B} <=> \E v \in B : r \in F(v)
      OBVIOUS
  <2> QED BY <2>1, <2>2, <2>3
<1>2. ASSUME NEW r \in AllRows(B)
      PROVE  r \in Row
  <2>1. PICK v \in B : \E k \in writes[v] : r = [key |-> PrimaryKey(v, k), version |-> v]
      BY <1>1
  <2>2. PICK k \in writes[v] : r = [key |-> PrimaryKey(v, k), version |-> v]
      BY <2>1
  <2>3. v \in Versions /\ k \in Keys
      BY <2>2 DEF TypeOK
  <2> QED BY <2>2, <2>3, PrimaryKeyType
<1>3. BatchRows(B) \subseteq AllRows(B)
    BY DEF BatchRows
<1> QED BY <1>1, <1>2, <1>3

\* The list that is sent has every row once.
LEMMA SortedRowsType ==
    ASSUME NEW R, R \subseteq Row, NEW q \in SortedRows(R)
    PROVE  /\ q \in Seq(Row)
           /\ \A i \in 1 .. Len(q) : q[i] \in R
           /\ \A r \in R : \E i \in 1 .. Len(q) : q[i] = r
           /\ \A i, j \in 1 .. Len(q) : i < j =>
                 /\ q[i] # q[j]
                 /\ kind.ordered => ~KeyBefore(q[j].key, q[i].key)
<1> DEFINE n == Cardinality(R)
<1>1. IsFiniteSet(R) /\ n \in Nat
    BY FiniteRows, FS_Subset, FS_CardinalityType
<1>2. /\ q \in [1 .. n -> R]
      /\ \A i, j \in DOMAIN q : i < j =>
            /\ q[i] # q[j]
            /\ kind.ordered => ~KeyBefore(q[j].key, q[i].key)
    BY DEF SortedRows
<1> HIDE DEF n
<1>3. DOMAIN q = 1 .. n
    BY <1>2
<1>4. q \in Seq(R) /\ Len(q) = n
    BY <1>1, <1>2
<1>5. q \in Seq(Row)
    BY <1>1, <1>2
<1>6. q \in Injection(1 .. n, R)
  <2>1. ASSUME NEW i \in 1 .. n, NEW j \in 1 .. n, q[i] = q[j]
        PROVE  i = j
    <3>1. ~(i < j) /\ ~(j < i)
        BY <1>2, <1>3, <2>1
    <3>2. i \in Nat /\ j \in Nat
        OBVIOUS
    <3> QED BY <3>1, <3>2
  <2> QED BY <1>2, <2>1, Fun_IsInj
<1>7. q \in Surjection(1 .. n, R)
  <2>1. Cardinality(1 .. n) = n
      BY <1>1, FS_Interval
  <2> QED BY <1>1, <1>6, <2>1, FS_Injection DEF n
<1>8. \A r \in R : \E i \in 1 .. n : q[i] = r
    BY <1>7 DEF Surjection
<1> QED BY <1>2, <1>3, <1>4, <1>5, <1>8

\* What a new statement looks like.
LEMMA NewStatementsType ==
    ASSUME NEW t \in Tasks, NEW q \in Seq(Row), NEW s \in NewStatements(t, q),
           life \in Nat
    PROVE  /\ s \in Statement
           /\ s.life = life /\ s.task = t /\ s.pos = 1 /\ s.result = "running"
           /\ s.pos \in 1 .. Len(s.rows) + 1
           /\ \E c \in Nat : c >= 1 /\ s.rows = Chunk(q, c)
<1>1. PICK c \in 1 .. NumChunks(q) :
         s = [life |-> life, task |-> t, chunk |-> c, rows |-> Chunk(q, c),
              pos |-> 1, attempt |-> 1, result |-> "running"]
    BY DEF NewStatements
<1>2. c \in Nat /\ c >= 1
    BY <1>1
<1>3. Chunk(q, c) \in Seq(Row)
    BY <1>2, ChunkRows
<1>4. /\ s.life = life /\ s.task = t /\ s.chunk = c /\ s.rows = Chunk(q, c)
      /\ s.pos = 1 /\ s.attempt = 1 /\ s.result = "running"
    BY <1>1
<1>5. s \in Statement
    BY <1>1, <1>2, <1>3 DEF Statement
<1>6. 1 \in 1 .. Len(s.rows) + 1
  <2>1. Len(s.rows) \in Nat
      BY <1>3, <1>4
  <2> QED BY <2>1
<1> QED BY <1>2, <1>4, <1>5, <1>6

-----------------------------------------------------------------------------
(* What a statement does to the table *)

Guards == {"latest", "first", "always", "nothing"}

\* ON CONFLICT stores the new row or keeps the old one, never nothing, and by the
\* clause of the table the later (earlier) of the two.
LEMMA ResolveFacts ==
    ASSUME NEW guard \in Guards, NEW old \in Versions \cup {NoRow}, NEW new \in Versions
    PROVE  LET x == Resolve(guard, old, new)
           IN  /\ x \in Versions /\ x # NoRow
               /\ x \in {old, new}
               /\ old = NoRow => x = new
               /\ guard = "latest" => new <= x
               /\ guard = "first" => x <= new
               /\ old # NoRow /\ guard = "latest" => old <= x
               /\ old # NoRow /\ guard = "first" => x <= old
<1>1. LastVersion \in Nat
    BY UpsertAssumption
<1>2. new \in Nat /\ old \in Nat /\ NoRow \notin Versions
    BY <1>1 DEF Versions, NoRow
<1>3. CASE old = NoRow
    BY <1>2, <1>3 DEF Resolve
<1>4. CASE old # NoRow /\ guard = "latest"
    BY <1>2, <1>4 DEF Resolve
<1>5. CASE old # NoRow /\ guard = "first"
    BY <1>2, <1>5 DEF Resolve
<1>6. CASE old # NoRow /\ guard = "always"
    BY <1>2, <1>6 DEF Resolve
<1>7. CASE old # NoRow /\ guard = "nothing"
    BY <1>2, <1>7 DEF Resolve
<1> QED BY <1>3, <1>4, <1>5, <1>6, <1>7 DEF Guards

\* The guard that reaches the database is one of the four; it is the table's own
\* unless a row has the word "where" in it.
LEMMA GuardType ==
    ASSUME TypeOK, NEW s \in stmts
    PROVE  /\ EffectiveGuard(s) \in Guards
           /\ WhereVersions \cap Versions = {} => EffectiveGuard(s) = kind.guard
<1>1. kind.guard \in Guards
    BY DEF TypeOK, AnyKind, Guards
<1>2. EffectiveGuard(s) \in {"always", kind.guard}
    BY DEF EffectiveGuard
<1>3. ASSUME WhereVersions \cap Versions = {}
      PROVE  EffectiveGuard(s) = kind.guard
  <2>1. s.rows \in Seq(Row)
      BY DEF TypeOK, Statement
  <2>2. \A i \in DOMAIN s.rows : s.rows[i].version \in Versions
    <3>1. \A i \in DOMAIN s.rows : s.rows[i] \in Row
        BY <2>1
    <3> QED BY <3>1 DEF Row
  <2> QED BY <1>3, <2>2 DEF EffectiveGuard
<1> QED BY <1>1, <1>2, <1>3 DEF Guards

\* The row of a statement that is stored under a key.
LEMMA RowForFacts ==
    ASSUME TypeOK, NEW s \in stmts, NEW p \in Locked(s)
    PROVE  /\ RowFor(s, p) \in 1 .. Len(s.rows)
           /\ s.rows[RowFor(s, p)].key = p
           /\ s.rows[RowFor(s, p)].version \in Versions
<1>1. s.rows \in Seq(Row) /\ s.pos \in 1 .. Len(s.rows) + 1 /\ Len(s.rows) \in Nat
    BY DEF TypeOK, Statement
<1>2. DOMAIN s.rows = 1 .. Len(s.rows)
    BY <1>1
<1>3. PICK i \in 1 .. s.pos - 1 : p = s.rows[i].key
    BY DEF Locked
<1>4. i \in 1 .. Len(s.rows)
    BY <1>1
<1>5. RowFor(s, p) \in DOMAIN s.rows /\ s.rows[RowFor(s, p)].key = p
    BY <1>2, <1>3, <1>4 DEF RowFor
<1>6. s.rows[RowFor(s, p)] \in Row
    BY <1>1, <1>5
<1> QED BY <1>2, <1>5, <1>6 DEF Row

\* A commit leaves a row alone or resolves it against a row of the statement; no
\* row of the statement is forgotten.
LEMMA CommitTable ==
    ASSUME TypeOK, NEW s \in stmts, Commit(s)
    PROVE  /\ \A p \in PrimaryKeys \ Locked(s) : table'[p] = table[p]
           /\ \A p \in PrimaryKeys \cap Locked(s) :
                 table'[p] = Resolve(EffectiveGuard(s), table[p],
                                     s.rows[RowFor(s, p)].version)
           /\ table' \in [PrimaryKeys -> Versions \cup {NoRow}]
           /\ \A p \in PrimaryKeys : table[p] # NoRow => table'[p] # NoRow
           /\ \A i \in 1 .. Len(s.rows) : s.rows[i].key \in PrimaryKeys \cap Locked(s)
<1>1. \A p \in PrimaryKeys \ Locked(s) : table'[p] = table[p]
    BY Zenon DEF Commit
<1>2. \A p \in PrimaryKeys \cap Locked(s) :
         table'[p] = Resolve(EffectiveGuard(s), table[p], s.rows[RowFor(s, p)].version)
    BY DEF Commit
<1>3. ASSUME NEW p \in PrimaryKeys
      PROVE  /\ table'[p] \in Versions \cup {NoRow}
             /\ table[p] # NoRow => table'[p] # NoRow
  <2>1. table[p] \in Versions \cup {NoRow}
      BY DEF TypeOK
  <2>2. CASE p \in Locked(s)
    <3>1. s.rows[RowFor(s, p)].version \in Versions
        BY <2>2, RowForFacts
    <3>2. EffectiveGuard(s) \in Guards
        BY GuardType
    <3>3. /\ Resolve(EffectiveGuard(s), table[p], s.rows[RowFor(s, p)].version) \in Versions
          /\ Resolve(EffectiveGuard(s), table[p], s.rows[RowFor(s, p)].version) # NoRow
        BY <2>1, <3>1, <3>2, ResolveFacts
    <3> QED BY <1>2, <2>2, <3>3
  <2> QED BY <1>1, <2>1, <2>2
<1>4. table' \in [PrimaryKeys -> Versions \cup {NoRow}]
  <2> DEFINE f(p) == IF p \in Locked(s)
                     THEN Resolve(EffectiveGuard(s), table[p],
                                  s.rows[RowFor(s, p)].version)
                     ELSE table[p]
  <2>1. table' = [p \in PrimaryKeys |-> f(p)]
      BY Zenon DEF Commit
  <2> HIDE DEF f
  <2> QED BY <1>3, <2>1
<1>5. ASSUME NEW i \in 1 .. Len(s.rows)
      PROVE  s.rows[i].key \in PrimaryKeys \cap Locked(s)
  <2>1. s.rows \in Seq(Row) /\ s.pos \in 1 .. Len(s.rows) + 1 /\ Len(s.rows) \in Nat
      BY DEF TypeOK, Statement
  <2>2. s.rows[i] \in Row
      BY <2>1
  <2>3. s.pos > Len(s.rows)
      BY DEF Commit
  <2>4. i \in 1 .. s.pos - 1
      BY <2>1, <2>3
  <2> QED BY <2>2, <2>4 DEF Locked, Row
<1> QED BY <1>1, <1>2, <1>3, <1>4, <1>5

-----------------------------------------------------------------------------
(* What a step does to the statements *)

\* x is what has become of the statement s: its rows are the same, in the order
\* they were built in, also when it is sent again.
Successor(x, s) ==
    /\ x \in Statement
    /\ x.life = s.life /\ x.task = s.task /\ x.rows = s.rows
    /\ x.pos \in 1 .. Len(x.rows) + 1

StatementAction(s) == LockRow(s) \/ Commit(s) \/ StatementFails(s) \/ DeadlockVictim(s)

\* A step of the database replaces one statement by its successors.  A statement
\* of the running process always has one; only a commit makes one succeed.
LEMMA StatementStep ==
    ASSUME TypeOK, NEW s \in stmts, StatementAction(s)
    PROVE  /\ Running(s)
           /\ UNCHANGED <<kind, writes, batch, next_version, done, life>>
           /\ \E new : /\ stmts' = (stmts \ {s}) \cup new
                       /\ \A x \in new : /\ Successor(x, s)
                                         /\ x.result = "ok" => Commit(s)
                       /\ s.life = life => new # {}
           /\ Commit(s) \/ UNCHANGED table
<1>1. /\ s \in Statement /\ s.rows \in Seq(Row) /\ Len(s.rows) \in Nat
      /\ s.pos \in 1 .. Len(s.rows) + 1
    BY DEF TypeOK, Statement
<1> HIDE DEF Row
<1>2. ASSUME Running(s), NEW x \in Answered(s)
      PROVE  Successor(x, s) /\ x.result # "ok"
  <2> DEFINE y == [s EXCEPT !.attempt = 2, !.pos = 1]
             z == [s EXCEPT !.result = "error", !.pos = 1]
  <2>1. 1 \in 1 .. Len(s.rows) + 1
      BY <1>1
  <2>2. Successor(y, s) /\ y.result # "ok"
      BY <1>1, <1>2, <2>1 DEF Successor, Statement, Running
  <2>3. Successor(z, s) /\ z.result # "ok"
      BY <1>1, <2>1 DEF Successor, Statement
  <2>4. x \in {y, z}
      BY DEF Answered
  <2> HIDE DEF y, z
  <2> QED BY <2>2, <2>3, <2>4
<1>3. s.life = life => Answered(s) # {}
    BY DEF Answered
<1>4. CASE LockRow(s)
  <2> DEFINE y == [s EXCEPT !.pos = s.pos + 1]
  <2>1. /\ Running(s) /\ s.pos <= Len(s.rows) /\ stmts' = (stmts \ {s}) \cup {y}
        /\ UNCHANGED <<kind, writes, table, batch, next_version, done, life>>
      BY <1>4 DEF LockRow, Replace
  <2>2. s.pos + 1 \in 1 .. Len(s.rows) + 1 /\ s.pos + 1 \in Nat
      BY <1>1, <2>1
  <2>3. Successor(y, s) /\ y.result # "ok"
      BY <1>1, <2>1, <2>2 DEF Successor, Statement, Running
  <2> HIDE DEF y
  <2> QED BY <2>1, <2>3
<1>5. CASE Commit(s)
  <2> DEFINE y == [s EXCEPT !.result = "ok"]
             new == IF s.life = life THEN {y} ELSE {}
  <2>1. /\ Running(s) /\ stmts' = (stmts \ {s}) \cup new
        /\ UNCHANGED <<kind, writes, batch, next_version, done, life>>
      BY <1>5 DEF Commit, Replace
  <2>2. Successor(y, s)
      BY <1>1 DEF Successor, Statement
  <2> HIDE DEF y
  <2>3. (\A x \in new : Successor(x, s)) /\ (s.life = life => new # {})
      BY <2>2
  <2> HIDE DEF new
  <2> QED BY <1>5, <2>1, <2>3
<1>6. CASE StatementFails(s)
  <2>1. /\ Running(s) /\ stmts' = (stmts \ {s}) \cup Answered(s)
        /\ UNCHANGED <<kind, writes, table, batch, next_version, done, life>>
      BY <1>6 DEF StatementFails, Replace
  <2> QED BY <1>2, <1>3, <2>1
<1>7. CASE DeadlockVictim(s)
  <2>1. /\ stmts' = (stmts \ {s}) \cup Answered(s)
        /\ UNCHANGED <<kind, writes, table, batch, next_version, done, life>>
      BY <1>7 DEF DeadlockVictim, Replace
  <2>2. Running(s)
      BY <1>7 DEF DeadlockVictim, Deadlocked, WaitsFor
  <2> QED BY <1>2, <1>3, <2>1, <2>2
<1> QED BY <1>4, <1>5, <1>6, <1>7 DEF StatementAction

-----------------------------------------------------------------------------
(* Types *)

\* The kind of the table is fixed, and no batch is taken after the last start.
TypeInv ==
    /\ TypeOK
    /\ kind \in Kinds
    /\ \A t \in Tasks : batch[t] # {} => life <= MaxLives

\* The versions of a batch that is taken.
LEMMA BatchType ==
    ASSUME TypeOK, NEW n \in 1 .. MaxBatch, next_version + n - 1 <= LastVersion
    PROVE  /\ next_version .. next_version + n - 1 \in SUBSET Versions
           /\ next_version + n \in 1 .. LastVersion + 1
<1>1. /\ n \in Nat /\ n >= 1 /\ LastVersion \in Nat
      /\ next_version \in Nat /\ next_version >= 1
    BY UpsertAssumption DEF TypeOK
<1> QED BY <1>1 DEF Versions

\* Before the first batch.
LEMMA InitType == Init => TypeInv
<1> SUFFICES ASSUME Init
             PROVE  TypeInv
    OBVIOUS
<1>1. LastVersion \in Nat /\ MaxLives \in Nat /\ MaxFaults \in Nat
    BY UpsertAssumption
<1>2. kind \in Kinds /\ kind \in AnyKind /\ writes \in [Versions -> SUBSET Keys]
    BY UpsertAssumption DEF Init, Versions
<1>3. /\ next_version \in 1 .. LastVersion + 1
      /\ life \in 1 .. MaxLives + 1 /\ faults \in 0 .. MaxFaults
    BY <1>1 DEF Init
<1>4. table \in [PrimaryKeys -> Versions \cup {NoRow}] /\ batch \in [Tasks -> SUBSET Versions]
    BY DEF Init
<1> QED BY <1>2, <1>3, <1>4 DEF Init, TypeInv, TypeOK

\* What ProcessTransactions(t) sends and takes.
LEMMA ProcessFacts ==
    ASSUME TypeOK, NEW t \in Tasks, ProcessTransactions(t)
    PROVE  \E B \in SUBSET Versions : \E q \in SortedRows(BatchRows(B)) :
              /\ q \in Seq(Row)
              /\ stmts' = stmts \cup NewStatements(t, q)
              /\ batch' = [batch EXCEPT ![t] = B]
              /\ next_version' \in 1 .. LastVersion + 1
              /\ B # {}
              /\ batch[t] = {} /\ life <= MaxLives
              /\ UNCHANGED <<kind, writes, table, done, life, faults>>
<1>1. PICK n \in 1 .. MaxBatch :
         LET B == next_version .. next_version + n - 1
         IN  /\ next_version + n - 1 <= LastVersion
             /\ \E q \in SortedRows(BatchRows(B)) :
                   stmts' = stmts \cup NewStatements(t, q)
             /\ batch' = [batch EXCEPT ![t] = B]
             /\ next_version' = next_version + n
    BY DEF ProcessTransactions
<1> DEFINE B == next_version .. next_version + n - 1
<1>2. /\ next_version + n - 1 <= LastVersion
      /\ batch' = [batch EXCEPT ![t] = B]
      /\ next_version' = next_version + n
    BY <1>1
<1>3. PICK q \in SortedRows(BatchRows(B)) : stmts' = stmts \cup NewStatements(t, q)
    BY <1>1
<1>4. B \in SUBSET Versions /\ next_version' \in 1 .. LastVersion + 1
    BY <1>2, BatchType
<1>5. B # {}
  <2>1. next_version \in Nat /\ n \in Nat /\ n >= 1
      BY UpsertAssumption DEF TypeOK
  <2>2. next_version \in B
      BY <2>1
  <2> QED BY <2>2
<1> HIDE DEF B
<1>6. q \in Seq(Row)
    BY <1>4, BatchRowsType, SortedRowsType
<1>7. /\ batch[t] = {} /\ life <= MaxLives
      /\ UNCHANGED <<kind, writes, table, done, life, faults>>
    BY DEF ProcessTransactions
<1> QED BY <1>2, <1>3, <1>4, <1>5, <1>6, <1>7

\* What the end of a process leaves behind.
LEMMA EndFacts ==
    ASSUME TypeInv, (\E t \in Tasks : InsertFails(t)) \/ Killed
    PROVE  /\ life <= MaxLives
           /\ life' = life + 1
           /\ batch' = [t \in Tasks |-> {}]
           /\ stmts' \subseteq stmts
           /\ \A s \in stmts' : Running(s)
           /\ next_version' \in 1 .. LastVersion + 1
           /\ faults' \in 0 .. MaxFaults
           /\ UNCHANGED <<kind, writes, table, done>>
<1>1. MaxLives \in Nat /\ MaxFaults \in Nat /\ life \in Nat /\ faults \in 0 .. MaxFaults
    BY UpsertAssumption DEF TypeInv, TypeOK
<1>2. EndLife
    BY DEF InsertFails, Killed
<1>3. life <= MaxLives
  <2>1. CASE \E t \in Tasks : InsertFails(t)
      BY <2>1 DEF InsertFails, TypeInv
  <2>2. CASE Killed
      BY <1>1, <2>2 DEF Killed
  <2> QED BY <2>1, <2>2
<1>4. faults' \in 0 .. MaxFaults
  <2>1. CASE \E t \in Tasks : InsertFails(t)
      BY <1>1, <2>1 DEF InsertFails
  <2>2. CASE Killed
      BY <1>1, <2>2 DEF Killed
  <2> QED BY <2>1, <2>2
<1>5. stmts' \subseteq stmts /\ \A s \in stmts' : Running(s)
  <2>1. PICK sent \in SUBSET {s \in stmts : Running(s)} : stmts' = sent
      BY <1>2 DEF EndLife
  <2> QED BY <2>1
<1> QED BY <1>2, <1>3, <1>4, <1>5 DEF EndLife

\* Every step keeps the types.
LEMMA NextType == TypeInv /\ [Next]_vars => TypeInv'
<1> SUFFICES ASSUME TypeInv, [Next]_vars
             PROVE  TypeInv'
    OBVIOUS
<1>1. /\ LastVersion \in Nat /\ MaxLives \in Nat /\ MaxFaults \in Nat
      /\ life \in Nat /\ life >= 1
    BY UpsertAssumption DEF TypeInv, TypeOK
<1>2. TypeOK
    BY DEF TypeInv
<1> HIDE DEF Row, AnyKind, Statement
<1>3. ASSUME NEW t \in Tasks, ProcessTransactions(t)
      PROVE  TypeInv'
  <2>1. PICK B \in SUBSET Versions : \E q \in SortedRows(BatchRows(B)) :
              /\ q \in Seq(Row)
              /\ stmts' = stmts \cup NewStatements(t, q)
              /\ batch' = [batch EXCEPT ![t] = B]
              /\ next_version' \in 1 .. LastVersion + 1
              /\ B # {}
              /\ batch[t] = {} /\ life <= MaxLives
              /\ UNCHANGED <<kind, writes, table, done, life, faults>>
      BY <1>2, <1>3, ProcessFacts
  <2>2. PICK q \in Seq(Row) : stmts' = stmts \cup NewStatements(t, q)
      BY <2>1
  <2>3. \A s \in NewStatements(t, q) :
            s \in Statement /\ s.life = life /\ s.pos \in 1 .. Len(s.rows) + 1
      BY <1>1, NewStatementsType
  <2>4. /\ stmts' \subseteq Statement
        /\ \A s \in stmts' : s.life \in 1 .. life /\ s.pos \in 1 .. Len(s.rows) + 1
      BY <1>1, <1>2, <2>2, <2>3 DEF TypeOK
  <2>5. batch' \in [Tasks -> SUBSET Versions]
      BY <1>2, <2>1 DEF TypeOK
  <2> QED BY <2>1, <2>4, <2>5 DEF TypeInv, TypeOK
<1>4. ASSUME NEW t \in Tasks, InsertReturns(t)
      PROVE  TypeInv'
  <2>1. /\ done' = done \cup batch[t] /\ batch' = [batch EXCEPT ![t] = {}]
        /\ stmts' \subseteq stmts
        /\ UNCHANGED <<kind, writes, table, next_version, life, faults>>
      BY <1>4 DEF InsertReturns
  <2>2. done' \subseteq Versions /\ batch' \in [Tasks -> SUBSET Versions]
      BY <1>2, <2>1 DEF TypeOK
  <2>3. \A u \in Tasks : batch'[u] # {} => batch[u] # {}
      BY <1>2, <2>1 DEF TypeOK
  <2> QED BY <2>1, <2>2, <2>3 DEF TypeInv, TypeOK
<1>5. ASSUME (\E t \in Tasks : InsertFails(t)) \/ Killed
      PROVE  TypeInv'
  <2>1. /\ life <= MaxLives /\ life' = life + 1 /\ batch' = [t \in Tasks |-> {}]
        /\ stmts' \subseteq stmts
        /\ next_version' \in 1 .. LastVersion + 1 /\ faults' \in 0 .. MaxFaults
        /\ UNCHANGED <<kind, writes, table, done>>
      BY <1>5, EndFacts
  <2>2. life' \in 1 .. MaxLives + 1
      BY <1>1, <2>1
  <2>3. batch' \in [Tasks -> SUBSET Versions] /\ \A t \in Tasks : batch'[t] = {}
      BY <2>1
  <2>4. \A s \in stmts' : s.life \in 1 .. life'
    <3>1. \A s \in stmts' : s.life \in 1 .. life
        BY <1>2, <2>1 DEF TypeOK
    <3> QED BY <1>1, <2>1, <3>1
  <2> QED BY <2>1, <2>2, <2>3, <2>4 DEF TypeInv, TypeOK
<1>6. ASSUME NEW s \in stmts, StatementAction(s)
      PROVE  TypeInv'
  <2>1. UNCHANGED <<kind, writes, batch, next_version, done, life>>
      BY <1>2, <1>6, StatementStep
  <2>2. PICK new : /\ stmts' = (stmts \ {s}) \cup new
                   /\ \A x \in new : Successor(x, s)
      BY <1>2, <1>6, StatementStep
  <2>3. /\ stmts' \subseteq Statement
        /\ \A x \in stmts' : x.life \in 1 .. life /\ x.pos \in 1 .. Len(x.rows) + 1
      BY <1>2, <2>2 DEF TypeOK, Successor
  <2>4. table' \in [PrimaryKeys -> Versions \cup {NoRow}]
    <3>1. CASE Commit(s)
        BY <1>2, <3>1, CommitTable
    <3>2. CASE UNCHANGED table
        BY <1>2, <3>2 DEF TypeOK
    <3> QED BY <1>2, <1>6, <3>1, <3>2, StatementStep
  <2>5. faults' \in 0 .. MaxFaults
    <3>1. faults \in 0 .. MaxFaults
        BY <1>2 DEF TypeOK
    <3>2. faults' = faults \/ (faults < MaxFaults /\ faults' = faults + 1)
        BY <1>6 DEF StatementAction, LockRow, Commit, StatementFails, DeadlockVictim
    <3> QED BY <1>1, <3>1, <3>2
  <2> QED BY <2>1, <2>3, <2>4, <2>5 DEF TypeInv, TypeOK
<1>7. ASSUME UNCHANGED vars
      PROVE  TypeInv'
    BY <1>7 DEF TypeInv, TypeOK, vars
<1> QED BY <1>3, <1>4, <1>5, <1>6, <1>7 DEF Next, TaskStep, StatementAction, Rest

\* The types hold in every state.
LEMMA TypeInvariance == Spec => []TypeInv
    BY InitType, NextType, PTL DEF Spec

\* The variables of the model have their types in every state: in particular a
\* statement never counts beyond its rows, nothing is sent a third time, and no
\* task takes a version that does not exist.
THEOREM TypeInvariant == Spec => []TypeOK
<1>1. TypeInv => TypeOK
    BY DEF TypeInv
<1> QED BY TypeInvariance, <1>1, PTL

-----------------------------------------------------------------------------
(* No row is replaced by a stale one *)

\* Only a commit writes to the table.
LEMMA TableWriters ==
    ASSUME TypeInv, [Next]_vars
    PROVE  UNCHANGED table \/ \E s \in stmts : Commit(s)
<1>1. TypeOK
    BY DEF TypeInv
<1>2. ASSUME NEW s \in stmts, StatementAction(s)
      PROVE  Commit(s) \/ UNCHANGED table
    BY <1>1, <1>2, StatementStep
<1>3. ASSUME NEW t \in Tasks, ProcessTransactions(t) \/ InsertReturns(t)
      PROVE  UNCHANGED table
    BY <1>3 DEF ProcessTransactions, InsertReturns
<1>4. ASSUME (\E t \in Tasks : InsertFails(t)) \/ Killed
      PROVE  UNCHANGED table
    BY <1>4 DEF InsertFails, Killed, EndLife
<1>5. ASSUME UNCHANGED vars
      PROVE  UNCHANGED table
    BY <1>5 DEF vars
<1> QED BY <1>2, <1>3, <1>4, <1>5 DEF Next, TaskStep, StatementAction, Rest

\* What is stored for a row only moves in the direction of the table's clause.
LEMMA StoredRowMoves ==
    ASSUME WhereVersions \cap Versions = {}, TypeInv, [Next]_vars,
           NEW p \in PrimaryKeys, table[p] # NoRow
    PROVE  /\ table'[p] # NoRow
           /\ kind.guard = "latest" => table[p] <= table'[p]
           /\ kind.guard = "first" => table'[p] <= table[p]
<1>1. TypeOK
    BY DEF TypeInv
<1>2. table[p] \in Versions /\ table[p] \in Nat
    BY <1>1, UpsertAssumption DEF TypeOK, Versions
<1>3. CASE table'[p] = table[p]
    BY <1>2, <1>3
<1>4. ASSUME NEW s \in stmts, Commit(s), p \in Locked(s)
      PROVE  /\ table'[p] # NoRow
             /\ kind.guard = "latest" => table[p] <= table'[p]
             /\ kind.guard = "first" => table'[p] <= table[p]
  <2> DEFINE new == s.rows[RowFor(s, p)].version
  <2>1. table'[p] = Resolve(EffectiveGuard(s), table[p], new)
      BY <1>1, <1>4, CommitTable
  <2>2. EffectiveGuard(s) = kind.guard /\ EffectiveGuard(s) \in Guards
      BY <1>1, GuardType
  <2>3. new \in Versions
      BY <1>1, <1>4, RowForFacts
  <2> HIDE DEF new
  <2> QED BY <1>2, <2>1, <2>2, <2>3, ResolveFacts
<1>5. ASSUME NEW s \in stmts, Commit(s), p \notin Locked(s)
      PROVE  table'[p] = table[p]
    BY <1>1, <1>5, CommitTable
<1> QED BY <1>3, <1>4, <1>5, TableWriters

\* Whatever order the statements of concurrent, repeated and orphaned batches
\* commit in, a table of latest states never replaces a row by an older one and
\* a table of first states never by a younger one.  The hypothesis is that no
\* row has the word "where" in a column: execute_with_better_error drops the
\* table's clause from a statement with such a row.
THEOREM RowsNeverGoStale ==
    ASSUME WhereVersions \cap Versions = {}
    PROVE  Spec => NeverStale
<1>1. ASSUME TypeInv, [Next]_vars
      PROVE  [\A k \in PrimaryKeys : table[k] # NoRow =>
                /\ kind.guard = "latest" => table[k] <= table'[k]
                /\ kind.guard = "first" => table[k] >= table'[k]]_vars
  <2>1. ASSUME NEW k \in PrimaryKeys, table[k] # NoRow
        PROVE  /\ kind.guard = "latest" => table[k] <= table'[k]
               /\ kind.guard = "first" => table'[k] <= table[k]
      BY <1>1, <2>1, StoredRowMoves
  <2>2. ASSUME NEW k \in PrimaryKeys
        PROVE  table[k] \in Nat /\ table'[k] \in Nat
    <3>1. TypeOK /\ TypeOK'
        BY <1>1, NextType DEF TypeInv
    <3> QED BY <3>1, UpsertAssumption DEF TypeOK, Versions, NoRow
  <2> QED BY <2>1, <2>2
<1> QED BY TypeInvariance, <1>1, PTL DEF Spec, NeverStale

-----------------------------------------------------------------------------
(* The keys of a statement's rows *)

\* Keys are ordered by version, then by key column.
LEMMA KeyOrder ==
    ASSUME NEW a \in PrimaryKeys, NEW b \in PrimaryKeys, NEW c \in PrimaryKeys
    PROVE  /\ ~KeyBefore(a, a)
           /\ a # b => KeyBefore(a, b) \/ KeyBefore(b, a)
           /\ KeyBefore(a, b) /\ KeyBefore(b, c) => KeyBefore(a, c)
<1>1. \A p \in PrimaryKeys : p = <<p[1], p[2]>> /\ p[1] \in Nat /\ p[2] \in Nat
  <2>1. LastVersion \in Nat /\ Keys \subseteq Nat
      BY UpsertAssumption
  <2>2. 0 .. LastVersion \subseteq Nat
      BY <2>1
  <2>3. \A p \in PrimaryKeys : p = <<p[1], p[2]>> /\ p[1] \in 0 .. LastVersion /\ p[2] \in Keys
      BY DEF PrimaryKeys
  <2> QED BY <2>1, <2>2, <2>3
<1>2. ~KeyBefore(a, a)
    BY <1>1 DEF KeyBefore
<1>3. a # b => KeyBefore(a, b) \/ KeyBefore(b, a)
  <2>1. a # b => a[1] # b[1] \/ a[2] # b[2]
      BY <1>1
  <2> QED BY <1>1, <2>1 DEF KeyBefore
<1>4. KeyBefore(a, b) /\ KeyBefore(b, c) => KeyBefore(a, c)
    BY <1>1 DEF KeyBefore
<1> QED BY <1>2, <1>3, <1>4

\* Two rows of a batch have different keys.
LEMMA DistinctKeys ==
    ASSUME TypeOK, CollectedByKey(kind), NEW B \in SUBSET Versions,
           NEW a \in BatchRows(B), NEW b \in BatchRows(B), a.key = b.key
    PROVE  a = b
<1>1. a \in AllRows(B) /\ b \in AllRows(B) /\ a \in Row /\ b \in Row
    BY BatchRowsType
<1>2. a.version \in Nat /\ b.version \in Nat
    BY <1>1, UpsertAssumption DEF Row, Versions
<1>3. a.version = b.version
  <2>1. CASE kind.append
    <3>1. ASSUME NEW r \in AllRows(B)
          PROVE  r.key[1] = r.version
      <4>1. PICK v \in B : \E k \in writes[v] : r = [key |-> PrimaryKey(v, k), version |-> v]
          BY BatchRowsType
      <4>2. PICK k \in writes[v] : r = [key |-> PrimaryKey(v, k), version |-> v]
          BY <4>1
      <4> QED BY <2>1, <4>2 DEF PrimaryKey
    <3> QED BY <1>1, <3>1
  <2>2. CASE kind.keep = "last"
    <3>1. b.version <= a.version /\ a.version <= b.version
        BY <1>1, <2>2 DEF BatchRows
    <3> QED BY <1>2, <3>1
  <2>3. CASE kind.keep = "first"
    <3>1. b.version <= a.version /\ a.version <= b.version
        BY <1>1, <1>2, <2>3 DEF BatchRows
    <3> QED BY <1>2, <3>1
  <2>4. kind.keep \in {"last", "first", "all"}
      BY DEF TypeOK, AnyKind
  <2> QED BY <2>1, <2>2, <2>3, <2>4 DEF CollectedByKey
<1> QED BY <1>1, <1>3 DEF Row

\* The rows q[i] are all different, and in key order where the sort of the table
\* looks at its keys.
InOrder(q) ==
    \A i, j \in 1 .. Len(q) : i < j =>
        /\ q[i].key # q[j].key
        /\ kind.ordered => KeyBefore(q[i].key, q[j].key)

RowsInv == \A s \in stmts : InOrder(s.rows)

\* What is cut from the list of a batch's rows is in order.
LEMMA ChunkInOrder ==
    ASSUME TypeOK, CollectedByKey(kind), NEW B \in SUBSET Versions,
           NEW q \in SortedRows(BatchRows(B)), NEW c \in Nat, c >= 1
    PROVE  InOrder(Chunk(q, c))
<1>1. BatchRows(B) \subseteq Row
    BY BatchRowsType
<1>2. /\ q \in Seq(Row)
      /\ \A i \in 1 .. Len(q) : q[i] \in BatchRows(B)
      /\ \A i, j \in 1 .. Len(q) : i < j =>
            /\ q[i] # q[j]
            /\ kind.ordered => ~KeyBefore(q[j].key, q[i].key)
    BY <1>1, SortedRowsType
<1>3. ASSUME NEW i \in 1 .. Len(q), NEW j \in 1 .. Len(q), i < j
      PROVE  /\ q[i].key # q[j].key
             /\ kind.ordered => KeyBefore(q[i].key, q[j].key)
  <2>1. q[i] \in BatchRows(B) /\ q[j] \in BatchRows(B) /\ q[i] # q[j]
      BY <1>2, <1>3
  <2>2. q[i].key # q[j].key
      BY <2>1, DistinctKeys
  <2>3. q[i].key \in PrimaryKeys /\ q[j].key \in PrimaryKeys
      BY <1>1, <2>1 DEF Row
  <2>4. KeyBefore(q[i].key, q[j].key) \/ KeyBefore(q[j].key, q[i].key)
      BY <2>2, <2>3, KeyOrder
  <2> QED BY <1>2, <1>3, <2>2, <2>4
<1> DEFINE x == Chunk(q, c)
           o == (c - 1) * ChunkSize
<1>4. /\ x \in Seq(Row) /\ o \in Nat
      /\ \A i \in 1 .. Len(x) : o + i \in 1 .. Len(q) /\ x[i] = q[o + i]
  <2>1. o \in Nat
      BY UpsertAssumption
  <2> QED BY <1>2, <2>1, ChunkRows
<1> HIDE DEF x, o
<1>5. ASSUME NEW i \in 1 .. Len(x), NEW j \in 1 .. Len(x), i < j
      PROVE  /\ x[i].key # x[j].key
             /\ kind.ordered => KeyBefore(x[i].key, x[j].key)
  <2>1. /\ o + i \in 1 .. Len(q) /\ x[i] = q[o + i]
        /\ o + j \in 1 .. Len(q) /\ x[j] = q[o + j]
      BY <1>4
  <2>2. o + i < o + j
      BY <1>4, <1>5
  <2> QED BY <1>3, <2>1, <2>2
<1>6. InOrder(x)
    BY <1>5 DEF InOrder
<1> QED BY <1>6 DEF x

\* A step adds no statement whose rows are not in order.
LEMMA NextRows ==
    ASSUME \A k \in Kinds : CollectedByKey(k), TypeInv, RowsInv, [Next]_vars
    PROVE  RowsInv'
<1>1. TypeOK /\ CollectedByKey(kind) /\ life \in Nat
    BY UpsertAssumption DEF TypeInv, TypeOK
<1>2. ASSUME kind' = kind,
             \A x \in stmts' : InOrder(x.rows)
      PROVE  RowsInv'
    BY <1>2 DEF RowsInv, InOrder
<1>3. ASSUME NEW t \in Tasks, ProcessTransactions(t)
      PROVE  kind' = kind /\ \A x \in stmts' : InOrder(x.rows)
  <2>1. PICK B \in SUBSET Versions : \E q \in SortedRows(BatchRows(B)) :
              /\ q \in Seq(Row)
              /\ stmts' = stmts \cup NewStatements(t, q)
              /\ kind' = kind
      BY <1>1, <1>3, ProcessFacts
  <2>2. PICK q \in SortedRows(BatchRows(B)) :
              q \in Seq(Row) /\ stmts' = stmts \cup NewStatements(t, q)
      BY <2>1
  <2>3. ASSUME NEW x \in NewStatements(t, q)
        PROVE  InOrder(x.rows)
    <3>1. PICK c \in Nat : c >= 1 /\ x.rows = Chunk(q, c)
        BY <1>1, <2>2, NewStatementsType
    <3> QED BY <1>1, <3>1, ChunkInOrder
  <2> QED BY <2>1, <2>2, <2>3 DEF RowsInv
<1>4. ASSUME NEW t \in Tasks, InsertReturns(t)
      PROVE  kind' = kind /\ \A x \in stmts' : InOrder(x.rows)
    BY <1>4 DEF InsertReturns, RowsInv
<1>5. ASSUME (\E t \in Tasks : InsertFails(t)) \/ Killed
      PROVE  kind' = kind /\ \A x \in stmts' : InOrder(x.rows)
    BY <1>5, EndFacts DEF RowsInv
<1>6. ASSUME NEW s \in stmts, StatementAction(s)
      PROVE  kind' = kind /\ \A x \in stmts' : InOrder(x.rows)
  <2>1. kind' = kind
      BY <1>1, <1>6, StatementStep
  <2>2. PICK new : /\ stmts' = (stmts \ {s}) \cup new
                   /\ \A x \in new : Successor(x, s)
      BY <1>1, <1>6, StatementStep
  <2>3. \A x \in new : x.rows = s.rows
      BY <2>2 DEF Successor
  <2> QED BY <2>1, <2>2, <2>3 DEF RowsInv
<1>7. ASSUME UNCHANGED vars
      PROVE  kind' = kind /\ \A x \in stmts' : InOrder(x.rows)
    BY <1>7 DEF RowsInv, vars
<1> QED BY <1>2, <1>3, <1>4, <1>5, <1>6, <1>7 DEF Next, TaskStep, StatementAction, Rest

\* The rows of every statement are in order, in every state.
LEMMA RowsInvariance ==
    ASSUME \A k \in Kinds : CollectedByKey(k)
    PROVE  Spec => [](TypeInv /\ RowsInv)
<1>1. Init => TypeInv /\ RowsInv
    BY InitType DEF Init, RowsInv
<1>2. TypeInv /\ RowsInv /\ [Next]_vars => (TypeInv /\ RowsInv)'
    BY NextType, NextRows
<1> QED BY <1>1, <1>2, PTL DEF Spec

-----------------------------------------------------------------------------
(* No circle of statements that wait for each other *)

\* How many keys come after p.
KeysAfter(p) == Cardinality({x \in PrimaryKeys : KeyBefore(p, x)})

\* There are fewer keys after a later key.
LEMMA FewerKeysAfter ==
    ASSUME NEW a \in PrimaryKeys, NEW b \in PrimaryKeys, KeyBefore(a, b)
    PROVE  KeysAfter(a) \in Nat /\ KeysAfter(b) \in Nat /\ KeysAfter(b) < KeysAfter(a)
<1> DEFINE A == {x \in PrimaryKeys : KeyBefore(a, x)}
           C == {x \in PrimaryKeys : KeyBefore(b, x)}
<1>1. A \in SUBSET PrimaryKeys /\ C \in SUBSET PrimaryKeys
    OBVIOUS
<1>2. C \subseteq A
    BY KeyOrder
<1>3. b \in A /\ b \notin C
    BY KeyOrder
<1>4. KeysAfter(a) = Cardinality(A) /\ KeysAfter(b) = Cardinality(C)
    BY DEF KeysAfter
<1> HIDE DEF A, C
<1>5. IsFiniteSet(A) /\ IsFiniteSet(C)
    BY <1>1, FiniteRows, FS_Subset
<1>6. Cardinality(A) \in Nat /\ Cardinality(C) \in Nat
    BY <1>5, FS_CardinalityType
<1>7. Cardinality(C) <= Cardinality(A) /\ (Cardinality(A) = Cardinality(C) => A = C)
    BY <1>2, <1>5, FS_Subset
<1>8. A # C
    BY <1>3
<1> QED BY <1>4, <1>6, <1>7, <1>8

\* The statement that s waits for already has a row that comes before the one it
\* waits for itself.
LEMMA WaitsUpwards ==
    ASSUME TypeOK, RowsInv, kind.ordered,
           NEW s \in stmts, NEW r \in stmts, WaitsFor(s, r), r.pos <= Len(r.rows)
    PROVE  /\ s.rows[s.pos].key \in PrimaryKeys
           /\ r.rows[r.pos].key \in PrimaryKeys
           /\ KeyBefore(s.rows[s.pos].key, r.rows[r.pos].key)
<1>1. /\ s.rows \in Seq(Row) /\ s.pos \in 1 .. Len(s.rows) + 1 /\ Len(s.rows) \in Nat
      /\ r.rows \in Seq(Row) /\ r.pos \in 1 .. Len(r.rows) + 1 /\ Len(r.rows) \in Nat
    BY DEF TypeOK, Statement
<1>2. s.pos <= Len(s.rows) /\ s.rows[s.pos].key \in Locked(r)
    BY DEF WaitsFor
<1>3. s.pos \in 1 .. Len(s.rows) /\ r.pos \in 1 .. Len(r.rows)
    BY <1>1, <1>2
<1>4. s.rows[s.pos] \in Row /\ r.rows[r.pos] \in Row
    BY <1>1, <1>3
<1>5. PICK i \in 1 .. r.pos - 1 : s.rows[s.pos].key = r.rows[i].key
    BY <1>2 DEF Locked
<1>6. i \in 1 .. Len(r.rows) /\ i < r.pos
    BY <1>1, <1>3
<1>7. KeyBefore(r.rows[i].key, r.rows[r.pos].key)
    BY <1>3, <1>6 DEF RowsInv, InOrder
<1> QED BY <1>4, <1>5, <1>7 DEF Row

\* Concurrent statements never wait for each other in a circle, because each
\* takes its rows in key order: whatever the batches, the chunks and the retries
\* are, the statement of a group that waits for the last key waits for nobody of
\* the group.  The hypothesis is what the sort of a table must look at for that:
\* its whole key.
THEOREM NoStatementsDeadlock ==
    ASSUME \A k \in Kinds : CollectedByKey(k) /\ k.ordered
    PROVE  Spec => []NoDeadlock
<1>1. ASSUME TypeInv, RowsInv
      PROVE  NoDeadlock
  <2>1. TypeOK /\ kind.ordered
      BY <1>1 DEF TypeInv
  <2> SUFFICES ASSUME NEW S \in SUBSET stmts, Deadlocked(S)
               PROVE  FALSE
      BY DEF NoDeadlock
  <2> DEFINE W(s) == s.rows[s.pos].key
             T == {KeysAfter(W(s)) : s \in S}
  <2>2. ASSUME NEW s \in S
        PROVE  /\ KeysAfter(W(s)) \in Nat
               /\ \E r \in S : KeysAfter(W(r)) < KeysAfter(W(s))
    <3>1. PICK r \in S : WaitsFor(s, r)
        BY DEF Deadlocked
    <3>2. \E u \in S : WaitsFor(r, u)
        BY DEF Deadlocked
    <3>3. r.pos <= Len(r.rows)
        BY <3>2 DEF WaitsFor
    <3>4. W(s) \in PrimaryKeys /\ W(r) \in PrimaryKeys /\ KeyBefore(W(s), W(r))
        BY <1>1, <2>1, <3>1, <3>3, WaitsUpwards
    <3> HIDE DEF W
    <3> QED BY <3>4, FewerKeysAfter
  <2>3. S # {}
      BY DEF Deadlocked
  <2> HIDE DEF W
  <2>4. T \subseteq Nat /\ T # {}
      BY <2>2, <2>3
  <2>5. PICK x \in T : \A y \in T : x <= y
    <3> HIDE DEF T
    <3> QED BY <2>4, LeastNat
  <2>6. PICK s \in S : x = KeysAfter(W(s))
      OBVIOUS
  <2>7. PICK r \in S : KeysAfter(W(r)) < KeysAfter(W(s))
      BY <2>2
  <2>8. KeysAfter(W(s)) <= KeysAfter(W(r))
      BY <2>5, <2>6
  <2>9. KeysAfter(W(s)) \in Nat /\ KeysAfter(W(r)) \in Nat
      BY <2>2
  <2> QED BY <2>7, <2>8, <2>9
<1>2. Spec => [](TypeInv /\ RowsInv)
    BY RowsInvariance
<1> QED BY <1>1, <1>2, PTL

-----------------------------------------------------------------------------
(* What is done is in the table *)

\* A row of version w tells a reader what a row of version v was to tell.
StandsFor(w, v) ==
    /\ kind.guard = "latest" => v <= w
    /\ kind.guard = "first" => w <= v
    /\ kind.append => w = v

Visible(p, v) == table[p] # NoRow /\ StandsFor(table[p], v)

VersionInKey(p, v) == kind.append => p[1] = v

\* The row that version v writes to key k is on its way in statement s.
Carries(s, v, k) ==
    \E i \in 1 .. Len(s.rows) : /\ s.rows[i].key = PrimaryKey(v, k)
                                /\ StandsFor(s.rows[i].version, v)

\* The strengthening that makes DoneIsVisible inductive: while a batch is at
\* work its rows are carried by statements of its own task, and what a statement
\* that succeeded carried is in the table.
VisibleInv ==
    /\ \A p \in PrimaryKeys : table[p] # NoRow => VersionInKey(p, table[p])
    /\ \A s \in stmts : \A i \in 1 .. Len(s.rows) :
          /\ VersionInKey(s.rows[i].key, s.rows[i].version)
          /\ s.result = "ok" => Visible(s.rows[i].key, s.rows[i].version)
    /\ \A t \in Tasks : \A v \in batch[t] : \A k \in writes[v] :
          \E s \in Own(t) : Carries(s, v, k)
    /\ \A v \in done : \A k \in writes[v] : Visible(PrimaryKey(v, k), v)

FullInv == TypeInv /\ RowsInv /\ VisibleInv

\* The first two conjuncts, for the rows of one statement or key.
LEMMA VisibleFacts ==
    ASSUME FullInv
    PROVE  /\ \A p \in PrimaryKeys : kind.append /\ table[p] # NoRow => table[p] = p[1]
           /\ \A s \in stmts : \A i \in 1 .. Len(s.rows) :
                 /\ kind.append => s.rows[i].version = s.rows[i].key[1]
                 /\ s.result = "ok" => Visible(s.rows[i].key, s.rows[i].version)
BY DEF FullInv, VisibleInv, VersionInKey

\* StandsFor is an order.
LEMMA StandsForOrder ==
    ASSUME NEW u \in Nat, NEW v \in Nat, NEW w \in Nat
    PROVE  /\ StandsFor(v, v)
           /\ StandsFor(w, v) /\ StandsFor(v, u) => StandsFor(w, u)
BY DEF StandsFor

\* A batch keeps, of each row that it writes, a version that stands for all.
LEMMA BatchKeeps ==
    ASSUME TypeOK, Converges(kind), NEW B \in SUBSET Versions,
           NEW v \in B, NEW k \in writes[v]
    PROVE  \E r \in BatchRows(B) : r.key = PrimaryKey(v, k) /\ StandsFor(r.version, v)
<1> DEFINE p == PrimaryKey(v, k)
           own == [key |-> p, version |-> v]
           S == {r \in AllRows(B) : r.key = p}
           T == {r.version : r \in S}
<1>1. own \in AllRows(B)
    BY BatchRowsType
<1>2. AllRows(B) \subseteq Row
    BY BatchRowsType
<1>3. own \in S /\ own.version = v /\ S \subseteq Row
    BY <1>1, <1>2
<1>4. T \subseteq Versions /\ v \in T
    BY <1>3 DEF Row
<1>5. Versions \subseteq Nat
    BY UpsertAssumption DEF Versions
<1>6. \A r \in S : r.version \in T /\ r.version \in Nat
    BY <1>4, <1>5
<1>7. ASSUME NEW r \in S,
             kind.keep = "last" => \A s \in S : s.version <= r.version,
             kind.keep = "first" => \A s \in S : s.version >= r.version
      PROVE  r \in BatchRows(B)
    BY <1>7 DEF BatchRows
<1>8. CASE kind.append
  <2>1. ASSUME NEW r \in S
        PROVE  r.version = v
    <3>1. PICK w \in B : \E l \in writes[w] : r = [key |-> PrimaryKey(w, l), version |-> w]
        BY BatchRowsType
    <3>2. PICK l \in writes[w] : r = [key |-> PrimaryKey(w, l), version |-> w]
        BY <3>1
    <3>3. <<w, l>> = <<v, k>>
        BY <1>8, <3>2 DEF PrimaryKey
    <3> QED BY <3>2, <3>3
  <2>2. own \in BatchRows(B)
      BY <1>3, <1>6, <1>7, <2>1
  <2>3. StandsFor(v, v)
      BY <1>4, <1>5, StandsForOrder
  <2> QED BY <1>3, <2>2, <2>3
<1>9. CASE ~kind.append /\ kind.keep = "last"
  <2>1. PICK x \in T : \A y \in T : y <= x
    <3> HIDE DEF T
    <3> QED BY <1>4, VersionBounds
  <2>2. PICK r \in S : x = r.version
      OBVIOUS
  <2>3. r \in BatchRows(B)
      BY <1>6, <1>7, <1>9, <2>1, <2>2
  <2>4. v <= r.version
      BY <1>4, <2>1, <2>2
  <2>5. StandsFor(r.version, v)
      BY <1>9, <2>4 DEF StandsFor, Converges
  <2> QED BY <2>3, <2>5
<1>10. CASE ~kind.append /\ kind.keep = "first"
  <2>1. PICK x \in T : \A y \in T : x <= y
    <3> HIDE DEF T
    <3> QED BY <1>4, VersionBounds
  <2>2. PICK r \in S : x = r.version
      OBVIOUS
  <2>3. \A s \in S : s.version >= r.version
      BY <1>6, <2>1, <2>2
  <2>4. r \in BatchRows(B)
      BY <1>7, <1>10, <2>3
  <2>5. r.version <= v
      BY <1>4, <2>1, <2>2
  <2>6. StandsFor(r.version, v)
      BY <1>10, <2>5 DEF StandsFor, Converges
  <2> QED BY <2>4, <2>6
<1>11. kind.keep \in {"last", "first", "all"}
    BY DEF TypeOK, AnyKind
<1> QED BY <1>8, <1>9, <1>10, <1>11 DEF Converges, CollectedByKey

\* The statements of a new batch carry all that its transactions write.
LEMMA BatchIsCarried ==
    ASSUME TypeOK, Converges(kind), NEW t \in Tasks, NEW B \in SUBSET Versions,
           NEW q \in SortedRows(BatchRows(B)), NEW v \in B, NEW k \in writes[v]
    PROVE  \E s \in NewStatements(t, q) : Carries(s, v, k)
<1>1. PICK r \in BatchRows(B) : r.key = PrimaryKey(v, k) /\ StandsFor(r.version, v)
    BY BatchKeeps
<1>2. BatchRows(B) \subseteq Row
    BY BatchRowsType
<1>3. PICK j \in 1 .. Len(q) : q[j] = r
    BY <1>2, SortedRowsType
<1>4. q \in Seq(Row)
    BY <1>2, SortedRowsType
<1>5. PICK c \in 1 .. NumChunks(q) : \E i \in 1 .. Len(Chunk(q, c)) : Chunk(q, c)[i] = r
    BY <1>3, <1>4, ChunksCover
<1> DEFINE s == [life |-> life, task |-> t, chunk |-> c, rows |-> Chunk(q, c),
                 pos |-> 1, attempt |-> 1, result |-> "running"]
<1>6. s \in NewStatements(t, q) /\ s.rows = Chunk(q, c)
    BY DEF NewStatements
<1> HIDE DEF s
<1> QED BY <1>1, <1>5, <1>6 DEF Carries

\* What the table shows for a row, it goes on showing.
LEMMA VisibleStays ==
    ASSUME WhereVersions \cap Versions = {}, FullInv, [Next]_vars, kind' = kind,
           NEW p \in PrimaryKeys, NEW v \in Nat, Visible(p, v)
    PROVE  Visible(p, v)'
<1>1. TypeOK /\ TypeOK' /\ TypeInv
    BY NextType DEF FullInv, TypeInv
<1>2. table[p] \in Nat /\ table'[p] \in Nat /\ table[p] # NoRow
    BY <1>1, UpsertAssumption DEF TypeOK, Versions, NoRow, Visible
<1>3. /\ table'[p] # NoRow
      /\ kind.guard = "latest" => table[p] <= table'[p]
      /\ kind.guard = "first" => table'[p] <= table[p]
    BY <1>1, <1>2, StoredRowMoves
<1>4. kind.append => table'[p] = table[p]
  <2>1. ASSUME NEW s \in stmts, Commit(s), p \in Locked(s), kind.append
        PROVE  table'[p] = table[p]
    <3> DEFINE i == RowFor(s, p)
    <3>1. i \in 1 .. Len(s.rows) /\ s.rows[i].key = p /\ s.rows[i].version \in Versions
        BY <1>1, <2>1, RowForFacts
    <3>2. s.rows[i].version = p[1] /\ table[p] = p[1]
        BY <1>2, <2>1, <3>1, VisibleFacts
    <3>3. table'[p] = Resolve(EffectiveGuard(s), table[p], s.rows[i].version)
        BY <1>1, <2>1, CommitTable
    <3>4. EffectiveGuard(s) \in Guards /\ table[p] \in Versions \cup {NoRow}
        BY <1>1, GuardType DEF TypeOK
    <3> HIDE DEF i
    <3>5. Resolve(EffectiveGuard(s), table[p], s.rows[i].version)
             \in {table[p], s.rows[i].version}
        BY <3>1, <3>4, ResolveFacts
    <3> QED BY <3>2, <3>3, <3>5
  <2>2. ASSUME NEW s \in stmts, Commit(s), p \notin Locked(s)
        PROVE  table'[p] = table[p]
      BY <1>1, <2>2, CommitTable
  <2> QED BY <1>1, <2>1, <2>2, TableWriters
<1>5. StandsFor(table'[p], table[p])
    BY <1>3, <1>4 DEF StandsFor
<1>6. StandsFor(table'[p], v)
    BY <1>2, <1>5, StandsForOrder DEF Visible
<1> QED BY <1>3, <1>6 DEF Visible, StandsFor

\* A commit makes every row of its statement visible, and stores no version under
\* the key of another.
LEMMA CommitShows ==
    ASSUME WhereVersions \cap Versions = {}, FullInv, NEW s \in stmts, Commit(s)
    PROVE  /\ \A i \in 1 .. Len(s.rows) :
                 Visible(s.rows[i].key, s.rows[i].version)'
           /\ \A p \in PrimaryKeys : table'[p] # NoRow => VersionInKey(p, table'[p])
<1>1. TypeOK
    BY DEF FullInv, TypeInv
<1>2. kind' = kind
    BY DEF Commit
<1>3. EffectiveGuard(s) = kind.guard /\ EffectiveGuard(s) \in Guards
    BY <1>1, GuardType
<1>4. ASSUME NEW p \in PrimaryKeys \cap Locked(s)
      PROVE  LET new == s.rows[RowFor(s, p)].version
             IN  /\ table'[p] # NoRow /\ table'[p] \in {table[p], new}
                 /\ table[p] = NoRow => table'[p] = new
                 /\ kind.guard = "latest" => new <= table'[p]
                 /\ kind.guard = "first" => table'[p] <= new
                 /\ kind.append => new = p[1]
                 /\ kind.append /\ table[p] # NoRow => table[p] = p[1]
  <2> DEFINE new == s.rows[RowFor(s, p)].version
  <2>1. table'[p] = Resolve(kind.guard, table[p], new)
      BY <1>1, <1>3, CommitTable
  <2>2. /\ new \in Versions /\ RowFor(s, p) \in 1 .. Len(s.rows)
        /\ s.rows[RowFor(s, p)].key = p
      BY <1>1, RowForFacts
  <2>3. table[p] \in Versions \cup {NoRow}
      BY <1>1 DEF TypeOK
  <2>4. /\ kind.append => new = p[1]
        /\ kind.append /\ table[p] # NoRow => table[p] = p[1]
      BY <2>2, VisibleFacts
  <2> HIDE DEF new
  <2>5. /\ table'[p] # NoRow /\ table'[p] \in {table[p], new}
        /\ table[p] = NoRow => table'[p] = new
        /\ kind.guard = "latest" => new <= table'[p]
        /\ kind.guard = "first" => table'[p] <= new
    <3> DEFINE x == Resolve(kind.guard, table[p], new)
    <3>1. kind.guard \in Guards
        BY <1>3
    <3>2. /\ x # NoRow /\ x \in {table[p], new}
          /\ table[p] = NoRow => x = new
          /\ kind.guard = "latest" => new <= x
          /\ kind.guard = "first" => x <= new
      <4>1. LET y == Resolve(kind.guard, table[p], new)
            IN  /\ y \in Versions /\ y # NoRow
                /\ y \in {table[p], new}
                /\ table[p] = NoRow => y = new
                /\ kind.guard = "latest" => new <= y
                /\ kind.guard = "first" => y <= new
        <5>1. new \in Versions
            BY <2>2
        <5> QED BY <2>3, <3>1, <5>1, ResolveFacts, Zenon
      <4> QED BY <4>1
    <3>3. table'[p] = x
        BY <2>1
    <3> HIDE DEF x
    <3> QED BY <3>2, <3>3
  <2> QED BY <2>4, <2>5 DEF new
<1>5. ASSUME NEW i \in 1 .. Len(s.rows)
      PROVE  Visible(s.rows[i].key, s.rows[i].version)'
  <2> DEFINE p == s.rows[i].key
             new == s.rows[i].version
  <2>1. p \in PrimaryKeys \cap Locked(s)
      BY <1>1, CommitTable
  <2>2. RowFor(s, p) = i
    <3>1. RowFor(s, p) \in 1 .. Len(s.rows) /\ s.rows[RowFor(s, p)].key = p
        BY <1>1, <2>1, RowForFacts
    <3>2. ~(RowFor(s, p) < i) /\ ~(i < RowFor(s, p))
        BY <3>1 DEF FullInv, RowsInv, InOrder
    <3>3. RowFor(s, p) \in Nat /\ i \in Nat
        BY <3>1
    <3> QED BY <3>2, <3>3
  <2> HIDE DEF p
  <2>3. new = s.rows[RowFor(s, p)].version
      BY <2>2
  <2> HIDE DEF new
  <2>4. /\ table'[p] # NoRow /\ table'[p] \in {table[p], new}
        /\ table[p] = NoRow => table'[p] = new
        /\ kind.guard = "latest" => new <= table'[p]
        /\ kind.guard = "first" => table'[p] <= new
        /\ kind.append => new = p[1]
        /\ kind.append /\ table[p] # NoRow => table[p] = p[1]
      BY <1>4, <2>1, <2>3
  <2>5. Visible(p, new)'
      BY <1>2, <2>4 DEF Visible, StandsFor
  <2> QED BY <2>5 DEF p, new
<1>6. ASSUME NEW p \in PrimaryKeys, table'[p] # NoRow
      PROVE  VersionInKey(p, table'[p])
  <2>1. CASE p \in Locked(s)
      BY <1>4, <2>1 DEF VersionInKey
  <2>2. CASE p \notin Locked(s)
    <3>1. table'[p] = table[p]
        BY <1>1, <2>2, CommitTable
    <3> QED BY <1>6, <3>1 DEF FullInv, VisibleInv
  <2> QED BY <2>1, <2>2
<1> QED BY <1>5, <1>6

\* The parts of VisibleInv, one step at a time: keys and versions of the rows.
LEMMA NextVersionInKey ==
    ASSUME WhereVersions \cap Versions = {}, FullInv, [Next]_vars
    PROVE  /\ kind' = kind /\ writes' = writes
           /\ \A p \in PrimaryKeys : table'[p] # NoRow => VersionInKey(p, table'[p])
           /\ \A s \in stmts' : \A i \in 1 .. Len(s.rows) :
                 VersionInKey(s.rows[i].key, s.rows[i].version)
<1> DEFINE Good(s) == \A i \in 1 .. Len(s.rows) :
                         VersionInKey(s.rows[i].key, s.rows[i].version)
<1>1. TypeOK /\ TypeInv /\ life \in Nat
    BY UpsertAssumption DEF FullInv, TypeInv, TypeOK
<1>2. \A s \in stmts : Good(s)
    BY DEF FullInv, VisibleInv
<1>3. \A p \in PrimaryKeys : table'[p] # NoRow => VersionInKey(p, table'[p])
  <2>1. CASE UNCHANGED table
      BY <2>1 DEF FullInv, VisibleInv
  <2>2. CASE \E s \in stmts : Commit(s)
      BY <2>2, CommitShows
  <2> QED BY <1>1, <2>1, <2>2, TableWriters
<1>4. ASSUME NEW t \in Tasks, ProcessTransactions(t)
      PROVE  kind' = kind /\ writes' = writes /\ \A s \in stmts' : Good(s)
  <2>1. PICK B \in SUBSET Versions : \E q \in SortedRows(BatchRows(B)) :
              /\ q \in Seq(Row)
              /\ stmts' = stmts \cup NewStatements(t, q)
              /\ kind' = kind /\ writes' = writes
      BY <1>1, <1>4, ProcessFacts
  <2>2. PICK q \in SortedRows(BatchRows(B)) :
              q \in Seq(Row) /\ stmts' = stmts \cup NewStatements(t, q)
      BY <2>1
  <2>3. ASSUME NEW s \in NewStatements(t, q)
        PROVE  Good(s)
    <3>1. PICK c \in Nat : c >= 1 /\ s.rows = Chunk(q, c)
        BY <1>1, <2>2, NewStatementsType
    <3>2. ASSUME NEW i \in 1 .. Len(s.rows)
          PROVE  s.rows[i] \in AllRows(B)
      <4> DEFINE j == (c - 1) * ChunkSize + i
      <4>1. \A x \in 1 .. Len(Chunk(q, c)) :
              /\ (c - 1) * ChunkSize + x \in 1 .. Len(q)
              /\ Chunk(q, c)[x] = q[(c - 1) * ChunkSize + x]
          BY <2>2, <3>1, ChunkRows
      <4>2. j \in 1 .. Len(q) /\ s.rows[i] = q[j]
          BY <3>1, <4>1, Zenon
      <4>3. BatchRows(B) \subseteq Row /\ BatchRows(B) \subseteq AllRows(B)
          BY <1>1, BatchRowsType
      <4>4. \A x \in 1 .. Len(q) : q[x] \in BatchRows(B)
          BY <4>3, SortedRowsType
      <4> HIDE DEF j
      <4> QED BY <4>2, <4>3, <4>4
    <3>3. ASSUME NEW r \in AllRows(B)
          PROVE  VersionInKey(r.key, r.version)
      <4>1. PICK v \in B : \E k \in writes[v] : r = [key |-> PrimaryKey(v, k), version |-> v]
          BY <1>1, BatchRowsType
      <4>2. PICK k \in writes[v] : r = [key |-> PrimaryKey(v, k), version |-> v]
          BY <4>1
      <4> QED BY <4>2 DEF VersionInKey, PrimaryKey
    <3> QED BY <3>2, <3>3
  <2> HIDE DEF Good
  <2> QED BY <1>2, <2>1, <2>2, <2>3
<1>5. ASSUME NEW t \in Tasks, InsertReturns(t)
      PROVE  kind' = kind /\ writes' = writes /\ \A s \in stmts' : Good(s)
  <2> HIDE DEF Good
  <2> QED BY <1>2, <1>5 DEF InsertReturns
<1>6. ASSUME (\E t \in Tasks : InsertFails(t)) \/ Killed
      PROVE  kind' = kind /\ writes' = writes /\ \A s \in stmts' : Good(s)
  <2> HIDE DEF Good
  <2> QED BY <1>1, <1>2, <1>6, EndFacts
<1>7. ASSUME NEW s \in stmts, StatementAction(s)
      PROVE  kind' = kind /\ writes' = writes /\ \A x \in stmts' : Good(x)
  <2>1. kind' = kind /\ writes' = writes
      BY <1>1, <1>7, StatementStep
  <2>2. PICK new : /\ stmts' = (stmts \ {s}) \cup new
                   /\ \A x \in new : Successor(x, s)
      BY <1>1, <1>7, StatementStep
  <2>3. \A x \in new : Good(x)
      BY <1>2, <2>2 DEF Successor
  <2> HIDE DEF Good
  <2> QED BY <1>2, <2>1, <2>2, <2>3
<1>8. ASSUME UNCHANGED vars
      PROVE  kind' = kind /\ writes' = writes /\ \A s \in stmts' : Good(s)
  <2> HIDE DEF Good
  <2> QED BY <1>2, <1>8 DEF vars
<1>9. kind' = kind /\ writes' = writes /\ \A s \in stmts' : Good(s)
  <2> HIDE DEF Good
  <2> QED BY <1>4, <1>5, <1>6, <1>7, <1>8 DEF Next, TaskStep, StatementAction, Rest
<1> QED BY <1>3, <1>9

\* What a statement that succeeded carried is in the table.
LEMMA NextSucceeded ==
    ASSUME WhereVersions \cap Versions = {}, FullInv, [Next]_vars,
           NEW s \in stmts', s.result = "ok", NEW i \in 1 .. Len(s.rows)
    PROVE  Visible(s.rows[i].key, s.rows[i].version)'
<1>1. TypeOK /\ TypeInv /\ life \in Nat
    BY UpsertAssumption DEF FullInv, TypeInv, TypeOK
<1>2. kind' = kind
    BY NextVersionInKey
<1>3. ASSUME s \in stmts
      PROVE  Visible(s.rows[i].key, s.rows[i].version)'
  <2>1. s.rows \in Seq(Row)
      BY <1>1, <1>3 DEF TypeOK, Statement
  <2>2. s.rows[i] \in Row
      BY <2>1
  <2>3. s.rows[i].key \in PrimaryKeys /\ s.rows[i].version \in Nat
      BY <2>2, UpsertAssumption DEF Row, Versions
  <2>4. Visible(s.rows[i].key, s.rows[i].version)
      BY <1>3 DEF FullInv, VisibleInv
  <2> QED BY <1>2, <2>3, <2>4, VisibleStays
<1>4. ASSUME NEW t \in Tasks, ProcessTransactions(t)
      PROVE  s \in stmts
  <2>1. PICK q \in Seq(Row) : stmts' = stmts \cup NewStatements(t, q)
      BY <1>1, <1>4, ProcessFacts
  <2>2. \A x \in NewStatements(t, q) : x.result = "running"
      BY <1>1, NewStatementsType
  <2> QED BY <2>1, <2>2
<1>5. ASSUME NEW t \in Tasks, InsertReturns(t)
      PROVE  s \in stmts
    BY <1>5 DEF InsertReturns
<1>6. ASSUME (\E t \in Tasks : InsertFails(t)) \/ Killed
      PROVE  s \in stmts
    BY <1>1, <1>6, EndFacts
<1>7. ASSUME NEW x \in stmts, StatementAction(x)
      PROVE  s \in stmts \/ (Commit(x) /\ s.rows = x.rows)
  <2>1. PICK new : /\ stmts' = (stmts \ {x}) \cup new
                   /\ \A y \in new : /\ Successor(y, x)
                                     /\ y.result = "ok" => Commit(x)
      BY <1>1, <1>7, StatementStep
  <2> QED BY <2>1 DEF Successor
<1>8. ASSUME UNCHANGED vars
      PROVE  s \in stmts
    BY <1>8 DEF vars
<1>9. ASSUME NEW x \in stmts, Commit(x), s.rows = x.rows
      PROVE  Visible(s.rows[i].key, s.rows[i].version)'
  <2>1. \A j \in 1 .. Len(x.rows) : Visible(x.rows[j].key, x.rows[j].version)'
      BY <1>9, CommitShows
  <2> QED BY <1>9, <2>1
<1>10. s \in stmts \/ \E x \in stmts : Commit(x) /\ s.rows = x.rows
    BY <1>4, <1>5, <1>6, <1>7, <1>8 DEF Next, TaskStep, StatementAction, Rest
<1> QED BY <1>3, <1>9, <1>10

\* What a task's batch writes is carried by the task's statements until they are
\* all joined.
LEMMA NextCarried ==
    ASSUME Converges(kind), FullInv, [Next]_vars, kind' = kind, writes' = writes,
           NEW t \in Tasks, NEW v \in batch'[t], NEW k \in writes[v]
    PROVE  \E s \in Own(t)' : Carries(s, v, k)
<1>1. TypeOK /\ TypeInv /\ life \in Nat
    BY UpsertAssumption DEF FullInv, TypeInv, TypeOK
<1>2. \A s : s \in Own(t)' <=> s \in stmts' /\ s.life = life' /\ s.task = t
    BY DEF Own
<1>3. ASSUME v \in batch[t]
      PROVE  \E s \in stmts : s.life = life /\ s.task = t /\ Carries(s, v, k)
    BY <1>3 DEF FullInv, VisibleInv, Own
<1>4. ASSUME NEW u \in Tasks, ProcessTransactions(u)
      PROVE  \E s \in stmts' : s.life = life' /\ s.task = t /\ Carries(s, v, k)
  <2>1. PICK B \in SUBSET Versions : \E q \in SortedRows(BatchRows(B)) :
              /\ q \in Seq(Row)
              /\ stmts' = stmts \cup NewStatements(u, q)
              /\ batch' = [batch EXCEPT ![u] = B]
              /\ life' = life
      BY <1>1, <1>4, ProcessFacts
  <2>2. PICK q \in SortedRows(BatchRows(B)) :
              q \in Seq(Row) /\ stmts' = stmts \cup NewStatements(u, q)
      BY <2>1
  <2>3. CASE u = t
    <3>1. v \in B
        BY <1>1, <2>1, <2>3 DEF TypeOK
    <3>2. PICK s \in NewStatements(t, q) : Carries(s, v, k)
        BY <1>1, <2>2, <2>3, <3>1, BatchIsCarried
    <3>3. s.life = life /\ s.task = t
        BY <1>1, <2>2, NewStatementsType
    <3> QED BY <2>1, <2>2, <2>3, <3>2, <3>3
  <2>4. CASE u # t
    <3>1. v \in batch[t]
        BY <1>1, <2>1, <2>4 DEF TypeOK
    <3> QED BY <1>3, <2>1, <2>2, <3>1
  <2> QED BY <2>3, <2>4
<1>5. ASSUME NEW u \in Tasks, InsertReturns(u)
      PROVE  \E s \in stmts' : s.life = life' /\ s.task = t /\ Carries(s, v, k)
  <2>1. /\ batch' = [batch EXCEPT ![u] = {}] /\ stmts' = stmts \ Own(u) /\ life' = life
      BY <1>5 DEF InsertReturns
  <2>2. u # t /\ v \in batch[t]
      BY <1>1, <2>1 DEF TypeOK
  <2>3. PICK s \in stmts : s.life = life /\ s.task = t /\ Carries(s, v, k)
      BY <1>3, <2>2
  <2>4. s \notin Own(u)
      BY <2>2, <2>3 DEF Own
  <2> QED BY <2>1, <2>3, <2>4
<1>6. ASSUME (\E u \in Tasks : InsertFails(u)) \/ Killed
      PROVE  FALSE
  <2>1. batch' = [u \in Tasks |-> {}]
      BY <1>1, <1>6, EndFacts
  <2> QED BY <2>1
<1>7. ASSUME NEW x \in stmts, StatementAction(x)
      PROVE  \E s \in stmts' : s.life = life' /\ s.task = t /\ Carries(s, v, k)
  <2>1. batch' = batch /\ life' = life
      BY <1>1, <1>7, StatementStep
  <2>2. PICK new : /\ stmts' = (stmts \ {x}) \cup new
                   /\ \A y \in new : Successor(y, x)
                   /\ x.life = life => new # {}
      BY <1>1, <1>7, StatementStep
  <2>3. PICK s \in stmts : s.life = life /\ s.task = t /\ Carries(s, v, k)
      BY <1>3, <2>1
  <2>4. CASE s # x
      BY <2>1, <2>2, <2>3, <2>4
  <2>5. CASE s = x
    <3>1. PICK y \in new : Successor(y, x)
        BY <2>2, <2>3, <2>5
    <3>2. y.life = life /\ y.task = t /\ y.rows = s.rows
        BY <2>3, <2>5, <3>1 DEF Successor
    <3>3. Carries(y, v, k)
        BY <2>3, <3>2 DEF Carries
    <3> QED BY <2>1, <2>2, <3>2, <3>3
  <2> QED BY <2>4, <2>5
<1>8. ASSUME UNCHANGED vars
      PROVE  \E s \in stmts' : s.life = life' /\ s.task = t /\ Carries(s, v, k)
    BY <1>3, <1>8 DEF vars
<1>9. \E s \in stmts' : s.life = life' /\ s.task = t /\ Carries(s, v, k)
    BY <1>4, <1>5, <1>6, <1>7, <1>8 DEF Next, TaskStep, StatementAction, Rest
<1> QED BY <1>2, <1>9

\* A batch is reported as processed when all it carried is in the table.
LEMMA NextDone ==
    ASSUME WhereVersions \cap Versions = {}, FullInv, [Next]_vars, kind' = kind,
           NEW v \in done', NEW k \in writes[v]
    PROVE  Visible(PrimaryKey(v, k), v)'
<1>1. TypeOK /\ TypeInv /\ TypeOK'
    BY NextType DEF FullInv, TypeInv
<1>2. v \in Versions /\ v \in Nat
    BY <1>1, UpsertAssumption DEF TypeOK, Versions
<1>3. PrimaryKey(v, k) \in PrimaryKeys
    BY <1>1, <1>2, PrimaryKeyType DEF TypeOK
<1>4. PrimaryKey(v, k)' = PrimaryKey(v, k)
    BY DEF PrimaryKey
<1>5. ASSUME NEW t \in Tasks, InsertReturns(t), v \in batch[t]
      PROVE  Visible(PrimaryKey(v, k), v)
  <2>1. PICK s \in Own(t) : Carries(s, v, k)
      BY <1>5 DEF FullInv, VisibleInv
  <2>2. PICK i \in 1 .. Len(s.rows) : /\ s.rows[i].key = PrimaryKey(v, k)
                                      /\ StandsFor(s.rows[i].version, v)
      BY <2>1 DEF Carries
  <2>3. s \in stmts /\ s.result = "ok"
      BY <1>5 DEF InsertReturns, Own
  <2>4. Visible(s.rows[i].key, s.rows[i].version)
      BY <2>3, VisibleFacts
  <2>5. s.rows[i].version \in Nat
    <3>1. s.rows \in Seq(Row)
      <4>1. s \in Statement
          BY <1>1, <2>3 DEF TypeOK
      <4> QED BY <4>1 DEF Statement
    <3>2. s.rows[i] \in Row
        BY <3>1
    <3> QED BY <3>2, UpsertAssumption DEF Row, Versions
  <2>6. table[PrimaryKey(v, k)] \in Nat
      BY <1>1, <1>3, UpsertAssumption DEF TypeOK, Versions, NoRow
  <2>7. StandsFor(table[PrimaryKey(v, k)], v)
      BY <1>2, <2>2, <2>4, <2>5, <2>6, StandsForOrder DEF Visible
  <2> QED BY <2>2, <2>4, <2>7 DEF Visible
<1>6. v \in done \/ \E t \in Tasks : InsertReturns(t) /\ v \in batch[t]
  <2>1. ASSUME NEW t \in Tasks, InsertReturns(t)
        PROVE  v \in done \/ v \in batch[t]
      BY <2>1 DEF InsertReturns
  <2>2. ASSUME NEW t \in Tasks, ProcessTransactions(t)
        PROVE  v \in done
      BY <2>2 DEF ProcessTransactions
  <2>3. ASSUME (\E t \in Tasks : InsertFails(t)) \/ Killed
        PROVE  v \in done
      BY <1>1, <2>3, EndFacts
  <2>4. ASSUME NEW s \in stmts, StatementAction(s)
        PROVE  v \in done
      BY <1>1, <2>4, StatementStep
  <2>5. ASSUME UNCHANGED vars
        PROVE  v \in done
      BY <2>5 DEF vars
  <2> QED BY <2>1, <2>2, <2>3, <2>4, <2>5 DEF Next, TaskStep, StatementAction, Rest
<1>7. Visible(PrimaryKey(v, k), v)
    BY <1>5, <1>6 DEF FullInv, VisibleInv
<1> DEFINE p == PrimaryKey(v, k)
<1>8. p \in PrimaryKeys /\ Visible(p, v) /\ p' = p
    BY <1>3, <1>4, <1>7
<1> HIDE DEF p
<1>9. table'[p] # NoRow /\ StandsFor(table'[p], v)
  <2>1. \A x \in PrimaryKeys : Visible(x, v) => Visible(x, v)'
      BY <1>2, VisibleStays
  <2>2. \A x : Visible(x, v)' <=> table'[x] # NoRow /\ StandsFor(table'[x], v)
      BY DEF Visible, StandsFor
  <2> QED BY <1>8, <2>1, <2>2
<1> QED BY <1>4, <1>9 DEF Visible, p, StandsFor

\* Every step keeps the strengthened invariant.
LEMMA NextFull ==
    ASSUME WhereVersions \cap Versions = {}, \A k \in Kinds : Converges(k),
           FullInv, [Next]_vars
    PROVE  FullInv'
<1>1. TypeInv /\ RowsInv /\ TypeInv'
    BY NextType DEF FullInv
<1>2. Converges(kind) /\ \A k \in Kinds : CollectedByKey(k)
    BY <1>1 DEF TypeInv, Converges
<1>3. RowsInv'
    BY <1>1, <1>2, NextRows
<1>4. /\ kind' = kind /\ writes' = writes
      /\ \A p \in PrimaryKeys : table'[p] # NoRow => VersionInKey(p, table'[p])
      /\ \A s \in stmts' : \A i \in 1 .. Len(s.rows) :
            VersionInKey(s.rows[i].key, s.rows[i].version)
    BY NextVersionInKey
<1>5. \A p \in PrimaryKeys : table'[p] # NoRow => VersionInKey(p, table[p])'
    BY <1>4 DEF VersionInKey
<1>6. \A s \in stmts' : \A i \in 1 .. Len(s.rows) :
         VersionInKey(s.rows[i].key, s.rows[i].version)'
    BY <1>4 DEF VersionInKey
<1>7. \A s \in stmts' : \A i \in 1 .. Len(s.rows) :
         s.result = "ok" => Visible(s.rows[i].key, s.rows[i].version)'
    BY NextSucceeded
<1>8. ASSUME NEW t \in Tasks, NEW v \in batch'[t], NEW k \in writes'[v]
      PROVE  \E s \in Own(t)' : Carries(s, v, k)'
  <2>1. PICK s \in Own(t)' : Carries(s, v, k)
      BY <1>2, <1>4, NextCarried
  <2>2. Carries(s, v, k)'
      BY <1>4, <2>1 DEF Carries, PrimaryKey, StandsFor
  <2> QED BY <2>2
<1>9. \A v \in done' : \A k \in writes'[v] : Visible(PrimaryKey(v, k), v)'
    BY <1>4, NextDone
<1>10. VisibleInv'
    BY <1>5, <1>6, <1>7, <1>8, <1>9 DEF VisibleInv
<1> QED BY <1>1, <1>3, <1>10 DEF FullInv

\* Nothing is sent, stored or done at first.
LEMMA InitFull == Init => FullInv
<1>1. Init => TypeInv
    BY InitType
<1>2. Init => RowsInv /\ VisibleInv
    BY DEF Init, RowsInv, VisibleInv
<1> QED BY <1>1, <1>2 DEF FullInv

\* Once a batch is reported as processed, each row of it is in the table, or one
\* that stands for it: a later one where the table keeps the latest state, an
\* earlier one where it keeps the first, the very same where rows are appended.
\* No interleaving of concurrent tasks, chunks that fail and are sent again,
\* restarts from an earlier version or statements of an ended process takes it
\* back.  The hypotheses are that no row has the word "where" in a column, and
\* that a batch collects its rows to the same end as the table's clause does.
THEOREM DoneStaysVisible ==
    ASSUME WhereVersions \cap Versions = {}, \A k \in Kinds : Converges(k)
    PROVE  Spec => []DoneIsVisible
<1>1. Init => FullInv
    BY InitFull
<1>2. FullInv /\ [Next]_vars => FullInv'
    BY NextFull
<1>3. FullInv => DoneIsVisible
    BY DEF FullInv, VisibleInv, DoneIsVisible, Shows, Visible, StandsFor
<1> QED BY <1>1, <1>2, <1>3, PTL DEF Spec

-----------------------------------------------------------------------------
(* What the table holds in the end *)

\* Every row, sent or stored, was written by its version under its key.
Genuine(r) == r.version \in Writers(r.key)

GenuineInv ==
    /\ \A s \in stmts : \A i \in 1 .. Len(s.rows) : Genuine(s.rows[i])
    /\ \A p \in PrimaryKeys : table[p] # NoRow => table[p] \in Writers(p)

\* A chunk has no rows but those of the batch.
LEMMA SentRowsAreGenuine ==
    ASSUME TypeOK, NEW B \in SUBSET Versions, NEW q \in SortedRows(BatchRows(B)),
           q \in Seq(Row), NEW t \in Tasks, NEW s \in NewStatements(t, q),
           NEW i \in 1 .. Len(s.rows)
    PROVE  Genuine(s.rows[i])
<1>1. life \in Nat
    BY UpsertAssumption DEF TypeOK
<1>2. PICK c \in Nat : c >= 1 /\ s.rows = Chunk(q, c)
    BY <1>1, NewStatementsType
<1>3. \A x \in 1 .. Len(Chunk(q, c)) :
         /\ (c - 1) * ChunkSize + x \in 1 .. Len(q)
         /\ Chunk(q, c)[x] = q[(c - 1) * ChunkSize + x]
    BY <1>2, ChunkRows
<1>4. PICK j \in 1 .. Len(q) : s.rows[i] = q[j]
    BY <1>2, <1>3, Zenon
<1>5. BatchRows(B) \subseteq Row /\ BatchRows(B) \subseteq AllRows(B)
    BY BatchRowsType
<1>6. q[j] \in AllRows(B)
    BY <1>5, SortedRowsType
<1>7. PICK v \in B : \E k \in writes[v] : q[j] = [key |-> PrimaryKey(v, k), version |-> v]
    BY <1>6, BatchRowsType
<1>8. PICK k \in writes[v] : q[j] = [key |-> PrimaryKey(v, k), version |-> v]
    BY <1>7
<1>9. v \in Versions /\ q[j].key = PrimaryKey(v, k) /\ q[j].version = v
    BY <1>8
<1> QED BY <1>4, <1>8, <1>9 DEF Genuine, Writers

\* A step neither sends nor stores a row that no version wrote.
LEMMA NextGenuine ==
    ASSUME TypeInv, GenuineInv, [Next]_vars
    PROVE  GenuineInv'
<1> DEFINE Good(s) == \A i \in 1 .. Len(s.rows) : Genuine(s.rows[i])
<1>1. TypeOK
    BY DEF TypeInv
<1>2. \A s \in stmts : Good(s)
    BY DEF GenuineInv
<1>3. ASSUME NEW t \in Tasks, ProcessTransactions(t)
      PROVE  kind' = kind /\ writes' = writes /\ \A s \in stmts' : Good(s)
  <2>1. PICK B \in SUBSET Versions : \E q \in SortedRows(BatchRows(B)) :
              /\ q \in Seq(Row)
              /\ stmts' = stmts \cup NewStatements(t, q)
              /\ kind' = kind /\ writes' = writes
      BY <1>1, <1>3, ProcessFacts
  <2>2. PICK q \in SortedRows(BatchRows(B)) :
              q \in Seq(Row) /\ stmts' = stmts \cup NewStatements(t, q)
      BY <2>1
  <2>3. \A s \in NewStatements(t, q) : Good(s)
      BY <1>1, <2>2, SentRowsAreGenuine
  <2> HIDE DEF Good
  <2> QED BY <1>2, <2>1, <2>2, <2>3
<1>4. ASSUME NEW t \in Tasks, InsertReturns(t)
      PROVE  kind' = kind /\ writes' = writes /\ \A s \in stmts' : Good(s)
  <2> HIDE DEF Good
  <2> QED BY <1>2, <1>4 DEF InsertReturns
<1>5. ASSUME (\E t \in Tasks : InsertFails(t)) \/ Killed
      PROVE  kind' = kind /\ writes' = writes /\ \A s \in stmts' : Good(s)
  <2> HIDE DEF Good
  <2> QED BY <1>2, <1>5, EndFacts
<1>6. ASSUME NEW s \in stmts, StatementAction(s)
      PROVE  kind' = kind /\ writes' = writes /\ \A x \in stmts' : Good(x)
  <2>1. kind' = kind /\ writes' = writes
      BY <1>1, <1>6, StatementStep
  <2>2. PICK new : /\ stmts' = (stmts \ {s}) \cup new
                   /\ \A x \in new : Successor(x, s)
      BY <1>1, <1>6, StatementStep
  <2>3. \A x \in new : Good(x)
      BY <1>2, <2>2 DEF Successor
  <2> HIDE DEF Good
  <2> QED BY <1>2, <2>1, <2>2, <2>3
<1>7. ASSUME UNCHANGED vars
      PROVE  kind' = kind /\ writes' = writes /\ \A s \in stmts' : Good(s)
  <2> HIDE DEF Good
  <2> QED BY <1>2, <1>7 DEF vars
<1>8. kind' = kind /\ writes' = writes /\ \A s \in stmts' : Good(s)
  <2> HIDE DEF Good
  <2> QED BY <1>3, <1>4, <1>5, <1>6, <1>7 DEF Next, TaskStep, StatementAction, Rest
<1>9. ASSUME NEW p \in PrimaryKeys, table'[p] # NoRow
      PROVE  table'[p] \in Writers(p)
  <2>1. CASE table'[p] = table[p]
      BY <1>9, <2>1 DEF GenuineInv
  <2>2. ASSUME NEW s \in stmts, Commit(s), p \in Locked(s)
        PROVE  table'[p] \in Writers(p)
    <3> DEFINE new == s.rows[RowFor(s, p)].version
    <3>1. table'[p] = Resolve(EffectiveGuard(s), table[p], new)
        BY <1>1, <2>2, CommitTable
    <3>2. EffectiveGuard(s) \in Guards
        BY <1>1, GuardType
    <3>3. new \in Versions /\ new \in Writers(p)
        BY <1>1, <1>2, <2>2, RowForFacts DEF Genuine
    <3>4. table[p] \in Versions \cup {NoRow}
        BY <1>1 DEF TypeOK
    <3> HIDE DEF new
    <3>5. table'[p] \in {table[p], new} /\ (table[p] = NoRow => table'[p] = new)
        BY <3>1, <3>2, <3>3, <3>4, ResolveFacts
    <3> QED BY <3>3, <3>5 DEF GenuineInv
  <2>3. ASSUME NEW s \in stmts, Commit(s), p \notin Locked(s)
        PROVE  table'[p] = table[p]
      BY <1>1, <2>3, CommitTable
  <2> QED BY <2>1, <2>2, <2>3, TableWriters
<1>10. \A p : Writers(p)' = Writers(p)
    BY <1>8 DEF Writers, PrimaryKey
<1> QED BY <1>8, <1>9, <1>10 DEF GenuineInv, Genuine

\* A version that is done and the row stored under a key it writes.
LEMMA VisibleWriter ==
    ASSUME TypeOK, VisibleInv, done = Versions, NEW p \in PrimaryKeys,
           NEW v \in Writers(p)
    PROVE  /\ table[p] # NoRow
           /\ kind.guard = "latest" => v <= table[p]
           /\ kind.guard = "first" => v >= table[p]
<1>1. PICK k \in writes[v] : PrimaryKey(v, k) = p
    BY DEF Writers
<1>2. v \in done /\ v \in Nat
    BY UpsertAssumption DEF Writers, Versions
<1>3. Visible(p, v)
    BY <1>1, <1>2 DEF VisibleInv
<1>4. table[p] \in Nat
    BY UpsertAssumption DEF TypeOK, Versions, NoRow
<1> QED BY <1>2, <1>3, <1>4 DEF Visible, StandsFor

\* When all versions are done the table is exactly what the versions one after the
\* other make it: every key written has a row, the last (first) one written under
\* that key, and nothing else is stored.  Batches, chunks, concurrent tasks, failed
\* statements, restarts and statements of ended processes leave no trace in it.
\* The hypotheses are those of DoneStaysVisible.
THEOREM TablesEndExact ==
    ASSUME WhereVersions \cap Versions = {}, \A k \in Kinds : Converges(k)
    PROVE  Spec => []TableIsExact
<1>1. Init => FullInv /\ GenuineInv
    BY InitFull DEF Init, GenuineInv
<1>2. FullInv /\ GenuineInv /\ [Next]_vars => (FullInv /\ GenuineInv)'
    BY NextFull, NextGenuine DEF FullInv
<1>3. ASSUME FullInv, GenuineInv
      PROVE  TableIsExact
  <2>1. ASSUME NEW p \in PrimaryKeys, done = Versions, NEW v \in Writers(p)
        PROVE  /\ table[p] # NoRow
               /\ kind.guard = "latest" => v <= table[p]
               /\ kind.guard = "first" => v >= table[p]
      BY <1>3, <2>1, VisibleWriter DEF FullInv, TypeInv
  <2> QED BY <1>3, <2>1 DEF TableIsExact, GenuineInv
<1> QED BY <1>1, <1>2, <1>3, PTL DEF Spec
=============================================================================
