-------------------------- MODULE StatementsProofs --------------------------
(***************************************************************************)
(* What the statements of insert_to_db keep, whatever the tables hold and  *)
(* whatever the rows of the batch are.                                     *)
(***************************************************************************)
EXTENDS Statements, TLAPS

(* What a statement does to a table *)

RowFields == {"v", "cols"}

RowsAreRows(stored) == \A k \in DOMAIN stored : DOMAIN stored[k] = RowFields

\* A row of table t gives way to another; where there is no version clause, to
\* whatever there is.
GivesWay(t, old, new) ==
    \/ new = old
    \/ Queries[t].guard = "always"
    \/ Queries[t].guard = "latest" /\ old.v <= new.v
    \/ Queries[t].guard = "first" /\ old.v >= new.v

\* The SET list of an UPDATE that has a version clause includes the version.
LEMMA UpdatedFacts ==
    ASSUME NEW s, NEW old, DOMAIN old = RowFields, NEW v, NEW c
    PROVE  LET u == Updated(s, old, [v |-> v, cols |-> c])
           IN  /\ DOMAIN u = RowFields
               /\ Queries[s].guard # "always" => u.v = v
<1> DEFINE new == [v |-> v, cols |-> c]
           f == [old EXCEPT !.cols.is_fungible = new.cols.is_fungible]
           p == [old EXCEPT !.cols.policy = new.cols.policy]
           a == [new EXCEPT !.cols.is_deleted = old.cols.is_deleted]
           b == [old EXCEPT !.v = new.v, !.cols.is_deleted = new.cols.is_deleted]
           d == [old EXCEPT !.v = new.v, !.cols.amount = new.cols.amount]
<1>1. DOMAIN new = RowFields /\ new.v = v
    BY DEF RowFields
<1>2. DOMAIN a = RowFields /\ a.v = v
    BY <1>1 DEF RowFields
<1>3. DOMAIN b = RowFields /\ b.v = v
    BY DEF RowFields
<1>4. DOMAIN d = RowFields /\ d.v = v
    BY DEF RowFields
<1>5. DOMAIN f = RowFields /\ DOMAIN p = RowFields
    OBVIOUS
<1>6. Updated(s, old, new) =
        IF Queries[s].guard = "always" THEN
            CASE s = "token_datas_v2" -> f
              [] s = "ans_lookup_v2" -> p
              [] OTHER -> old
        ELSE
            CASE s = "current_token_datas_v2" -> a
              [] s = "current_deleted_token_datas_v2" -> b
              [] s = "current_deleted_token_ownerships_v2" -> d
              [] OTHER -> new
    BY DEF Updated, AnsLookupUpdated
<1> HIDE DEF new, f, p, a, b, d
<1>7. Updated(s, old, new) \in {f, p, old, a, b, d, new}
    BY <1>6
<1>8. Queries[s].guard # "always" => Updated(s, old, new) \in {a, b, d, new}
    BY <1>6
<1>9. DOMAIN Updated(s, old, new) = RowFields
    BY <1>1, <1>2, <1>3, <1>4, <1>5, <1>7
<1>10. Queries[s].guard # "always" => Updated(s, old, new).v = v
    BY <1>1, <1>2, <1>3, <1>4, <1>8
<1> QED BY <1>9, <1>10 DEF new

\* ON CONFLICT keeps the row, or replaces it in the direction of the clause.
LEMMA OnConflictFacts ==
    ASSUME NEW s, NEW old, DOMAIN old = RowFields, NEW v, NEW c
    PROVE  LET u == OnConflict(s, old, [v |-> v, cols |-> c])
           IN  DOMAIN u = RowFields /\ GivesWay(s, old, u)
<1> DEFINE new == [v |-> v, cols |-> c]
           w == Updated(s, old, new)
<1>1. /\ DOMAIN w = RowFields
      /\ Queries[s].guard # "always" => w.v = v
    BY UpdatedFacts
<1>2. new.v = v
    OBVIOUS
<1>3. OnConflict(s, old, new) =
        IF \/ Queries[s].guard = "latest" /\ old.v <= new.v
           \/ Queries[s].guard = "first" /\ old.v >= new.v
           \/ Queries[s].guard = "always"
        THEN w ELSE old
    BY DEF OnConflict
<1> HIDE DEF w, new
<1>4. DOMAIN OnConflict(s, old, new) = RowFields
    BY <1>1, <1>3
<1>5. GivesWay(s, old, OnConflict(s, old, new))
    BY <1>1, <1>2, <1>3 DEF GivesWay
<1> QED BY <1>4, <1>5 DEF new

\* A statement stores its keys, loses none, and replaces no row but in the
\* direction of its clause.
LEMMA ExecutedFacts ==
    ASSUME NEW stored, RowsAreRows(stored), NEW rows, NEW s
    PROVE  /\ DOMAIN Executed(stored, rows, s) =
                DOMAIN stored \cup {rows[i].key : i \in RowsFor(rows, s)}
           /\ RowsAreRows(Executed(stored, rows, s))
           /\ \A k \in DOMAIN stored :
                GivesWay(s, stored[k], Executed(stored, rows, s)[k])
<1> DEFINE mine == RowsFor(rows, s)
           keys == {rows[i].key : i \in mine}
           Pos(k) == Min({i \in mine : rows[i].key = k})
           New(k) == [v |-> rows[Pos(k)].v, cols |-> rows[Pos(k)].cols]
           E == Executed(stored, rows, s)
<1>1. E = [k \in DOMAIN stored \cup keys |->
              IF k \in keys THEN Upserted(stored, s, k, New(k)) ELSE stored[k]]
    BY DEF Executed
<1>2. ASSUME NEW k \in DOMAIN stored
      PROVE  DOMAIN E[k] = RowFields /\ GivesWay(s, stored[k], E[k])
  <2>1. DOMAIN stored[k] = RowFields
      BY DEF RowsAreRows
  <2>2. LET u == OnConflict(s, stored[k], New(k))
        IN  DOMAIN u = RowFields /\ GivesWay(s, stored[k], u)
      BY <2>1, OnConflictFacts
  <2> DEFINE u == OnConflict(s, stored[k], New(k))
  <2>3. DOMAIN u = RowFields /\ GivesWay(s, stored[k], u)
      BY <2>2
  <2>4. E[k] = IF k \in keys THEN u ELSE stored[k]
      BY <1>1 DEF Upserted
  <2>5. GivesWay(s, stored[k], stored[k])
      BY DEF GivesWay
  <2> HIDE DEF u, E, keys
  <2> QED BY <2>1, <2>3, <2>4, <2>5
<1>3. ASSUME NEW k \in keys, k \notin DOMAIN stored
      PROVE  DOMAIN E[k] = RowFields
  <2>1. E[k] = New(k)
      BY <1>1, <1>3 DEF Upserted
  <2>2. DOMAIN New(k) = RowFields
      BY DEF RowFields
  <2> QED BY <2>1, <2>2
<1>4. DOMAIN E = DOMAIN stored \cup keys
    BY <1>1
<1> HIDE DEF E, keys
<1>5. RowsAreRows(E)
    BY <1>2, <1>3, <1>4 DEF RowsAreRows
<1>6. \A k \in DOMAIN stored : GivesWay(s, stored[k], E[k])
    BY <1>2
<1> QED BY <1>4, <1>5, <1>6 DEF E, keys

\* A statement has the clause of the table it writes.
LEMMA ClauseOfTable ==
    ASSUME NEW s
    PROVE  Queries[s] = Queries[TableOf(s)]
<1>1. CASE s \in {"current_deleted_token_datas_v2", "current_deleted_token_ownerships_v2"}
    BY <1>1, SameClause
<1>2. CASE s \notin {"current_deleted_token_datas_v2", "current_deleted_token_ownerships_v2"}
    BY <1>2 DEF TableOf
<1> QED BY <1>1, <1>2

\* No row is lost, and a table of a statement has the statement's keys.
LEMMA ExecutedAllFacts ==
    ASSUME NEW tables, \A t \in DOMAIN tables : RowsAreRows(tables[t]),
           NEW rows, NEW ss
    PROVE  LET E == ExecutedAll(tables, rows, ss)
           IN  /\ DOMAIN E = DOMAIN tables
               /\ \A t \in DOMAIN tables :
                    /\ RowsAreRows(E[t])
                    /\ \A k \in DOMAIN tables[t] :
                          k \in DOMAIN E[t] /\ GivesWay(t, tables[t][k], E[t][k])
<1> DEFINE E == ExecutedAll(tables, rows, ss)
           Mine(t) == {s \in ss : TableOf(s) = t}
<1>1. DOMAIN E = DOMAIN tables
    BY DEF ExecutedAll
<1>2. ASSUME NEW t \in DOMAIN tables
      PROVE  /\ RowsAreRows(E[t])
             /\ \A k \in DOMAIN tables[t] :
                   k \in DOMAIN E[t] /\ GivesWay(t, tables[t][k], E[t][k])
  <2> DEFINE s == CHOOSE x \in Mine(t) : TRUE
  <2>1. E[t] = IF Mine(t) = {} THEN tables[t] ELSE Executed(tables[t], rows, s)
      BY DEF ExecutedAll
  <2> HIDE DEF E
  <2>2. CASE Mine(t) = {}
    <3>1. E[t] = tables[t]
        BY <2>1, <2>2
    <3> QED BY <3>1 DEF GivesWay
  <2>3. CASE Mine(t) # {}
    <3>1. s \in Mine(t)
        BY <2>3
    <3>2. TableOf(s) = t
        BY <3>1
    <3>3. E[t] = Executed(tables[t], rows, s)
        BY <2>1, <2>3
    <3> HIDE DEF s
    <3>4. Queries[s] = Queries[t]
        BY <3>2, ClauseOfTable
    <3>5. RowsAreRows(tables[t])
        OBVIOUS
    <3> DEFINE X == Executed(tables[t], rows, s)
    <3>6. /\ DOMAIN X = DOMAIN tables[t] \cup {rows[i].key : i \in RowsFor(rows, s)}
          /\ RowsAreRows(X)
          /\ \A k \in DOMAIN tables[t] : GivesWay(s, tables[t][k], X[k])
        BY <3>5, ExecutedFacts
    <3> HIDE DEF X
    <3>7. \A k \in DOMAIN tables[t] : k \in DOMAIN E[t]
        BY <3>3, <3>6 DEF X
    <3>8. \A k \in DOMAIN tables[t] : GivesWay(t, tables[t][k], X[k])
        BY <3>4, <3>6 DEF GivesWay
    <3> QED BY <3>3, <3>6, <3>7, <3>8 DEF X
  <2> QED BY <2>2, <2>3
<1> QED BY <1>1, <1>2

-----------------------------------------------------------------------------
(* The statements of a batch *)

\* No two of the statements write the same table.
OneEach(statements) ==
    \A a, b \in statements : TableOf(a) = TableOf(b) => a = b

\* insert_to_db leaves no statement out.
LEMMA StepsFacts ==
    ASSUME NEW S
    PROVE  /\ UNION Steps(S) = S
           /\ \A ss \in Steps(S) : OneEach(ss)
<1>1. Steps(S) = {{s} : s \in S \cap Apart} \cup ({S \ Apart} \ {{}})
    BY DEF Steps
<1>2. ASSUME NEW x \in S
      PROVE  \E ss \in Steps(S) : x \in ss
  <2>1. CASE x \in Apart
    <3>1. {x} \in Steps(S)
        BY <1>1, <2>1
    <3> QED BY <3>1
  <2>2. CASE x \notin Apart
    <3>1. x \in S \ Apart
        BY <2>2
    <3>2. S \ Apart \in Steps(S)
        BY <1>1, <3>1
    <3> QED BY <3>1, <3>2
  <2> QED BY <2>1, <2>2
<1>3. ASSUME NEW ss \in Steps(S)
      PROVE  ss = S \ Apart \/ \E s \in S : ss = {s}
    BY <1>1
<1>4. \A s : s \notin Apart => TableOf(s) = s
    BY DEF Apart, TableOf
<1>5. OneEach(S \ Apart)
    BY <1>4 DEF OneEach
<1>6. \A s : OneEach({s})
    BY DEF OneEach
<1>7. ASSUME NEW ss \in Steps(S)
      PROVE  ss \subseteq S /\ OneEach(ss)
  <2>1. CASE ss = S \ Apart
      BY <1>5, <2>1
  <2>2. ASSUME NEW s \in S, ss = {s}
        PROVE  ss \subseteq S /\ OneEach(ss)
      BY <1>6, <2>2
  <2> QED BY <1>3, <2>1, <2>2
<1>8. UNION Steps(S) = S
    BY <1>2, <1>7
<1> QED BY <1>7, <1>8

-----------------------------------------------------------------------------
(* What is collected by key is accepted *)

\* The maps of process_transactions ("we do not want to send duplicates writes to
\* the db within a batch"): whatever the batch's rows are, the database refuses no
\* statement of a table whose rows are collected by key.  The map of the delegator
\* balances has less than the primary key for its key, which does no harm here.
THEOREM CollectedIsAccepted ==
    ASSUME NEW rows, DOMAIN rows \subseteq Nat, NEW s, Rows[s].keep \in {"last", "first"}
    PROVE  ~Refused(Collected(rows), s)
<1> DEFINE c == Collected(rows)
           Stays(i) ==
               CASE Rows[rows[i].table].keep = "all" -> TRUE
                 [] Rows[rows[i].table].keep = "last" ->
                       \A j \in DOMAIN rows : SameEntry(rows[j], rows[i]) => j <= i
                 [] Rows[rows[i].table].keep = "first" ->
                       \A j \in DOMAIN rows : SameEntry(rows[j], rows[i]) => j >= i
<1>1. c = [i \in {x \in DOMAIN rows : Stays(x)} |-> rows[i]]
    BY DEF Collected, RestrictDomain, Restrict
<1>2. ASSUME NEW i \in RowsFor(c, s), NEW j \in RowsFor(c, s), c[i].key = c[j].key
      PROVE  i = j
  <2>1. /\ i \in DOMAIN rows /\ j \in DOMAIN rows
        /\ Stays(i) /\ Stays(j)
        /\ rows[i].table = s /\ rows[j].table = s
        /\ rows[i].key = rows[j].key
      BY <1>1, <1>2 DEF RowsFor
  <2>2. SameEntry(rows[i], rows[j]) /\ SameEntry(rows[j], rows[i])
      BY <2>1 DEF SameEntry, MapKey
  <2>3. CASE Rows[s].keep = "last"
    <3>1. i <= j /\ j <= i
        BY <2>1, <2>2, <2>3
    <3> QED BY <2>1, <3>1
  <2>4. CASE Rows[s].keep = "first"
    <3>1. i >= j /\ j >= i
        BY <2>1, <2>2, <2>4
    <3> QED BY <2>1, <3>1
  <2> QED BY <2>3, <2>4
<1> HIDE DEF c
<1> QED BY <1>2 DEF Refused, c
=============================================================================
