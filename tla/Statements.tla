----------------------------- MODULE Statements -----------------------------
(***************************************************************************)
(* What process_transactions does with the rows of a batch at the end, and *)
(* what the statements of insert_to_db do to the tables.  A row has its    *)
(* table, its primary key, its version and the other columns; a table is a *)
(* function from keys to versions and columns.                             *)
(***************************************************************************)
EXTENDS Integers, Functions, FiniteSetsExt, Tables

\* The key of the batch's map.
MapKey(r) == Restrict(r.key, MapColumns(r.table))

SameEntry(r, s) == r.table = s.table /\ MapKey(r) = MapKey(s)

\* Variant: a map keeps the row it has.
Collected_First(rows) ==
    RestrictDomain(rows, LAMBDA i :
        \/ Rows[rows[i].table].keep = "all"
        \/ \A j \in DOMAIN rows : SameEntry(rows[j], rows[i]) => j >= i)

\* The rows left in the maps and lists when the batch has been parsed, at the
\* positions they had.
Collected(rows) ==
    LET Stays(i) ==
            CASE Rows[rows[i].table].keep = "all" -> TRUE
              [] Rows[rows[i].table].keep = "last" ->
                    \A j \in DOMAIN rows : SameEntry(rows[j], rows[i]) => j <= i
              [] Rows[rows[i].table].keep = "first" ->
                    \A j \in DOMAIN rows : SameEntry(rows[j], rows[i]) => j >= i
    IN  RestrictDomain(rows, Stays)

\* Deleted tokens are sent to the tables of the live ones, in statements of
\* their own.
TableOf(statement) ==
    CASE statement = "current_deleted_token_datas_v2" -> "current_token_datas_v2"
      [] statement = "current_deleted_token_ownerships_v2" -> "current_token_ownerships_v2"
      [] OTHER -> statement

\* The statements for deleted tokens have the clause of those for live ones.
ASSUME SameClause ==
    \A s \in {"current_deleted_token_datas_v2", "current_deleted_token_ownerships_v2"} :
        Queries[s] = Queries[TableOf(s)]

\* Processed again, a row of ans_lookup_v2 is given the policy alone.
AnsLookupUpdated(old, new) == [old EXCEPT !.cols.policy = new.cols.policy]

\* The row after an UPDATE, which does not set every column.  That of a row with
\* the version in its key sets at most one that is modelled.
Updated(statement, old, new) ==
    IF Queries[statement].guard = "always" THEN
        CASE statement = "token_datas_v2" ->
                [old EXCEPT !.cols.is_fungible = new.cols.is_fungible]
          [] statement = "ans_lookup_v2" -> AnsLookupUpdated(old, new)
          [] OTHER -> old
    ELSE
        CASE statement = "current_token_datas_v2" ->
                [new EXCEPT !.cols.is_deleted = old.cols.is_deleted]
          [] statement = "current_deleted_token_datas_v2" ->
                [old EXCEPT !.v = new.v, !.cols.is_deleted = new.cols.is_deleted]
          [] statement = "current_deleted_token_ownerships_v2" ->
                [old EXCEPT !.v = new.v, !.cols.amount = new.cols.amount]
          [] OTHER -> new

\* Variant: no version clause.
OnConflict_Unguarded(statement, old, new) ==
    IF Queries[statement].guard = "nothing" THEN old ELSE Updated(statement, old, new)

\* ON CONFLICT: what becomes of row old when new is inserted.
OnConflict(statement, old, new) ==
    LET guard == Queries[statement].guard
    IN  IF \/ guard = "latest" /\ old.v <= new.v
           \/ guard = "first" /\ old.v >= new.v
           \/ guard = "always"
        THEN Updated(statement, old, new) ELSE old

Upserted(stored, statement, k, new) ==
    IF k \in DOMAIN stored THEN OnConflict(statement, stored[k], new) ELSE new

\* Where the rows of a statement are.
RowsFor(rows, statement) == {i \in DOMAIN rows : rows[i].table = statement}

\* The database refuses an UPDATE that would affect a row a second time.
Refused(rows, statement) ==
    /\ Queries[statement].guard # "nothing"
    /\ \E i, j \in RowsFor(rows, statement) : i # j /\ rows[i].key = rows[j].key

\* What a table holds after a statement.  Of rows with the same key the first is
\* stored, and nothing is done for the others.
Executed(stored, rows, statement) ==
    LET mine == RowsFor(rows, statement)
        keys == {rows[i].key : i \in mine}
        Pos(k) == Min({i \in mine : rows[i].key = k})
        New(k) == [v |-> rows[Pos(k)].v, cols |-> rows[Pos(k)].cols]
    IN  [k \in DOMAIN stored \cup keys |->
            IF k \in keys THEN Upserted(stored, statement, k, New(k)) ELSE stored[k]]

\* Variant: the rows of deleted tokens are not sent.
ExecutedAll_LiveOnly(tables, rows, statements) ==
    [t \in DOMAIN tables |->
        IF t \in statements THEN Executed(tables[t], rows, t) ELSE tables[t]]

\* Statements of different tables.
ExecutedAll(tables, rows, statements) ==
    [t \in DOMAIN tables |->
        LET mine == {s \in statements : TableOf(s) = t}
        IN  IF mine = {} THEN tables[t]
            ELSE Executed(tables[t], rows, CHOOSE s \in mine : TRUE)]

\* The statements on tables that a lookup reads, or that two statements write.
Apart ==
    {"current_objects", "current_delegator_balances", "current_delegated_voter",
     "current_collection_datas", "current_collections_v2",
     "current_token_ownerships_v2", "current_deleted_token_ownerships_v2",
     "current_token_datas_v2", "current_deleted_token_datas_v2"}

\* The steps of insert_to_db: each of these statements, and all the others
\* together.  When one of the others takes effect nothing can tell, since no
\* code reads their tables and no two of them write the same one.
Steps(statements) ==
    {{s} : s \in statements \cap Apart} \cup ({statements \ Apart} \ {{}})
=============================================================================
