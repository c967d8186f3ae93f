------------------------------ MODULE Parsing -------------------------------
(***************************************************************************)
(* What the processors have in common when they turn the transactions of a *)
(* batch into rows: the shape of a transaction, the rows, and the batch's  *)
(* accumulator.                                                            *)
(*                                                                         *)
(* Addresses, types, handles, hashes and amounts are members of small      *)
(* sets; only the relations between them matter.  A row has its table, its *)
(* primary key (a record with one field per key column), its version and   *)
(* the columns that some property tells apart.                             *)
(***************************************************************************)
EXTENDS Integers, Sequences, SequencesExt, Tables

None == "none"

-----------------------------------------------------------------------------
(* Transactions (aptos_protos) *)

WriteResource(type, address, data) ==
    [change |-> "WriteResource", type |-> type, address |-> address, data |-> data]

DeleteResource(type, address) ==
    [change |-> "DeleteResource", type |-> type, address |-> address]

WriteTableItem(type, handle, key, data) ==
    [change |-> "WriteTableItem", type |-> type, handle |-> handle, key |-> key,
     data |-> data]

DeleteTableItem(type, handle, key) ==
    [change |-> "DeleteTableItem", type |-> type, handle |-> handle, key |-> key]

Event(type, address, data) == [type |-> type, address |-> address, data |-> data]

\* kind is the txn_data: "user", "genesis", "block_metadata", ... or None.
Txn(kind, events, changes) == [kind |-> kind, events |-> events, changes |-> changes]

\* The resource that makes its address an object; its data is
\* [owner, allow_ungated_transfer].
ObjectCore == "0x1::object::ObjectCore"

\* What is deleted with an object.
ObjectGroup == "0x1::object::ObjectGroup"

WritesResource(c, type) == c.change = "WriteResource" /\ c.type = type

DeletesResource(c, type) == c.change = "DeleteResource" /\ c.type = type

WritesItem(c, type) == c.change = "WriteTableItem" /\ c.type = type

DeletesItem(c, type) == c.change = "DeleteTableItem" /\ c.type = type

-----------------------------------------------------------------------------
(* Rows *)

Row(table, key, v, cols) == [table |-> table, key |-> key, v |-> v, cols |-> cols]

\* Positions are counted from zero in the code.
ChangeKey(v, i) == [transaction_version |-> v, write_set_change_index |-> i - 1]

EventIndexKey(v, i) == [transaction_version |-> v, event_index |-> i - 1]

Holding(rows, table, key) ==
    {i \in DOMAIN rows : rows[i].table = table /\ rows[i].key = key}

Holds(rows, table, key) == Holding(rows, table, key) # {}

\* The row a batch's map for the table holds under key: the last one inserted.
Held(rows, table, key) ==
    LET at == Holding(rows, table, key)
    IN  rows[CHOOSE i \in at : \A j \in at : j <= i]

\* The rows at the positions that Stays selects.
RowsThat(rows, Stays(_)) ==
    LET kept == SelectSeq([i \in DOMAIN rows |-> i], Stays)
    IN  [n \in DOMAIN kept |-> rows[kept[n]]]

\* What a map filled with these rows holds in the end, whatever its order.
LastPerKey(rows) ==
    RowsThat(rows, LAMBDA i :
        \A j \in Holding(rows, rows[i].table, rows[i].key) : j <= i)

-----------------------------------------------------------------------------
(* The accumulator of a batch: rows so far, the maps kept between the      *)
(* transactions of the batch, whether a lookup in the database found       *)
(* nothing, and whether the code panicked.                                 *)

Batch(memo) == [rows |-> <<>>, memo |-> memo, missed |-> FALSE, panicked |-> FALSE]

Push(acc, rows) == [acc EXCEPT !.rows = @ \o rows]

\* The rows of every position of s, in order.
Emit(s, RowsAt(_)) == FlattenSeq([i \in DOMAIN s |-> RowsAt(i)])

\* A loop over the positions of s, which a panic ends.
Over(s, Step(_, _), acc) ==
    IF acc.panicked THEN acc
    ELSE FoldLeftDomain(LAMBDA a, i : IF a.panicked THEN a ELSE Step(a, i), acc, s)

NoMap == <<>>

Changes(txns) == FlattenSeq([i \in DOMAIN txns |-> txns[i].changes])

\* A map extended by a pass over s; a later element replaces an earlier one.
Extended(map, s, Is(_), Key(_), Value(_)) ==
    FoldLeft(LAMBDA m, c : IF Is(c) THEN (Key(c) :> Value(c)) @@ m ELSE m, map, s)

Optional(condition, rows) == IF condition THEN rows ELSE <<>>
=============================================================================
