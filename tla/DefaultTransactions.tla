------------------------ MODULE DefaultTransactions -------------------------
(***************************************************************************)
(* The default processor and the transaction metadata processor            *)
(* (processors/default_processor.rs,                                       *)
(* processors/transaction_metadata_processor.rs and their models), which   *)
(* store all transactions, changes and sizes without interpreting them.    *)
(***************************************************************************)
EXTENDS Parsing

WriteModule(address, name) ==
    [change |-> "WriteModule", address |-> address, name |-> name]

DeleteModule(address, name) ==
    [change |-> "DeleteModule", address |-> address, name |-> name]

\* An address without leading zeros, and as it is stored.
LeadingZeros == ("0x5" :> "0x05")

standardize_address(a) == IF a \in DOMAIN LeadingZeros THEN LeadingZeros[a] ELSE a

Deletions == {"DeleteModule", "DeleteResource", "DeleteTableItem"}

\* A transaction without data counts its changes and stores none; that of a
\* checkpoint or a validator has no events.
WithEvents == {"user", "genesis", "block_metadata"}

TransactionRow(txn, v) ==
    Row("transactions", [version |-> v], v,
        [type |-> txn.kind, num_write_set_changes |-> Len(txn.changes),
         num_events |-> IF txn.kind \in WithEvents THEN Len(txn.events) ELSE 0])

\* The hash in the key of a current item stands for the item's key.
TableItemRows(c, v, i) ==
    LET handle == standardize_address(c.handle)
        cols == [is_deleted |-> c.change \in Deletions,
                 value |-> IF c.change \in Deletions THEN <<>> ELSE <<c.data>>]
    IN  <<Row("table_items", ChangeKey(v, i), v,
              cols @@ [table_handle |-> handle, item |-> c.key]),
          Row("current_table_items", [table_handle |-> handle, key_hash |-> c.key], v, cols)>>

\* The handle is stored as it is given.
TableMetadataRow(c, v) ==
    Row("table_metadatas", [handle |-> c.handle], v, [type |-> c.type])

ResourceRow(c, v, i) ==
    Row("move_resources", ChangeKey(v, i), v,
        [type |-> c.type, address |-> c.address,
         data |-> IF c.change \in Deletions THEN <<>> ELSE <<c.data>>,
         is_deleted |-> c.change \in Deletions])

ModuleRow(c, v, i) ==
    Row("move_modules", ChangeKey(v, i), v,
        [address |-> c.address, name |-> c.name, is_deleted |-> c.change \in Deletions])

WriteSetChangeDetail(c, v, i) ==
    CASE c.change \in {"WriteModule", "DeleteModule"} -> <<ModuleRow(c, v, i)>>
      [] c.change \in {"WriteResource", "DeleteResource"} -> <<ResourceRow(c, v, i)>>
      [] c.change = "WriteTableItem" ->
            TableItemRows(c, v, i) \o <<TableMetadataRow(c, v)>>
      [] c.change = "DeleteTableItem" -> TableItemRows(c, v, i)

\* An item of a table has no address.
from_write_set_change(c, v, i) ==
    <<Row("write_set_changes", [transaction_version |-> v, index |-> i - 1], v,
          [type |-> c.change,
           address |-> IF c.change \in {"WriteTableItem", "DeleteTableItem"}
                       THEN "" ELSE c.address])>>
    \o WriteSetChangeDetail(c, v, i)

from_transaction(txn, v) ==
    <<TransactionRow(txn, v)>>
    \o Optional(txn.kind = "block_metadata",
                <<Row("block_metadata_transactions", [version |-> v], v, NoMap)>>)
    \o Optional(txn.kind \in WithEvents,
                Emit(txn.changes, LAMBDA i : from_write_set_change(txn.changes[i], v, i)))

DefaultParse(acc, txn, v) == Push(acc, from_transaction(txn, v))

-----------------------------------------------------------------------------
(* Sizes: those of the transaction, its events and its changes, or none *)

SizeKey(v, i) == [transaction_version |-> v, index |-> i - 1]

TransactionMetadataParse(acc, txn, v) ==
    IF txn.size_info = <<>> THEN acc
    ELSE LET info == txn.size_info[1]
         IN  Push(acc,
                <<Row("transaction_size_info", [transaction_version |-> v], v,
                      [bytes |-> info.transaction_bytes])>>
                \o [i \in DOMAIN info.events |->
                      Row("event_size_info", SizeKey(v, i), v, [bytes |-> info.events[i]])]
                \o [i \in DOMAIN info.write_ops |->
                      Row("write_set_size_info", SizeKey(v, i), v,
                          [bytes |-> info.write_ops[i]])])
=============================================================================
