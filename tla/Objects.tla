------------------------------ MODULE Objects -------------------------------
(***************************************************************************)
(* The objects processor (processors/objects_processor.rs and              *)
(* models/object_models).  An object is written as a resource group at its *)
(* address, whose ObjectCore names the owner; its deletion names only the  *)
(* address, so the owner is looked up.                                     *)
(***************************************************************************)
EXTENDS Parsing

\* First pass: the cores of the batch so far, by address.  An entry is never
\* removed.
ObjectWithMetadata(helper, changes) ==
    Extended(helper, changes, LAMBDA c : WritesResource(c, ObjectCore),
             LAMBDA c : c.address, LAMBDA c : c.data.owner)

ObjectRows(v, i, address, owner, is_deleted) ==
    LET cols == [owner |-> owner, is_deleted |-> is_deleted]
    IN  <<Row("objects", ChangeKey(v, i), v, cols @@ [object_address |-> address]),
          Row("current_objects", [object_address |-> address], v, cols)>>

\* A write of any resource at the address of a known object.
object_from_write_resource(c, v, i, helper) ==
    Optional(c.address \in DOMAIN helper,
             ObjectRows(v, i, c.address, helper[c.address], FALSE))

\* get_current_object: the owner in the table, None when the last retry fails.
get_current_object(db, address) ==
    LET key == [object_address |-> address]
    IN  IF key \in DOMAIN db.current_objects
        THEN db.current_objects[key].cols.owner ELSE None

\* Variant: the rows of the batch are not consulted.
previous_object_DbOnly(acc, db, address) == get_current_object(db, address)

\* The owner: from this batch's rows, else from the table.
previous_object(acc, db, address) ==
    LET key == [object_address |-> address]
    IN  IF Holds(acc.rows, "current_objects", key)
        THEN Held(acc.rows, "current_objects", key).cols.owner
        ELSE get_current_object(db, address)

\* A deletion whose object is not found is dropped.
object_from_delete_resource(acc, c, v, i, db) ==
    LET owner == previous_object(acc, db, c.address)
    IN  IF c.type # ObjectGroup THEN acc
        ELSE IF owner = None THEN [acc EXCEPT !.missed = TRUE]
        ELSE Push(acc, ObjectRows(v, i, c.address, owner, TRUE))

ObjectsParse(acc, txn, v, db) ==
    LET helper == ObjectWithMetadata(acc.memo, txn.changes)
        Pass(a, i) ==
            LET c == txn.changes[i]
            IN  CASE c.change = "WriteResource" ->
                        Push(a, object_from_write_resource(c, v, i, helper))
                  [] c.change = "DeleteResource" ->
                        object_from_delete_resource(a, c, v, i, db)
                  [] OTHER -> a
    IN  Over(txn.changes, Pass, [acc EXCEPT !.memo = helper])
=============================================================================
