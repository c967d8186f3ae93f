-------------------------------- MODULE Ans ---------------------------------
(***************************************************************************)
(* The processor of the name service (processors/ans_processor.rs and      *)
(* models/ans_models).  Names of the first contract are items of two       *)
(* tables, known by their handles; those of the second are resources, and  *)
(* which name is an account's primary name is told by events.  Everything  *)
(* of the first contract is also stored in the tables of the second.       *)
(*                                                                         *)
(* A name is [domain, subdomain], the subdomain "" if there is none; a     *)
(* record of a name is [address, expires], the address None if the name    *)
(* points nowhere.                                                         *)
(***************************************************************************)
EXTENDS Parsing

NameRecords == "ans_v1_name_records_table_handle"
PrimaryNames == "ans_v1_primary_names_table_handle"
AddressKey == "address"

NameRecordV2 == "v2_1_domains::NameRecord"
SubdomainExt == "v2_1_domains::SubdomainExt"
SetReverseLookupEvent == "v2_1_domains::SetReverseLookupEvent"

Unset == [domain |-> None, subdomain |-> None]

\* A subdomain is written before its domain.
get_token_name(name) ==
    IF name.subdomain = "" THEN <<name.domain>> ELSE <<name.subdomain, name.domain>>

Standard(key, standard) == key @@ [token_standard |-> standard]

-----------------------------------------------------------------------------
(* Names *)

LookupCols(name, record, deleted) ==
    [name |-> name, token_name |-> get_token_name(name), record |-> record,
     is_deleted |-> deleted]

\* The rows in the tables of both contracts (get_v2_from_v1).
LookupRowsV1(v, i, name, cols) ==
    <<Row("current_ans_lookup", name, v, cols),
      Row("ans_lookup", ChangeKey(v, i), v, cols),
      Row("current_ans_lookup_v2", Standard(name, "v1"), v, cols @@ [policy |-> <<>>]),
      Row("ans_lookup_v2", ChangeKey(v, i), v, cols @@ [policy |-> <<>>])>>

\* A deleted record has the default values.
Erased == [address |-> None, expires |-> 0]

NameRecordRows(c, v, i) ==
    CASE c.change = "WriteTableItem" /\ c.handle = NameRecords ->
            LookupRowsV1(v, i, c.key, LookupCols(c.key, c.data, FALSE))
      [] c.change = "DeleteTableItem" /\ c.handle = NameRecords ->
            LookupRowsV1(v, i, c.key, LookupCols(c.key, Erased, TRUE))
      [] OTHER -> <<>>

\* The resources of the transaction that make names subdomains, by address.
address_to_subdomain_ext(changes) ==
    Extended(NoMap, changes, LAMBDA c : WritesResource(c, SubdomainExt),
             LAMBDA c : c.address, LAMBDA c : c.data)

\* Without such a resource in the transaction the record is that of a domain.
parse_name_record_from_write_resource_v2(c, v, i, ext) ==
    LET isSub == c.address \in DOMAIN ext
        name == [domain |-> c.data.domain,
                 subdomain |-> IF isSub THEN ext[c.address].name ELSE ""]
        policy == IF isSub THEN <<ext[c.address].policy>> ELSE <<>>
        cols == LookupCols(name, c.data.record, FALSE) @@ [policy |-> policy]
    IN  Optional(WritesResource(c, NameRecordV2),
            <<Row("current_ans_lookup_v2", Standard(name, "v2"), v, cols),
              Row("ans_lookup_v2", ChangeKey(v, i), v, cols)>>)

-----------------------------------------------------------------------------
(* Primary names *)

PrimaryCols(name, deleted) ==
    [name |-> name, token_name |-> IF deleted THEN <<>> ELSE get_token_name(name),
     is_deleted |-> deleted]

PrimaryRowsV1(v, i, address, cols) ==
    LET key == [registered_address |-> address]
    IN  <<Row("current_ans_primary_name", key, v, cols),
          Row("ans_primary_name", ChangeKey(v, i), v, cols @@ key),
          Row("current_ans_primary_name_v2", Standard(key, "v1"), v, cols),
          Row("ans_primary_name_v2", ChangeKey(v, i), v, cols @@ key)>>

PrimaryNameRows(c, v, i) ==
    CASE c.change = "WriteTableItem" /\ c.handle = PrimaryNames /\ c.type = AddressKey ->
            PrimaryRowsV1(v, i, c.key, PrimaryCols(c.data, FALSE))
      [] c.change = "DeleteTableItem" /\ c.handle = PrimaryNames /\ c.type = AddressKey ->
            PrimaryRowsV1(v, i, c.key, PrimaryCols(Unset, TRUE))
      [] OTHER -> <<>>

\* The row of an event is put among those of the changes, with a negative index.
event_change_index(n) == -(n + 1)

\* An event without a domain says that the account has no primary name any more.
parse_v2_primary_name_record_from_event(e, v, i) ==
    LET unset == e.data.name.domain = ""
        key == [registered_address |-> e.data.account]
        cols == PrimaryCols(IF unset THEN Unset ELSE e.data.name, unset)
    IN  Optional(e.type = SetReverseLookupEvent,
            <<Row("current_ans_primary_name_v2", Standard(key, "v2"), v, cols),
              Row("ans_primary_name_v2",
                  [transaction_version |-> v,
                   write_set_change_index |-> event_change_index(i - 1)], v, cols @@ key)>>)

-----------------------------------------------------------------------------
\* User transactions only.  The events that renew a name are collected and not used.
parse_ans(acc, txn, v) ==
    LET ext == address_to_subdomain_ext(txn.changes)
        FromEvent(i) == parse_v2_primary_name_record_from_event(txn.events[i], v, i)
        FromChange(i) ==
            NameRecordRows(txn.changes[i], v, i) \o PrimaryNameRows(txn.changes[i], v, i)
            \o parse_name_record_from_write_resource_v2(txn.changes[i], v, i, ext)
    IN  IF txn.kind # "user" THEN acc
        ELSE Push(acc, Emit(txn.events, FromEvent) \o Emit(txn.changes, FromChange))
=============================================================================
