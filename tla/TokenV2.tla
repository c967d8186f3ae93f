------------------------------ MODULE TokenV2 -------------------------------
(***************************************************************************)
(* The token v2 processor (processors/token_v2_processor.rs and            *)
(* models/token_v2_models).  A token of the second standard is an object:  *)
(* its address is the token's id, its ObjectCore names the owner, and the  *)
(* other resources of the object describe the token or the collection.     *)
(* Tokens of the first standard are stored in the same tables.             *)
(*                                                                         *)
(* An optional value is a sequence of at most one element.                 *)
(***************************************************************************)
EXTENDS TokenV1

TokenResource == "0x4::token::Token"
CollectionResource == "0x4::collection::Collection"

FixedSupply == "0x4::collection::FixedSupply"
UnlimitedSupply == "0x4::collection::UnlimitedSupply"
ConcurrentSupply == "0x4::collection::ConcurrentSupply"
AptosCollection == "0x4::aptos_token::AptosCollection"
PropertyMapModel == "0x4::property_map::PropertyMap"
FungibleAssetMetadata == "0x1::fungible_asset::Metadata"
TokenIdentifiers == "0x4::token::TokenIdentifiers"

\* The resources of an object that the second pass keeps.
StructOf ==
    [fixed_supply |-> FixedSupply, unlimited_supply |-> UnlimitedSupply,
     concurrent_supply |-> ConcurrentSupply, aptos_collection |-> AptosCollection,
     property_map |-> PropertyMapModel, token |-> TokenResource,
     fungible_asset_metadata |-> FungibleAssetMetadata,
     token_identifier |-> TokenIdentifiers]

MintTypes == {"0x4::collection::MintEvent", "0x4::collection::Mint"}
BurnEvent == "0x4::collection::BurnEvent"
Burn == "0x4::collection::Burn"
MutationEvent == "0x4::token::MutationEvent"
TransferEvent == "0x1::object::TransferEvent"

U64_MAX == 64
DEFAULT_OWNER_ADDRESS == "unknown"

to_id(id) == "0x" \o to_hash(id)

-----------------------------------------------------------------------------
(* Objects, kept for the whole batch *)

ObjectAggregatedData(core) ==
    [f \in DOMAIN StructOf |-> <<>>] @@ [object |-> core, transfer_events |-> <<>>]

\* A written core replaces all that was known of the object.
first_pass(helper, changes) ==
    Extended(helper, changes, LAMBDA c : WritesResource(c, ObjectCore),
             LAMBDA c : c.address, LAMBDA c : ObjectAggregatedData(c.data))

second_pass(helper, changes) ==
    FoldLeft(LAMBDA h, c :
        IF c.change = "WriteResource" /\ c.address \in DOMAIN h
        THEN [h EXCEPT ![c.address] =
                [f \in DOMAIN @ |->
                    IF f \in DOMAIN StructOf /\ StructOf[f] = c.type
                    THEN <<c.data>> ELSE @[f]]]
        ELSE h, helper, changes)

\* Variant: the first event keeps its index.
transfer_event_index_Zero(i, n) == i - 1

\* "we don't want index to be 0 otherwise we might have collision with write set
\* change index": i counts from 1 here.
transfer_event_index(i, n) == IF i = 1 THEN n ELSE i - 1

transfer_pass(helper, events) ==
    FoldLeftDomain(LAMBDA h, i :
        LET e == events[i]
        IN  IF e.type = TransferEvent /\ e.data.object \in DOMAIN h
            THEN [h EXCEPT ![e.data.object].transfer_events =
                    Append(@, [index |-> transfer_event_index(i, Len(events)),
                               from |-> e.data.from, to |-> e.data.to])]
            ELSE h, helper, events)

\* An event of the old kind does not name the owner.
tokens_burned(events) ==
    Extended(NoMap, events, LAMBDA e : e.type \in {Burn, BurnEvent},
             LAMBDA e : e.data.token,
             LAMBDA e : IF e.type = Burn
                        THEN [collection |-> e.data.collection,
                              previous_owner |-> e.data.previous_owner]
                        ELSE [collection |-> e.address, previous_owner |-> None])

-----------------------------------------------------------------------------
(* Activities *)

get_v1_from_parsed_event(e, v, i) ==
    Optional(e.type \in TokenEvents,
        <<Row("token_activities_v2", EventIndexKey(v, i), v,
              ActivityCols(e) @@ [token |-> to_id(e.data.id), type |-> e.type])>>)

\* An object that is not in the batch's maps is taken to be burnt.
get_nft_v2_from_parsed_event(e, v, i, helper) ==
    LET token == CASE e.type \in MintTypes \cup {Burn, BurnEvent} -> e.data.token
                   [] e.type = TransferEvent -> e.data.object
                   [] OTHER -> e.address
        known == token \in DOMAIN helper
        cols == [token |-> token, property_version |-> 0,
                 type |-> CASE known /\ e.type \in MintTypes -> "0x4::collection::MintEvent"
                            [] known /\ e.type = Burn -> BurnEvent
                            [] OTHER -> e.type,
                 from_address |-> CASE known /\ e.type = TransferEvent -> e.data.from
                                    [] known -> helper[token].object.owner
                                    [] ~known /\ e.type = Burn -> e.data.previous_owner
                                    [] OTHER -> None,
                 to_address |-> IF known /\ e.type = TransferEvent THEN e.data.to ELSE None,
                 token_amount |-> IF known /\ e.type = MutationEvent THEN 0 ELSE 1]
    IN  Optional(e.type \in MintTypes \cup {Burn, BurnEvent, MutationEvent, TransferEvent},
                 <<Row("token_activities_v2", EventIndexKey(v, i), v, cols)>>)

-----------------------------------------------------------------------------
(* Collections *)

\* "prefer fixed supply over unlimited supply"; the concurrent one over both.
CollectionSupply(o) ==
    LET known == o.concurrent_supply \o o.fixed_supply \o o.unlimited_supply
        max == CASE o.concurrent_supply # <<>> ->
                        SelectSeq(<<known[1].max>>, LAMBDA n : n # U64_MAX)
                 [] o.concurrent_supply = <<>> /\ o.fixed_supply # <<>> -> <<known[1].max>>
                 [] OTHER -> <<>>
    IN  [current |-> IF known = <<>> THEN 0 ELSE known[1].current, max |-> max]

CollectionV2Rows(v, i, id, cols) ==
    <<Row("collections_v2", ChangeKey(v, i), v, cols @@ [collection_id |-> id]),
      Row("current_collections_v2", [collection_id |-> id], v, cols)>>

get_v2_from_write_resource(c, v, i, helper) ==
    Optional(WritesResource(c, CollectionResource) /\ c.address \in DOMAIN helper,
        CollectionV2Rows(v, i, c.address,
            [creator |-> c.data, supply |-> CollectionSupply(helper[c.address]),
             mutable |-> helper[c.address].aptos_collection, table_handle |-> None]))

\* The tables of the older processor, asked last, are taken to be empty.
get_collection_creator_for_v1(db, handle) ==
    LET rows == db.current_collections_v2
        found == {k \in DOMAIN rows : rows[k].cols.table_handle = handle}
    IN  IF found = {} THEN None ELSE rows[CHOOSE k \in found : TRUE].cols.creator

get_v1_from_write_table_item(acc, c, v, i, db) ==
    LET handles == acc.memo.handles
        creator == IF c.handle \in DOMAIN handles THEN handles[c.handle].owner
                   ELSE get_collection_creator_for_v1(db, c.handle)
    IN  IF ~WritesItem(c, CollectionDataType) THEN acc
        ELSE IF creator = None THEN [acc EXCEPT !.missed = TRUE]
        ELSE Push(acc, CollectionV2Rows(v, i, "0x" \o CollectionHash(creator, c.key),
                [creator |-> creator, supply |-> [current |-> c.data, max |-> <<>>],
                 mutable |-> <<>>, table_handle |-> c.handle]))

-----------------------------------------------------------------------------
(* Token data *)

TokenDataRows(v, i, id, cols, is_deleted) ==
    <<Row("token_datas_v2", ChangeKey(v, i), v, cols @@ [token_data_id |-> id]),
      Row("current_token_datas_v2", [token_data_id |-> id], v,
          cols @@ [is_deleted |-> is_deleted])>>

token_data_v1(c, v, i) ==
    Optional(WritesItem(c, TokenDataType),
        TokenDataRows(v, i, to_id(c.key),
            [collection |-> "0x" \o get_collection_data_id_hash(c.key),
             name |-> c.key.name, is_fungible |-> <<>>, properties |-> <<c.data>>], <<>>))

\* The name is in another resource since aggregators.
token_data_v2(c, v, i, o) ==
    TokenDataRows(v, i, c.address,
        [collection |-> c.data.collection,
         name |-> IF o.token_identifier # <<>> THEN o.token_identifier[1] ELSE c.data.name,
         is_fungible |-> <<o.fungible_asset_metadata # <<>> >>,
         properties |-> o.property_map], <<FALSE>>)

\* Both of get_burned_nft_v2_from_write_resource and ..._from_delete_resource.
burned_token_data(c, v, burned) ==
    Optional(c.address \in DOMAIN burned,
        <<Row("current_deleted_token_datas_v2", [token_data_id |-> c.address], v,
              [collection |-> burned[c.address].collection, name |-> "",
               is_fungible |-> <<FALSE>>, properties |-> <<>>, is_deleted |-> <<TRUE>>])>>)

-----------------------------------------------------------------------------
(* Ownership *)

OwnershipKey(token, property, owner, storage) ==
    [token_data_id |-> token, property_version_v1 |-> property,
     owner_address |-> owner, storage_id |-> storage]

\* The index of a row that is made from a transfer is negative.
OwnershipRow(v, index, key, amount) ==
    Row("token_ownerships_v2",
        [transaction_version |-> v, write_set_change_index |-> index], v,
        key @@ [amount |-> amount])

CurrentOwnershipRow(table, v, key, amount, soulbound) ==
    Row(table, key, v, [amount |-> amount, soulbound |-> soulbound])

\* The owner by the core, then the sender of each transfer with amount zero.
get_nft_v2_from_token_data(token, v, i, o) ==
    LET soulbound == <<~o.object.allow_ungated_transfer>>
        moved == SelectSeq(o.transfer_events, LAMBDA e : e.to # e.from)
        Rows2(index, owner, amount) ==
            LET key == OwnershipKey(token, 0, owner, token)
            IN  <<OwnershipRow(v, index, key, amount),
                  CurrentOwnershipRow("current_token_ownerships_v2", v, key, amount,
                                      soulbound)>>
    IN  Rows2(i - 1, o.object.owner, 1)
        \o Emit(moved, LAMBDA n : Rows2(-moved[n].index, moved[n].from, 0))

\* Any row with an amount.
get_latest_owned_nft_by_token_data_id(db, token) ==
    LET rows == db.current_token_ownerships_v2
        found == {k \in DOMAIN rows : k.token_data_id = token /\ rows[k].cols.amount > 0}
    IN  IF found = {} THEN None ELSE (CHOOSE k \in found : TRUE).owner_address

\* Variant: what the batch saw of the token's owner is not used.
previous_owner_NoPrior(acc, token, burned, db) ==
    IF burned[token].previous_owner # None THEN burned[token].previous_owner
    ELSE get_latest_owned_nft_by_token_data_id(db, token)

\* From the burn event, else from the batch so far, else from the table.
previous_owner(acc, token, burned, db) ==
    CASE burned[token].previous_owner # None -> burned[token].previous_owner
      [] /\ burned[token].previous_owner = None
         /\ token \in DOMAIN acc.memo.prior -> acc.memo.prior[token]
      [] OTHER -> get_latest_owned_nft_by_token_data_id(db, token)

Prior(acc, token, owner) == [acc EXCEPT !.memo.prior = (token :> owner) @@ @]

BurnedRows(acc, token, v, i, owner, soulbound) ==
    LET key == OwnershipKey(token, 0, owner, token)
    IN  Prior(Push(acc, <<OwnershipRow(v, i - 1, key, 0),
                          CurrentOwnershipRow("current_deleted_token_ownerships_v2",
                                              v, key, 0, soulbound)>>),
              token, owner)

\* Without an owner the row is made with DEFAULT_OWNER_ADDRESS.
get_burned_nft_v2_helper(acc, token, v, i, burned, db) ==
    LET owner == previous_owner(acc, token, burned, db)
    IN  IF owner = None
        THEN BurnedRows([acc EXCEPT !.missed = TRUE], token, v, i,
                        DEFAULT_OWNER_ADDRESS, <<>>)
        ELSE BurnedRows(acc, token, v, i, owner, <<>>)

\* "token is burned but objectCore is still there"; else it is deleted.
get_burned_nft_v2_from_resource(acc, c, v, i, burned, db) ==
    IF c.address \notin DOMAIN burned THEN acc
    ELSE IF WritesResource(c, ObjectCore)
    THEN BurnedRows(acc, c.address, v, i, c.data.owner, <<~c.data.allow_ungated_transfer>>)
    ELSE get_burned_nft_v2_helper(acc, c.address, v, i, burned, db)

\* Tokens of the first standard; as in from_token.
ownership_v1(acc, c, v, i, table, amount) ==
    LET handles == acc.memo.handles
        owned == c.handle \in DOMAIN handles
        owner == IF owned THEN handles[c.handle].owner ELSE None
        key == OwnershipKey(to_id(c.key), c.key.property, owner, c.handle)
        listed == Push(acc, <<OwnershipRow(v, i - 1, key, amount)>>)
    IN  IF ~owned THEN listed
        ELSE IF handles[c.handle].table_type # TokenStore THEN acc
        ELSE Prior(Push(listed, <<CurrentOwnershipRow(table, v, key, amount, <<>>)>>),
                   to_id(c.key), owner)

-----------------------------------------------------------------------------
(* Metadata *)

FrameworkPrefixes == {"0x1::", "0x3::", "0x4::"}

\* Types of other modules that are not declared to be in the group of an object.
OutsideGroup == {"0x9::m::Wallet"}

\* The members of an object's group are stored together, under one state key.
state_key_hash(type, address) ==
    IF type \in OutsideGroup THEN <<address, type>> ELSE <<address, ObjectGroup>>

\* Resources of other modules in a token's object.
metadata_from_write_resource(c, v, helper) ==
    Optional(/\ c.address \in DOMAIN helper
             /\ helper[c.address].token # <<>>
             /\ SubSeq(c.type, 1, 5) \notin FrameworkPrefixes
             /\ state_key_hash(c.type, c.address) = state_key_hash(ObjectCore, c.address),
        <<Row("current_token_v2_metadata",
              [object_address |-> c.address, resource_type |-> c.type], v,
              [data |-> c.data])>>)

-----------------------------------------------------------------------------
WriteResourceV2(acc, c, v, i, burned, db) ==
    LET helper == acc.memo.helper
        collection == Push(acc, get_v2_from_write_resource(c, v, i, helper))
        token == IF WritesResource(c, TokenResource) /\ c.address \in DOMAIN helper
                 THEN Prior(Push(collection,
                                 get_nft_v2_from_token_data(c.address, v, i, helper[c.address])
                                 \o token_data_v2(c, v, i, helper[c.address])),
                            c.address, helper[c.address].object.owner)
                 ELSE collection
    IN  Push(get_burned_nft_v2_from_resource(Push(token, burned_token_data(c, v, burned)),
                                             c, v, i, burned, db),
             metadata_from_write_resource(c, v, helper))

WriteTableItemV2(acc, c, v, i, db) ==
    LET items == Push(get_v1_from_write_table_item(acc, c, v, i, db), token_data_v1(c, v, i))
    IN  IF c.type = TokenType
        THEN ownership_v1(items, c, v, i, "current_token_ownerships_v2", c.data.amount)
        ELSE items

DeleteTableItemV2(acc, c, v, i) ==
    IF c.type = TokenIdType
    THEN ownership_v1(acc, c, v, i, "current_deleted_token_ownerships_v2", 0)
    ELSE acc

DeleteResourceV2(acc, c, v, i, burned, db) ==
    get_burned_nft_v2_from_resource(Push(acc, burned_token_data(c, v, burned)),
                                    c, v, i, burned, db)

parse_v2_token(acc, txn, v, db) ==
    LET helper == transfer_pass(
                      second_pass(first_pass(acc.memo.helper, txn.changes), txn.changes),
                      txn.events)
        burned == tokens_burned(txn.events)
        activities == Emit(txn.events, LAMBDA i :
                          get_v1_from_parsed_event(txn.events[i], v, i)
                          \o get_nft_v2_from_parsed_event(txn.events[i], v, i, helper))
        Pass(a, i) ==
            LET c == txn.changes[i]
            IN  CASE c.change = "WriteTableItem" -> WriteTableItemV2(a, c, v, i, db)
                  [] c.change = "DeleteTableItem" -> DeleteTableItemV2(a, c, v, i)
                  [] c.change = "WriteResource" -> WriteResourceV2(a, c, v, i, burned, db)
                  [] c.change = "DeleteResource" ->
                        DeleteResourceV2(a, c, v, i, burned, db)
                  [] OTHER -> a
    IN  IF txn.kind # "user" THEN acc
        ELSE Over(txn.changes, Pass, Push([acc EXCEPT !.memo.helper = helper], activities))
=============================================================================
