------------------------------ MODULE TokenV1 -------------------------------
(***************************************************************************)
(* The token processor (processors/token_processor.rs and                  *)
(* models/token_models).  Tokens of the first standard are items of tables *)
(* that belong to resources of an account: Collections, TokenStore and     *)
(* PendingClaims.  An item names only its table's handle.  A token data id *)
(* is [creator, collection, name]; a token id adds the property version,   *)
(* and a token offer id the receiver.                                      *)
(***************************************************************************)
EXTENDS Parsing

Collections == "0x3::token::Collections"
TokenStore == "0x3::token::TokenStore"
PendingClaims == "0x3::token_transfers::PendingClaims"

TokenDataType == "0x3::token::TokenData"
TokenType == "0x3::token::Token"
CollectionDataType == "0x3::token::CollectionData"
TokenIdType == "0x3::token::TokenId"
TokenOfferIdType == "0x3::token_transfers::TokenOfferId"

nft_points_contract == "nft_points_contract"

-----------------------------------------------------------------------------
(* Identifiers *)

\* The hash of the name in full; truncation is for the columns only.
to_hash(id) == ToString(<<id.creator, id.collection, id.name>>)

CollectionHash(creator, name) == ToString(<<creator, name>>)

get_collection_data_id_hash(id) == CollectionHash(id.creator, id.collection)

\* The type of an item's key.
KeyType(c) ==
    IF c.change = "DeleteTableItem" THEN c.type
    ELSE IF "to" \in DOMAIN c.key THEN TokenOfferIdType ELSE TokenIdType

-----------------------------------------------------------------------------
(* Table handles *)

get_table_handle_to_owner_from_transactions(txns) ==
    Extended(NoMap, Changes(SelectSeq(txns, LAMBDA txn : txn.kind = "user")),
             LAMBDA c : /\ c.change = "WriteResource"
                        /\ c.type \in {Collections, TokenStore, PendingClaims},
             LAMBDA c : c.data,
             LAMBDA c : [owner |-> c.address, table_type |-> c.type])

-----------------------------------------------------------------------------
(* Tokens and who owns them *)

TokenKey(id) ==
    [token_data_id_hash |-> to_hash(id), property_version |-> id.property]

\* Only token stores are tracked.  An item of an unknown table is recorded
\* without an owner and changes no current row.
from_token(id, key_type, amount, handle, v, handles) ==
    LET owned == handle \in DOMAIN handles
        owner == IF owned THEN handles[handle].owner ELSE None
    IN  IF \/ key_type # TokenIdType
           \/ owned /\ handles[handle].table_type # TokenStore
        THEN <<>>
        ELSE <<Row("token_ownerships",
                   TokenKey(id) @@ [transaction_version |-> v, table_handle |-> handle],
                   v, [owner |-> owner, amount |-> amount])>>
             \o Optional(owned,
                    <<Row("current_token_ownerships",
                          TokenKey(id) @@ [owner_address |-> owner], v,
                          [amount |-> amount])>>)

TokenRow(id, v, properties) ==
    Row("tokens", TokenKey(id) @@ [transaction_version |-> v], v,
        [properties |-> properties])

token_from_write_table_item(c, v) ==
    Optional(WritesItem(c, TokenType), <<TokenRow(c.key, v, c.data.properties)>>)

token_from_delete_table_item(c, v) ==
    Optional(DeletesItem(c, TokenIdType), <<TokenRow(c.key, v, None)>>)

ownership_from_table_item(c, v, handles) ==
    CASE WritesItem(c, TokenType) ->
            from_token(c.key, KeyType(c), c.data.amount, c.handle, v, handles)
      [] DeletesItem(c, TokenIdType) ->
            from_token(c.key, KeyType(c), 0, c.handle, v, handles)
      [] OTHER -> <<>>

-----------------------------------------------------------------------------
(* Token data and collections *)

token_data_from_write_table_item(c, v) ==
    LET key == [token_data_id_hash |-> to_hash(c.key)]
        cols == [collection |-> get_collection_data_id_hash(c.key), supply |-> c.data]
    IN  Optional(WritesItem(c, TokenDataType),
                 <<Row("token_datas", key @@ [transaction_version |-> v], v, cols),
                   Row("current_token_datas", key, v, cols)>>)

\* Asked of the table only: the batch's own rows come from resources that the
\* map of handles has already.
get_collection_creator(db, handle) ==
    LET rows == db.current_collection_datas
        found == {k \in DOMAIN rows : rows[k].cols.table_handle = handle}
    IN  IF found = {} THEN None ELSE rows[CHOOSE k \in found : TRUE].cols.creator

CollectionRows(creator, c, v) ==
    LET key == [collection_data_id_hash |-> CollectionHash(creator, c.key)]
        cols == [creator |-> creator, supply |-> c.data, table_handle |-> c.handle]
    IN  <<Row("collection_datas", key @@ [transaction_version |-> v], v, cols),
          Row("current_collection_datas", key, v, cols)>>

\* A collection whose creator is not found is dropped.
collection_from_write_table_item(acc, c, v, handles, db) ==
    LET creator == IF c.handle \in DOMAIN handles THEN handles[c.handle].owner
                   ELSE get_collection_creator(db, c.handle)
    IN  IF ~WritesItem(c, CollectionDataType) THEN acc
        ELSE IF creator = None THEN [acc EXCEPT !.missed = TRUE]
        ELSE Push(acc, CollectionRows(creator, c, v))

-----------------------------------------------------------------------------
(* Pending claims *)

ClaimRow(c, v, from, amount) ==
    Row("current_token_pending_claims",
        TokenKey(c.key) @@ [from_address |-> from, to_address |-> c.key.to], v,
        [amount |-> amount])

claim_from_write_table_item(c, v, handles) ==
    Optional(/\ WritesItem(c, TokenType) /\ KeyType(c) = TokenOfferIdType
             /\ c.handle \in DOMAIN handles,
             <<ClaimRow(c, v, handles[c.handle].owner, c.data.amount)>>)

\* A deleted offer in an unknown table is a panic.
claim_from_delete_table_item(acc, c, v, handles) ==
    IF ~DeletesItem(c, TokenOfferIdType) THEN acc
    ELSE IF c.handle \notin DOMAIN handles THEN [acc EXCEPT !.panicked = TRUE]
    ELSE Push(acc, <<ClaimRow(c, v, handles[c.handle].owner, 0)>>)

-----------------------------------------------------------------------------
(* Activities *)

MintEvents == {"0x3::token::MintTokenEvent"}
TransferEvents == {"0x3::token_transfers::TokenOfferEvent",
                   "0x3::token_transfers::TokenCancelOfferEvent",
                   "0x3::token_transfers::TokenClaimEvent"}
TokenEvents == MintEvents \cup TransferEvents \cup
    {"0x3::token::BurnTokenEvent", "0x3::token::MutateTokenPropertyMapEvent",
     "0x3::token::WithdrawEvent", "0x3::token::DepositEvent"}

\* A mint names no property version; a deposit has a receiver and no sender.
ActivityCols(e) ==
    [property_version |-> IF e.type \in MintEvents THEN 0 ELSE e.data.id.property,
     from_address |-> IF e.type = "0x3::token::DepositEvent" THEN None ELSE e.address,
     to_address |-> CASE e.type = "0x3::token::DepositEvent" -> e.address
                      [] e.type \in TransferEvents -> e.data.id.to
                      [] OTHER -> None,
     token_amount |-> IF e.type = "0x3::token::MutateTokenPropertyMapEvent"
                      THEN 0 ELSE e.data.amount]

\* An account has one event handle per type, which numbers its events.
EventKey(txn, v, i) ==
    LET e == txn.events[i]
    IN  [transaction_version |-> v, event_account_address |-> e.address,
         event_creation_number |-> e.type,
         event_sequence_number |->
            Cardinality({j \in 1 .. i - 1 : /\ txn.events[j].type = e.type
                                            /\ txn.events[j].address = e.address})]

TokenActivity(txn, v) ==
    Emit(txn.events, LAMBDA i :
        LET e == txn.events[i]
        IN  Optional(e.type \in TokenEvents,
                <<Row("token_activities", EventKey(txn, v, i), v,
                      ActivityCols(e) @@ [token |-> to_hash(e.data.id)])>>))

NftPoints(txn, v) ==
    Optional(txn.success /\ txn.entry_function = nft_points_contract,
             <<Row("nft_points", [transaction_version |-> v], v, NoMap)>>)

-----------------------------------------------------------------------------
\* The memo is the map of table handles of the whole batch.
TokenParse(acc, txn, v, db) ==
    LET handles == acc.memo
        tokens == LastPerKey(Emit(txn.changes, LAMBDA i :
                      token_from_write_table_item(txn.changes[i], v)
                      \o token_from_delete_table_item(txn.changes[i], v)))
        Pass(a, i) ==
            LET c == txn.changes[i] IN
            claim_from_delete_table_item(
                collection_from_write_table_item(
                    Push(a, ownership_from_table_item(c, v, handles)
                            \o token_data_from_write_table_item(c, v)
                            \o claim_from_write_table_item(c, v, handles)),
                    c, v, handles, db),
                c, v, handles)
    IN  IF txn.kind # "user" THEN acc
        ELSE Push(Over(txn.changes, Pass, acc),
                  tokens \o TokenActivity(txn, v) \o NftPoints(txn, v))
=============================================================================
