------------------------------- MODULE Tables -------------------------------
(***************************************************************************)
(* The tables the processors write, read off their code.  For each         *)
(* processor:                                                              *)
(*   ...Queries  the insert_..._query functions: primary key of the table  *)
(*               and what happens when a row is already there;             *)
(*   ...Rows     what process_transactions does with the rows of a batch   *)
(*               before it sends them: how they are collected, and the key *)
(*               columns they are sorted by;                               *)
(*   ...Insert   the tables insert_to_db sends rows to.                    *)
(***************************************************************************)
EXTENDS FiniteSets, TLC

(* ON CONFLICT (pk) DO ... *)
Latest(pk) == [pk |-> pk, guard |-> "latest"]    \* UPDATE WHERE last version <= new
First(pk) == [pk |-> pk, guard |-> "first"]      \* UPDATE WHERE first version >= new
Always(pk) == [pk |-> pk, guard |-> "always"]    \* UPDATE
Nothing(pk) == [pk |-> pk, guard |-> "nothing"]  \* NOTHING

(* How the rows of a batch are collected *)
Listed == [keep |-> "all", sort |-> {}]
LastByKey(sort) == [keep |-> "last", sort |-> sort]
FirstByKey(sort) == [keep |-> "first", sort |-> sort]

ByChange == {"transaction_version", "write_set_change_index"}
ByEvent == {"transaction_version", "event_index"}
ByEventKey == {"transaction_version", "event_account_address",
               "event_creation_number", "event_sequence_number"}

-----------------------------------------------------------------------------
AccountTransactionsQueries ==
    [account_transactions |-> Nothing({"transaction_version", "account_address"})]

AccountTransactionsRows ==
    [account_transactions |->
        LastByKey({"transaction_version", "account_address"})]

AccountTransactionsInsert == {"account_transactions"}

AnsQueries ==
    [current_ans_lookup |-> Latest({"domain", "subdomain"}),
     ans_lookup |-> Nothing(ByChange),
     current_ans_primary_name |-> Latest({"registered_address"}),
     ans_primary_name |-> Nothing(ByChange),
     current_ans_lookup_v2 |-> Latest({"domain", "subdomain", "token_standard"}),
     ans_lookup_v2 |-> Always(ByChange),
     current_ans_primary_name_v2 |->
        Latest({"registered_address", "token_standard"}),
     ans_primary_name_v2 |-> Nothing(ByChange)]

\* The Ord implementations of the v2 rows do not compare the token standard.
CurrentAnsLookupV2Cmp == {"domain", "subdomain"}
CurrentAnsPrimaryNameV2Cmp == {"registered_address"}

AnsRows ==
    [current_ans_lookup |-> LastByKey({"domain", "subdomain"}),
     ans_lookup |-> Listed,
     current_ans_primary_name |-> LastByKey({"registered_address"}),
     ans_primary_name |-> Listed,
     current_ans_lookup_v2 |-> LastByKey(CurrentAnsLookupV2Cmp),
     ans_lookup_v2 |-> Listed,
     current_ans_primary_name_v2 |-> LastByKey(CurrentAnsPrimaryNameV2Cmp),
     ans_primary_name_v2 |-> Listed]

AnsInsert == DOMAIN AnsRows

CoinQueries ==
    [coin_activities |-> Always(ByEventKey),
     coin_infos |-> First({"coin_type_hash"}),
     coin_balances |->
        Nothing({"transaction_version", "owner_address", "coin_type_hash"}),
     current_coin_balances |-> Latest({"owner_address", "coin_type_hash"}),
     coin_supply |-> Nothing({"transaction_version", "coin_type_hash"})]

\* The rows are sorted by coin type, and the hash in the key is that of the coin
\* type: the order is not the order of the hashes but it is the same in every task.
CoinRows ==
    [coin_activities |-> Listed,
     coin_infos |-> FirstByKey({"coin_type_hash"}),
     coin_balances |-> Listed,
     current_coin_balances |-> LastByKey({"owner_address", "coin_type_hash"}),
     coin_supply |-> Listed]

CoinInsert == DOMAIN CoinRows

DefaultQueries ==
    [transactions |-> Always({"version"}),
     block_metadata_transactions |-> Nothing({"version"}),
     write_set_changes |-> Nothing({"transaction_version", "index"}),
     move_modules |-> Nothing(ByChange),
     move_resources |-> Nothing(ByChange),
     table_items |-> Nothing(ByChange),
     current_table_items |-> Latest({"table_handle", "key_hash"}),
     table_metadatas |-> Nothing({"handle"})]

DefaultRows ==
    [transactions |-> Listed,
     block_metadata_transactions |-> Listed,
     write_set_changes |-> Listed,
     move_modules |-> Listed,
     move_resources |-> Listed,
     table_items |-> Listed,
     current_table_items |-> LastByKey({"table_handle", "key_hash"}),
     table_metadatas |-> LastByKey({"handle"})]

DefaultInsert == DOMAIN DefaultRows

EventsQueries == [events |-> Always(ByEvent)]

EventsRows == [events |-> Listed]

EventsInsert == {"events"}

FungibleAssetQueries ==
    [fungible_asset_activities |-> Nothing(ByEvent),
     fungible_asset_metadata |-> Latest({"asset_type"}),
     fungible_asset_balances |-> Nothing(ByChange),
     current_fungible_asset_balances |-> Latest({"storage_id"})]

FungibleAssetRows ==
    [fungible_asset_activities |-> Listed,
     fungible_asset_metadata |-> LastByKey({"asset_type"}),
     fungible_asset_balances |-> Listed,
     current_fungible_asset_balances |-> LastByKey({"storage_id"})]

FungibleAssetInsert == DOMAIN FungibleAssetRows

ObjectsQueries ==
    [objects |-> Always(ByChange),
     current_objects |-> Latest({"object_address"})]

ObjectsRows ==
    [objects |-> Listed,
     current_objects |-> LastByKey({"object_address"})]

ObjectsInsert == DOMAIN ObjectsRows

StakeQueries ==
    [current_staking_pool_voter |-> Latest({"staking_pool_address"}),
     proposal_votes |->
        Nothing({"transaction_version", "proposal_id", "voter_address"}),
     delegated_staking_activities |-> Nothing(ByEvent),
     delegator_balances |-> Nothing(ByChange),
     current_delegator_balances |->
        Latest({"delegator_address", "pool_address", "pool_type", "table_handle"}),
     delegated_staking_pools |-> First({"staking_pool_address"}),
     delegated_staking_pool_balances |->
        Nothing({"transaction_version", "staking_pool_address"}),
     current_delegated_staking_pool_balances |-> Latest({"staking_pool_address"}),
     current_delegated_voter |->
        Latest({"delegation_pool_address", "delegator_address"})]

\* The pools are collected like the other rows, although their table keeps the
\* first version and not the last.  The delegator balances are sorted by the
\* columns their map has for its key.
StakeRows ==
    [current_staking_pool_voter |-> LastByKey({"staking_pool_address"}),
     proposal_votes |-> Listed,
     delegated_staking_activities |-> Listed,
     delegator_balances |-> Listed,
     current_delegator_balances |->
        LastByKey({"delegator_address", "pool_address", "pool_type"}),
     delegated_staking_pools |-> LastByKey({"staking_pool_address"}),
     delegated_staking_pool_balances |-> Listed,
     current_delegated_staking_pool_balances |->
        LastByKey({"staking_pool_address"}),
     current_delegated_voter |->
        LastByKey({"delegation_pool_address", "delegator_address"})]

StakeInsert == DOMAIN StakeRows

TokenQueries ==
    [tokens |->
        Nothing({"token_data_id_hash", "property_version", "transaction_version"}),
     token_ownerships |->
        Nothing({"token_data_id_hash", "property_version", "transaction_version",
                 "table_handle"}),
     token_datas |-> Nothing({"token_data_id_hash", "transaction_version"}),
     collection_datas |->
        Nothing({"collection_data_id_hash", "transaction_version"}),
     current_token_ownerships |->
        Latest({"token_data_id_hash", "property_version", "owner_address"}),
     current_token_datas |-> Latest({"token_data_id_hash"}),
     current_collection_datas |-> Latest({"collection_data_id_hash"}),
     token_activities |-> Nothing(ByEventKey),
     current_token_pending_claims |->
        Latest({"token_data_id_hash", "property_version", "from_address",
                "to_address"}),
     nft_points |-> Nothing({"transaction_version"})]

\* The comparison of two claims compares the first one's to_address to itself.
TokenRows ==
    [tokens |-> Listed,
     token_ownerships |-> Listed,
     token_datas |-> Listed,
     collection_datas |-> Listed,
     current_token_ownerships |->
        LastByKey({"token_data_id_hash", "property_version", "owner_address"}),
     current_token_datas |-> LastByKey({"token_data_id_hash"}),
     current_collection_datas |-> LastByKey({"collection_data_id_hash"}),
     token_activities |-> Listed,
     current_token_pending_claims |->
        LastByKey({"token_data_id_hash", "property_version", "from_address"}),
     nft_points |-> Listed]

TokenInsert == DOMAIN TokenRows

\* The current_deleted_... rows go to the tables of the live rows, in statements
\* of their own that set fewer columns.
TokenV2Queries ==
    [collections_v2 |-> Nothing(ByChange),
     token_datas_v2 |-> Always(ByChange),
     token_ownerships_v2 |-> Always(ByChange),
     current_collections_v2 |-> Latest({"collection_id"}),
     current_token_datas_v2 |-> Latest({"token_data_id"}),
     current_deleted_token_datas_v2 |-> Latest({"token_data_id"}),
     current_token_ownerships_v2 |->
        Latest({"token_data_id", "property_version_v1", "owner_address",
                "storage_id"}),
     current_deleted_token_ownerships_v2 |->
        Latest({"token_data_id", "property_version_v1", "owner_address",
                "storage_id"}),
     token_activities_v2 |-> Always(ByEvent),
     current_token_v2_metadata |-> Latest({"object_address", "resource_type"})]

TokenV2Rows ==
    [collections_v2 |-> Listed,
     token_datas_v2 |-> Listed,
     token_ownerships_v2 |-> Listed,
     current_collections_v2 |-> LastByKey({"collection_id"}),
     current_token_datas_v2 |-> LastByKey({"token_data_id"}),
     current_deleted_token_datas_v2 |-> LastByKey({"token_data_id"}),
     current_token_ownerships_v2 |->
        LastByKey({"token_data_id", "property_version_v1", "owner_address",
                   "storage_id"}),
     current_deleted_token_ownerships_v2 |->
        LastByKey({"token_data_id", "property_version_v1", "owner_address",
                   "storage_id"}),
     token_activities_v2 |-> Listed,
     current_token_v2_metadata |-> LastByKey({"object_address", "resource_type"})]

TokenV2Insert == DOMAIN TokenV2Rows

TransactionMetadataQueries ==
    [transaction_size_info |-> Nothing({"transaction_version"}),
     event_size_info |-> Nothing({"transaction_version", "index"}),
     write_set_size_info |-> Nothing({"transaction_version", "index"})]

TransactionMetadataRows ==
    [transaction_size_info |-> Listed,
     event_size_info |-> Listed,
     write_set_size_info |-> Listed]

TransactionMetadataInsert == DOMAIN TransactionMetadataRows

UserTransactionQueries ==
    [user_transactions |-> Always({"version"}),
     signatures |->
        Nothing({"transaction_version", "multi_agent_index", "multi_sig_index",
                 "is_sender_primary"})]

UserTransactionRows == [user_transactions |-> Listed, signatures |-> Listed]

UserTransactionInsert == DOMAIN UserTransactionRows

-----------------------------------------------------------------------------
(* The catalogue *)

Queries ==
    AccountTransactionsQueries @@ AnsQueries @@ CoinQueries @@ DefaultQueries
    @@ EventsQueries @@ FungibleAssetQueries @@ ObjectsQueries @@ StakeQueries
    @@ TokenQueries @@ TokenV2Queries @@ TransactionMetadataQueries
    @@ UserTransactionQueries

Rows ==
    AccountTransactionsRows @@ AnsRows @@ CoinRows @@ DefaultRows
    @@ EventsRows @@ FungibleAssetRows @@ ObjectsRows @@ StakeRows
    @@ TokenRows @@ TokenV2Rows @@ TransactionMetadataRows
    @@ UserTransactionRows

AllTables ==
    AccountTransactionsInsert \cup AnsInsert \cup CoinInsert \cup DefaultInsert
    \cup EventsInsert \cup FungibleAssetInsert \cup ObjectsInsert
    \cup StakeInsert \cup TokenInsert \cup TokenV2Insert
    \cup TransactionMetadataInsert \cup UserTransactionInsert

\* Every row that is collected is sent with a query of its own, and no other.
ASSUME CatalogueComplete ==
    AllTables = DOMAIN Queries /\ AllTables = DOMAIN Rows

VersionColumns == {"transaction_version", "version"}

\* The key of the batch's map is the primary key.  That of the delegator balances
\* has one column less: a batch sends one of the rows that differ in it only.
MapColumns(name) ==
    IF name = "current_delegator_balances" THEN Queries[name].pk \ {"table_handle"}
    ELSE Queries[name].pk

\* What tells apart two rows of a batch that agree in every key column but c.
KindOf(name, c) ==
    LET pk == Queries[name].pk
        r == Rows[name]
    IN  [guard |-> Queries[name].guard,
         keep |-> r.keep,
         ordered |-> r.keep = "all" \/ {c} \cup (pk \cap VersionColumns) \subseteq r.sort,
         append |-> pk \cap VersionColumns # {}]

KeyColumns(name) ==
    LET key == MapColumns(name)
    IN  IF key \subseteq VersionColumns THEN key ELSE key \ VersionColumns

KindsOf(names) == UNION {{KindOf(n, c) : c \in KeyColumns(n)} : n \in names}
=============================================================================
