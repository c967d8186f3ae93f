------------------------------- MODULE Coins --------------------------------
(***************************************************************************)
(* The coin processor and the fungible asset processor                     *)
(* (processors/coin_processor.rs, processors/fungible_asset_processor.rs,  *)
(* models/coin_models and models/fungible_asset_models).  A coin of the    *)
(* first standard is in a CoinStore of the account; an asset of the second *)
(* in a store that is an object.  An event of a CoinStore names no coin:   *)
(* the guid of its handle leads to the store.                              *)
(*                                                                         *)
(* A CoinInfo is [coin, creator, name], a CoinStore [coin, amount, frozen, *)
(* withdraw, deposit], the last two the numbers of its event handles; a    *)
(* coin event is [guid, amount], and a FungibleStore [asset, amount,       *)
(* frozen].                                                                *)
(***************************************************************************)
EXTENDS UserTransactions

CoinInfo == "0x1::coin::CoinInfo"
CoinStore == "0x1::coin::CoinStore"
CoinEvents == {"0x1::coin::WithdrawEvent", "0x1::coin::DepositEvent"}

APTOS_COIN_TYPE_STR == "0x1::aptos_coin::AptosCoin"
APTOS_COIN_SUPPLY == [handle |-> "h_supply", key |-> "k_supply"]
AggregatorType == "address/u128"
FeeStatement == "0x1::transaction_fee::FeeStatement"

EventGuidResource(address, number) == [addr |-> address, creation_num |-> number]

event_guid(e) == EventGuidResource(e.address, e.data.guid)

-----------------------------------------------------------------------------
(* Coins *)

\* The store's two handles lead to its coin.
event_to_coin_mapping(c) ==
    (EventGuidResource(c.address, c.data.withdraw) :> c.data.coin)
    @@ (EventGuidResource(c.address, c.data.deposit) :> c.data.coin)

CoinStoresIn(changes) == SelectSeq(changes, LAMBDA c : WritesResource(c, CoinStore))

all_event_to_coin_type(stores) ==
    FoldLeft(LAMBDA map, c : event_to_coin_mapping(c) @@ map, NoMap, stores)

\* The hash in a key stands for the coin type.
CoinInfoRow(c, v) ==
    Row("coin_infos", [coin_type_hash |-> c.data.coin], v, [name |-> c.data.name])

CoinBalanceRows(c, v) ==
    LET key == [owner_address |-> c.address, coin_type_hash |-> c.data.coin]
        cols == [amount |-> c.data.amount]
    IN  <<Row("coin_balances", key @@ [transaction_version |-> v], v, cols),
          Row("current_coin_balances", key, v, cols)>>

\* Aptos coins only, found by the handle and the key of their aggregator.
coin_supply_from_write_table_item(c, v) ==
    Optional(/\ WritesItem(c, AggregatorType)
             /\ c.handle = APTOS_COIN_SUPPLY.handle /\ c.key = APTOS_COIN_SUPPLY.key,
        <<Row("coin_supply",
              [transaction_version |-> v, coin_type_hash |-> APTOS_COIN_TYPE_STR], v,
              [supply |-> c.data])>>)

\* A handle numbers its events.
CoinEventKey(txn, v, i) ==
    LET e == txn.events[i]
        Earlier == {j \in 1 .. i - 1 : txn.events[j].type \in CoinEvents
                                       /\ event_guid(txn.events[j]) = event_guid(e)}
    IN  [transaction_version |-> v, event_account_address |-> e.address,
         event_creation_number |-> e.data.guid,
         event_sequence_number |-> Cardinality(Earlier)]

\* An event whose store is not among the changes is a panic.
coin_from_parsed_event(acc, txn, v, i, coin_of) ==
    LET e == txn.events[i]
    IN  IF e.type \notin CoinEvents THEN acc
        ELSE IF event_guid(e) \notin DOMAIN coin_of THEN [acc EXCEPT !.panicked = TRUE]
        ELSE Push(acc, <<Row("coin_activities", CoinEventKey(txn, v, i), v,
                             [owner |-> e.address, coin |-> coin_of[event_guid(e)],
                              amount |-> e.data.amount, type |-> e.type])>>)

\* Within a transaction the last info of a coin counts, within a batch the first.
CoinParse(acc, txn, v) ==
    LET coin_of == all_event_to_coin_type(CoinStoresIn(txn.changes))
        infos == LastPerKey(Emit(txn.changes, LAMBDA i :
                    Optional(WritesResource(txn.changes[i], CoinInfo),
                             <<CoinInfoRow(txn.changes[i], v)>>)))
        rest == Emit(txn.changes, LAMBDA i :
                    Optional(WritesResource(txn.changes[i], CoinStore),
                             CoinBalanceRows(txn.changes[i], v))
                    \o coin_supply_from_write_table_item(txn.changes[i], v))
    IN  IF txn.kind \notin {"user", "genesis"} THEN acc
        ELSE Over(txn.events,
                  LAMBDA a, i : coin_from_parsed_event(a, txn, v, i, coin_of),
                  Push(acc, infos \o rest))

-----------------------------------------------------------------------------
(* Fungible assets *)

FungibleMetadata == "0x1::fungible_asset::Metadata"
FungibleStore == "0x1::fungible_asset::FungibleStore"
FungibleSupply == "0x1::fungible_asset::Supply"
AmountEvents == {"0x1::fungible_asset::WithdrawEvent", "0x1::fungible_asset::DepositEvent"}
FrozenEvent == "0x1::fungible_asset::FrozenEvent"

\* get_coin_type_below_max: coins whose type is too long are left out.
LongTypes == {"long::coin::Type"}

BelowMax(c) == c.data.coin \notin LongTypes

\* Hashes: of owner and coin type, and of owner, asset and a byte of its own.
get_storage_id(coin, owner) == "0x" \o ToString(<<owner, coin>>)

PrimaryStore(owner, asset) == ToString(<<owner, asset, "0xFC">>)

is_primary(owner, asset, store) == store = PrimaryStore(owner, asset)

\* A written core replaces all that was known of the object; optional resources
\* are sequences of at most one.
fungible_first_pass(helper, changes) ==
    Extended(helper, changes, LAMBDA c : WritesResource(c, ObjectCore),
             LAMBDA c : c.address,
             LAMBDA c : [owner |-> c.data.owner, store |-> <<>>, supply |-> <<>>])

fungible_second_pass(helper, changes) ==
    FoldLeft(LAMBDA h, c :
        CASE WritesResource(c, FungibleStore) /\ c.address \in DOMAIN h ->
                [h EXCEPT ![c.address].store = <<c.data>>]
          [] WritesResource(c, FungibleSupply) /\ c.address \in DOMAIN h ->
                [h EXCEPT ![c.address].supply = <<c.data>>]
          [] OTHER -> h, helper, changes)

FungibleBalanceRows(v, i, store, cols) ==
    <<Row("fungible_asset_balances", ChangeKey(v, i), v, cols @@ [storage_id |-> store]),
      Row("current_fungible_asset_balances", [storage_id |-> store], v, cols)>>

balance_v1_from_write_resource(c, v, i) ==
    Optional(WritesResource(c, CoinStore) /\ BelowMax(c),
        FungibleBalanceRows(v, i, get_storage_id(c.data.coin, c.address),
            [owner |-> c.address, asset |-> c.data.coin, amount |-> c.data.amount,
             is_primary |-> TRUE, is_frozen |-> c.data.frozen]))

balance_v2_from_write_resource(c, v, i, helper) ==
    LET owner == helper[c.address].owner
    IN  Optional(WritesResource(c, FungibleStore) /\ c.address \in DOMAIN helper,
            FungibleBalanceRows(v, i, c.address,
                [owner |-> owner, asset |-> c.data.asset, amount |-> c.data.amount,
                 is_primary |-> is_primary(owner, c.data.asset, c.address),
                 is_frozen |-> c.data.frozen]))

metadata_v1_from_write_resource(c, v) ==
    Optional(WritesResource(c, CoinInfo) /\ BelowMax(c),
        <<Row("fungible_asset_metadata", [asset_type |-> c.data.coin], v,
              [creator |-> c.data.creator, name |-> c.data.name, supply |-> <<>>])>>)

metadata_v2_from_write_resource(c, v, helper) ==
    Optional(WritesResource(c, FungibleMetadata) /\ c.address \in DOMAIN helper,
        <<Row("fungible_asset_metadata", [asset_type |-> c.address], v,
              [creator |-> helper[c.address].owner, name |-> c.data.name,
               supply |-> helper[c.address].supply])>>)

\* An event without a store is skipped.
activity_v1_from_event(e, v, i, coin_of) ==
    Optional(e.type \in CoinEvents /\ event_guid(e) \in DOMAIN coin_of,
        <<Row("fungible_asset_activities", EventIndexKey(v, i), v,
              [owner |-> e.address, type |-> e.type, amount |-> <<e.data.amount>>,
               storage_id |-> get_storage_id(coin_of[event_guid(e)], e.address),
               payer |-> None, refund |-> 0])>>)

\* An event of an unknown object is skipped; that of an object which is not
\* known to be a store is a panic.
activity_v2_from_event(acc, e, v, i, helper) ==
    IF e.type \notin AmountEvents \cup {FrozenEvent} \/ e.address \notin DOMAIN helper
    THEN acc
    ELSE IF helper[e.address].store = <<>> THEN [acc EXCEPT !.panicked = TRUE]
    ELSE Push(acc, <<Row("fungible_asset_activities", EventIndexKey(v, i), v,
                [owner |-> helper[e.address].owner, type |-> e.type,
                 amount |-> IF e.type = FrozenEvent THEN <<>> ELSE <<e.data.amount>>,
                 storage_id |-> e.address, payer |-> None, refund |-> 0])>>)

BURN_GAS_EVENT_INDEX == -1

get_fee_payer_address(s) == IF s.type = "fee_payer" THEN s.payer ELSE None

\* What the first FeeStatement says is given back.
storage_refund_amount(events) ==
    LET statements == SelectSeq(events, LAMBDA e : e.type = FeeStatement)
    IN  IF statements = <<>> THEN 0 ELSE Head(statements).data

\* "Artificially creates a gas event", for the sender whoever pays; a user
\* transaction without a signature is a panic.
get_gas_event(acc, txn, v) ==
    IF txn.signature.type = None THEN [acc EXCEPT !.panicked = TRUE]
    ELSE Push(acc, <<Row("fungible_asset_activities",
            [transaction_version |-> v, event_index |-> BURN_GAS_EVENT_INDEX], v,
            [owner |-> txn.sender, type |-> "GasFeeEvent", amount |-> <<txn.gas>>,
             storage_id |-> get_storage_id(APTOS_COIN_TYPE_STR, txn.sender),
             payer |-> get_fee_payer_address(txn.signature),
             refund |-> storage_refund_amount(txn.events)])>>)

\* The memo is the map of objects, kept for the whole batch.
parse_v2_coin(acc, txn, v) ==
    LET helper == fungible_second_pass(fungible_first_pass(acc.memo, txn.changes),
                                       txn.changes)
        coin_of == all_event_to_coin_type(SelectSeq(CoinStoresIn(txn.changes), BelowMax))
        events == IF txn.kind \in {"user", "genesis", "block_metadata"}
                  THEN txn.events ELSE <<>>
        v1 == Push([acc EXCEPT !.memo = helper],
                   Emit(txn.changes, LAMBDA i :
                       balance_v1_from_write_resource(txn.changes[i], v, i)))
        gas == IF txn.kind = "user" THEN get_gas_event(v1, txn, v) ELSE v1
        active == Over(events, LAMBDA a, i :
                      activity_v2_from_event(
                          Push(a, activity_v1_from_event(events[i], v, i, coin_of)),
                          events[i], v, i, helper), gas)
    IN  IF txn.kind = None THEN acc
        ELSE Push(active, Emit(txn.changes, LAMBDA i :
                     metadata_v1_from_write_resource(txn.changes[i], v)
                     \o metadata_v2_from_write_resource(txn.changes[i], v, helper)
                     \o balance_v2_from_write_resource(txn.changes[i], v, i, helper)))
=============================================================================
