------------------------------- MODULE Ledger -------------------------------
(***************************************************************************)
(* What the tables are for.  The current tables say what the state of the  *)
(* chain says; the other tables say of each version what a process would   *)
(* store that took the transactions one by one.                            *)
(***************************************************************************)
EXTENDS Processing

-----------------------------------------------------------------------------
(* One by one *)

\* The statements of deleted tokens after those of live ones.
AllWritten(tables, rows) ==
    LET statements == {rows[i].table : i \in DOMAIN rows}
        live == {s \in statements : TableOf(s) = s}
    IN  ExecutedAll(ExecutedAll(tables, rows, live), rows, statements \ live)

AfterTransaction(processor, tables, txn, v) ==
    AllWritten(tables,
               Collected(Parse(processor, Batch(Memo(processor, <<txn>>)), txn, v,
                               tables).rows))

OneByOne(processor, names) ==
    FoldLeftDomain(LAMBDA tables, v :
                       AfterTransaction(processor, tables, Templates[processor][names[v]], v),
                   [t \in TablesOf(processor) |-> NoMap], names)

Expected == [s \in Setups |-> OneByOne(s.processor, s.chain)]

\* Tables with one row per version and place.
HistoryTables ==
    {t \in DOMAIN db : Queries[t].pk \cap VersionColumns # {}}

AllChanges == Changes([v \in DOMAIN chain |-> TxnAt(v)])

\* Where the changes that Is selects are.
At(Is(_)) == {i \in DOMAIN AllChanges : Is(AllChanges[i])}

\* The object at the address is deleted, now or later.
Removed(address) == At(LAMBDA c : DeletesResource(c, ObjectGroup) /\ c.address = address) # {}

\* What does not depend on how the versions were divided into batches.  That is
\* not so for the events made up for multisig accounts, for the history of
\* objects that are written to without their core, for the activity of a burn,
\* which is described by its object when that is in the batch, for a burn that is
\* processed again (the table may have no owner left to look up), and for what
\* leaves a store that is deleted, which is known if the store is in the batch.
\* The current row of a token that is burnt says more if the owner is looked up.
Comparable(t, row) ==
    CASE t = "events" -> row.cols.type # MultisigAccount
      [] t = "objects" -> row.cols.is_deleted
      [] t = "token_activities_v2" -> row.cols.type \notin {Burn, BurnEvent}
      [] t = "token_ownerships_v2" ->
            kills = 0 \/ row.cols.owner_address # DEFAULT_OWNER_ADDRESS
      [] t = "fungible_asset_activities" -> ~Removed(row.cols.storage_id)
      [] t = "current_token_ownerships_v2" -> row.cols.amount > 0
      [] OTHER -> TRUE

\* What a lookup finds depends on the statements of other tasks.
Lookups ==
    {"objects_processor", "stake_processor", "token_processor", "token_v2_processor"}

\* The tables that keep the row of the first version, of which a batch may have
\* sent a later one.
KeptFirst == {"table_metadatas", "delegated_staking_pools"}

Undisturbed == Processor \notin Lookups \/ Cardinality(setup.tasks) = 1

-----------------------------------------------------------------------------
(* The state of the chain *)

LastOf(at) == AllChanges[CHOOSE i \in at : \A j \in at : j <= i]

Deleted(at) == LastOf(at).change \in {"DeleteResource", "DeleteTableItem"}

IsItem(c) == c.change \in {"WriteTableItem", "DeleteTableItem"}

\* The items of tables that Is selects, as pairs of handle and key.
Items(Is(_)) ==
    {<<AllChanges[i].handle, AllChanges[i].key>> : i \in At(LAMBDA c : IsItem(c) /\ Is(c))}

ItemChanges(item) ==
    At(LAMBDA c : IsItem(c) /\ c.handle = item[1] /\ c.key = item[2])

\* The amount of an item: zero when it is deleted.
Amount(item, Of(_)) ==
    IF Deleted(ItemChanges(item)) THEN 0 ELSE Of(LastOf(ItemChanges(item)).data)

ObjectChanges(address) ==
    At(LAMBDA c : /\ WritesResource(c, ObjectCore) \/ DeletesResource(c, ObjectGroup)
                  /\ c.address = address)

\* What was written last.
Written(type, a) == LastOf(At(LAMBDA c : WritesResource(c, type) /\ c.address = a)).data

AddressesOf(type) == {AllChanges[i].address : i \in At(LAMBDA c : WritesResource(c, type))}

ObjectsAgree ==
    \A a \in AddressesOf(ObjectCore) :
        LET key == [object_address |-> a]
            row == db.current_objects[key]
        IN  /\ key \in DOMAIN db.current_objects
            /\ row.cols.is_deleted = Deleted(ObjectChanges(a))
            /\ ~row.cols.is_deleted => row.cols.owner = LastOf(ObjectChanges(a)).data.owner

\* A delegator's shares in each table of shares.
SharesAgree ==
    \A item \in Items(LAMBDA c : c.type = Share) :
        LET rows == db.current_delegator_balances
        IN  \E k \in DOMAIN rows :
                /\ k.table_handle = item[1] /\ k.delegator_address = item[2]
                /\ rows[k].cols.shares = Amount(item, LAMBDA d : d)

\* A delegator votes for whom they chose last, if they chose.
VotersAgree ==
    LET rows == db.current_delegated_voter
        Chosen(d) == At(LAMBDA c : /\ WritesItem(c, VoteDelegation)
                                   /\ \E n \in DOMAIN c.data : c.data[n].delegator = d)
    IN  \A k \in DOMAIN rows :
            LET d == k.delegator_address
            IN  IF Chosen(d) = {} THEN rows[k].cols.voter = d
                ELSE \E n \in DOMAIN LastOf(Chosen(d)).data :
                        LastOf(Chosen(d)).data[n]
                            = [delegator |-> d, voter |-> rows[k].cols.voter]

StoreOwner(handle) ==
    LastOf(At(LAMBDA c : /\ c.change = "WriteResource"
                         /\ c.type \in {TokenStore, PendingClaims}
                         /\ c.data = handle)).address

IsOffer(c) == "to" \in DOMAIN c.key

\* Each account's amount of each token of the first standard, and each offer.
TokensAgree ==
    LET owned == db.current_token_ownerships
        offers == db.current_token_pending_claims
    IN  /\ \A item \in Items(LAMBDA c : c.type \in {TokenType, TokenIdType} /\ ~IsOffer(c)) :
              LET key == TokenKey(item[2]) @@ [owner_address |-> StoreOwner(item[1])]
              IN  /\ key \in DOMAIN owned
                  /\ owned[key].cols.amount = Amount(item, LAMBDA d : d.amount)
        /\ \A item \in Items(LAMBDA c : c.type \in {TokenType, TokenOfferIdType}
                                        /\ IsOffer(c)) :
              LET key == TokenKey(item[2]) @@ [from_address |-> StoreOwner(item[1]),
                                               to_address |-> item[2].to]
              IN  /\ key \in DOMAIN offers
                  /\ offers[key].cols.amount = Amount(item, LAMBDA d : d.amount)

\* A token that is an object has its owner, and nobody once it is burnt.
OwnersAgree ==
    LET rows == db.current_token_ownerships_v2
        datas == db.current_token_datas_v2
        Burnt(a) == \E v \in DOMAIN chain : a \in DOMAIN tokens_burned(TxnAt(v).events)
        Owners(a) == {k.owner_address : k \in
                        {l \in DOMAIN rows : l.token_data_id = a /\ rows[l].cols.amount > 0}}
    IN  \A a \in AddressesOf(TokenResource) :
            /\ Owners(a) = IF Burnt(a) THEN {} ELSE {LastOf(ObjectChanges(a)).data.owner}
            /\ datas[[token_data_id |-> a]].cols.is_deleted = <<Burnt(a)>>

\* Where the writes of an account's store of a coin are.
CoinChanges(address, coin) ==
    At(LAMBDA c : /\ WritesResource(c, CoinStore)
                  /\ c.address = address /\ c.data.coin = coin)

\* The accounts' stores of coins, as pairs of address and coin.
CoinStores(Indexed(_)) ==
    {<<AllChanges[i].address, AllChanges[i].data.coin>> :
        i \in At(LAMBDA c : WritesResource(c, CoinStore) /\ Indexed(c))}

\* Each account's amount of each coin, and the name a coin had first.
CoinsAgree ==
    LET rows == db.current_coin_balances
        Infos(coin) == At(LAMBDA c : WritesResource(c, CoinInfo) /\ c.data.coin = coin)
        FirstOf(at) == AllChanges[CHOOSE i \in at : \A j \in at : i <= j]
    IN  /\ \A s \in CoinStores(LAMBDA c : TRUE) :
              LET key == [owner_address |-> s[1], coin_type_hash |-> s[2]]
              IN  key \in DOMAIN rows
                  /\ rows[key].cols.amount = LastOf(CoinChanges(s[1], s[2])).data.amount
        /\ \A k \in DOMAIN db.coin_infos :
              db.coin_infos[k].cols.name = FirstOf(Infos(k.coin_type_hash)).data.name

\* What is in each store of a coin or of an asset and whose it is, and how much
\* there is of an asset.  The row of a store that is deleted stays.
BalancesAgree ==
    LET rows == db.current_fungible_asset_balances
    IN  /\ \A s \in CoinStores(BelowMax) :
              LET key == [storage_id |-> get_storage_id(s[2], s[1])]
              IN  /\ key \in DOMAIN rows
                  /\ rows[key].cols.owner = s[1]
                  /\ rows[key].cols.amount = LastOf(CoinChanges(s[1], s[2])).data.amount
        /\ \A a \in {b \in AddressesOf(FungibleStore) : ~Removed(b)} :
              LET row == rows[[storage_id |-> a]]
              IN  /\ [storage_id |-> a] \in DOMAIN rows
                  /\ row.cols.owner = Written(ObjectCore, a).owner
                  /\ row.cols.amount = Written(FungibleStore, a).amount
                  /\ row.cols.is_frozen = Written(FungibleStore, a).frozen
        /\ \A a \in AddressesOf(FungibleSupply) :
              db.fungible_asset_metadata[[asset_type |-> a]].cols.supply
                  = <<Written(FungibleSupply, a)>>

\* The items of all tables have the values that were written last.
ItemsAgree ==
    LET rows == db.current_table_items
    IN  \A item \in Items(LAMBDA c : TRUE) :
            LET key == [table_handle |-> standardize_address(item[1]), key_hash |-> item[2]]
                last == ItemChanges(item)
            IN  /\ key \in DOMAIN rows
                /\ rows[key].cols.is_deleted = Deleted(last)
                /\ ~Deleted(last) => rows[key].cols.value = <<LastOf(last).data>>

\* The names of the first contract, in the tables of both.
NamesV1Agree(handle, table, KeyOf(_), Said(_)) ==
    \A item \in Items(LAMBDA c : c.handle = handle) :
        LET last == ItemChanges(item)
            key == KeyOf(item[2])
            Agrees(row) == /\ row.cols.is_deleted = Deleted(last)
                           /\ ~Deleted(last) => Said(row.cols) = LastOf(last).data
        IN  /\ Agrees(db[table][key])
            /\ Agrees(db[table \o "_v2"][Standard(key, "v1")])

\* The name that the resources of the second contract at an address make.
NameAt(a) ==
    [domain |-> Written(NameRecordV2, a).domain,
     subdomain |-> IF a \in AddressesOf(SubdomainExt) THEN Written(SubdomainExt, a).name ELSE ""]

\* A name points where its record says, and an account has the primary name that
\* the first contract's table says and the one that the second's last event says.
NamesAgree ==
    LET AllEvents == FlattenSeq([v \in DOMAIN chain |-> TxnAt(v).events])
        Settings == {i \in DOMAIN AllEvents : AllEvents[i].type = SetReverseLookupEvent}
        IsLast(i) == \A j \in Settings :
                        AllEvents[j].data.account = AllEvents[i].data.account => j <= i
        PrimaryRow(account) ==
            db.current_ans_primary_name_v2[Standard([registered_address |-> account], "v2")]
    IN  /\ NamesV1Agree(NameRecords, "current_ans_lookup", LAMBDA k : k, LAMBDA c : c.record)
        /\ NamesV1Agree(PrimaryNames, "current_ans_primary_name",
                        LAMBDA k : [registered_address |-> k], LAMBDA c : c.name)
        /\ \A a \in AddressesOf(NameRecordV2) :
              db.current_ans_lookup_v2[Standard(NameAt(a), "v2")].cols.record
                  = Written(NameRecordV2, a).record
        /\ \A i \in {j \in Settings : IsLast(j)} :
              LET said == AllEvents[i].data
                  cols == PrimaryRow(said.account).cols
              IN  IF said.name.domain = "" THEN cols.is_deleted ELSE cols.name = said.name

-----------------------------------------------------------------------------
(* Properties *)

\* The process's own state, and rows that have a value for each column of the
\* primary key of the table they are for.
TypeOK ==
    /\ DOMAIN db = TablesOf(Processor)
    /\ \A t \in DOMAIN db : \A k \in DOMAIN db[t] :
          /\ DOMAIN k = Queries[t].pk
          /\ db[t][k].v \in DOMAIN chain
    /\ DOMAIN task = setup.tasks
    /\ \A t \in setup.tasks : task[t].pc \in {"idle", "parsing", "writing"}
    /\ next_version \in 1 .. Len(chain) + 1
    /\ done \subseteq 1 .. next_version - 1
    /\ kills \in 0 .. MaxKills

\* insert_to_db sends no statement that lists a key twice and updates on
\* conflict: the database would refuse it every time and the process could not
\* get past the batch.  Not so for events.
ListedOnce ==
    Processor # "events_processor" =>
        \A t \in setup.tasks :
            task[t].pc = "writing" =>
                \A s \in UNION task[t].todo : ~Refused(task[t].rows, s)

\* No transaction makes process_transactions panic, as long as what it looks up
\* in the tables was written before.
NeverPanics ==
    Undisturbed =>
        \A t \in setup.tasks :
            task[t].pc = "parsing" /\ task[t].at <= task[t].last => ~Parsed(t).panicked

\* A row of a history table is the one that the transactions one by one would
\* have put there: batches, retries and restarts invent nothing.
HistoryIsTrue ==
    Undisturbed =>
        \A t \in HistoryTables : \A k \in DOMAIN db[t] :
            LET rows == Expected[setup][t]
            IN  Comparable(t, db[t][k]) => k \in DOMAIN rows /\ db[t][k] = rows[k]

\* All the rows of a version that was reported as processed are in the tables.
NothingLost ==
    Undisturbed =>
        \A t \in HistoryTables :
            LET rows == Expected[setup][t]
            IN  \A k \in DOMAIN rows :
                    rows[k].v \in done /\ Comparable(t, rows[k]) => k \in DOMAIN db[t]

\* When every version is processed, the tables are those of a process that took
\* the transactions one by one: in whatever order the statements of the batches
\* were executed, and however often, it makes no difference in the end.
TablesConverge ==
    Settled /\ Undisturbed =>
        \A t \in DOMAIN db \ KeptFirst :
            LET rows == Expected[setup][t]
            IN  /\ \A k \in DOMAIN db[t] : Comparable(t, db[t][k]) =>
                      k \in DOMAIN rows /\ db[t][k] = rows[k]
                /\ \A k \in DOMAIN rows : Comparable(t, rows[k]) => k \in DOMAIN db[t]

\* When every version is processed, the current tables have the owners, shares,
\* voters, amounts, offers, balances, names and items that the chain has.
LedgerAgrees ==
    Settled /\ Undisturbed =>
        CASE Processor = "objects_processor" -> ObjectsAgree
          [] Processor = "stake_processor" -> SharesAgree /\ VotersAgree
          [] Processor = "coin_processor" -> CoinsAgree
          [] Processor = "fungible_asset_processor" -> BalancesAgree
          [] Processor = "ans_processor" -> NamesAgree
          [] Processor = "default_processor" -> ItemsAgree
          [] Processor = "token_processor" -> TokensAgree
          [] Processor = "token_v2_processor" -> OwnersAgree
          [] OTHER -> TRUE

\* The process gets past every version: no lookup is waited for without end, no
\* batch is refused or panics each time it is taken, and a process that is
\* started again finishes what the killed one began.  Not so for events.
Progress ==
    (Undisturbed /\ Processor # "events_processor") ~> Settled

-----------------------------------------------------------------------------
(* What the code or its comments say, and is not so *)

\* "#[diesel(primary_key(transaction_version, event_index))]": no two events of a
\* batch have the same version and index.
EventKeysDistinct ==
    \A t \in setup.tasks :
        task[t].pc = "writing" => ~Refused(task[t].rows, "events")

\* "Setting amount to 0 if table item is deleted": when every version is
\* processed, the row of a share that the chain deleted says zero.
DeletedSharesAreZero ==
    Settled =>
        \A item \in Items(LAMBDA c : c.type = Share) :
            LET rows == db.current_delegator_balances
            IN  Deleted(ItemChanges(item)) =>
                    \A k \in DOMAIN rows :
                        k.table_handle = item[1] /\ k.delegator_address = item[2]
                            => rows[k].cols.shares = 0

\* "This will loop forever until we get the object from the db": process_
\* transactions does not go past a deletion whose object it has not found.
WaitsForObject ==
    [][\A t \in setup.tasks : ParseTransaction(t) => ~Parsed(t).missed]_vars
=============================================================================
