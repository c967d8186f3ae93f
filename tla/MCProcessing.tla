---------------------------- MODULE MCProcessing ----------------------------
(***************************************************************************)
(* Transactions and chains for Ledger.  A template is a transaction of the *)
(* kind its name says; a chain is a history in which the transactions can  *)
(* happen in this order.                                                   *)
(***************************************************************************)
EXTENDS Ledger

NoSignature == [type |-> None]

User(events, changes) ==
    Txn("user", events, changes)
    @@ [sender |-> "alice", entry_function |-> "f", success |-> TRUE,
        gas |-> 1, signature |-> NoSignature]

Block(events, changes) == Txn("block_metadata", events, changes)

-----------------------------------------------------------------------------
Core(address, owner) ==
    WriteResource(ObjectCore, address, [owner |-> owner, allow_ungated_transfer |-> TRUE])

ObjectTxns ==
    [create |-> User(<<>>, <<Core("o1", "alice"), Core("o2", "alice")>>),
     transfer |-> User(<<>>, <<Core("o1", "bob")>>),
     touch |-> User(<<>>, <<WriteResource("0x9::m::R", "o1", "x")>>),
     delete |-> Block(<<>>, <<Core("o2", "carol"), DeleteResource(ObjectGroup, "o1"),
                              DeleteTableItem("T", "h", "k")>>)]

ObjectChains ==
    {<<"create", "transfer", "delete">>, <<"create", "touch", "transfer", "delete">>,
     <<"create", "delete">>}

-----------------------------------------------------------------------------
ThePool == WriteResource(DelegationPool, "pool", [active |-> "h_active", inactive |-> "h_cycles"])

Cycle(n, handle) == WriteTableItem(Pool, "h_cycles", n, [shares |-> handle])

Votes(voter) ==
    WriteTableItem(VoteDelegation, "h_votes", "bucket",
                   <<[delegator |-> "dan", voter |-> voter]>>)

Staking(type, n) == Event(type, "pool", [delegator |-> "dan", pool |-> "pool", amount |-> n])

StakeTxns ==
    [add |-> User(<<Staking("AddStakeEvent", 9)>>,
                  <<ThePool, WriteResource(StakePool, "pool", [operator |-> "op"]),
                    WriteTableItem(Share, "h_active", "dan", 9)>>),
     govern |-> User(<<Event("VoteEvent", "0x1", [proposal_id |-> 1, voter |-> "vic"])>>,
                     <<WriteResource(GovernanceRecords, "pool", [handle |-> "h_votes"]),
                       Votes("vic")>>),
     delegate |-> User(<<>>, <<Votes("val")>>),
     unlock |-> User(<<Staking("UnlockStakeEvent", 9)>>,
                     <<ThePool, DeleteTableItem(Share, "h_active", "dan"), Cycle(1, "h_cycle1"),
                       WriteTableItem(Share, "h_cycle1", "dan", 9)>>),
     unlock_more |-> User(<<>>, <<ThePool, Cycle(1, "h_cycle1"),
                                  WriteTableItem(Share, "h_cycle1", "dan", 12)>>),
     unlock_item |-> User(<<>>, <<Cycle(1, "h_cycle1"),
                                  WriteTableItem(Share, "h_cycle1", "dan", 12)>>),
     withdraw |-> User(<<Staking("WithdrawStakeEvent", 9)>>,
                       <<ThePool, Cycle(1, "h_cycle1"),
                         DeleteTableItem(Share, "h_cycle1", "dan")>>),
     withdraw_item |-> User(<<>>, <<Cycle(1, "h_cycle1"),
                                    DeleteTableItem(Share, "h_cycle1", "dan")>>),
     roll |-> User(<<>>, <<ThePool, Cycle(1, "h_cycle1"), Cycle(2, "h_cycle2"),
                           DeleteTableItem(Share, "h_cycle1", "dan"),
                           WriteTableItem(Share, "h_cycle2", "dan", 3)>>),
     rewards |-> Block(<<Staking("DistributeRewardsEvent", 1)>>, <<ThePool>>)]

StakeChains ==
    {<<"add", "govern", "delegate">>, <<"add", "unlock", "withdraw">>,
     <<"govern", "add", "unlock">>, <<"add", "unlock", "unlock_more", "rewards">>}

-----------------------------------------------------------------------------
Calling(function, events, changes) ==
    [User(events, changes) EXCEPT !.entry_function = function]

Multisig == WriteResource(MultisigAccount, "multi", [owners |-> "alice"])

EventTxns ==
    [send |-> User(<<Event("Deposit", "bob", 1), Event("0x1::transaction_fee::FeeStatement", "0x0", 1)>>,
                   <<>>),
     create |-> Calling("0x1::multisig_account::create_with_owners",
                        <<Event("0x1::multisig_account::VoteEvent", "multi", 1)>>, <<Multisig>>),
     vote |-> Calling("0x1::multisig_account::approve_transaction",
                      <<Event("0x1::multisig_account::VoteEvent", "multi", 1)>>, <<Multisig>>),
     block |-> Block(<<Event("NewBlock", "0x1", 1)>>, <<>>)]

EventChains ==
    {<<"send", "create", "send">>, <<"block", "create", "create">>, <<"vote">>}

-----------------------------------------------------------------------------
Ed(key) == [type |-> "ed25519", signatures |-> <<"sig">>, public_keys |-> <<key>>]

MultiEd == [type |-> "multi_ed25519", signatures |-> <<"sig1", "sig2">>,
            public_keys |-> <<"k1", "k2", "k3">>, indices |-> <<0, 2>>]

SingleKey == [type |-> "single_key", signatures |-> <<"sig">>, public_keys |-> <<"k1">>,
              variant |-> [new |-> TRUE, type |-> "ed25519"]]

MultiKey == [type |-> "multi_key", signatures |-> <<"sig1", "sig2">>,
             public_keys |-> <<"k1", "k2", "k3">>, indices |-> <<0, 2>>,
             variant |-> [new |-> FALSE, type |-> "ed25519"]]

Signed(type, sender, addresses, secondary, changes) ==
    [User(<<Event("Deposit", "bob", 1)>>, changes) EXCEPT !.signature =
        [type |-> type, sender |-> sender, secondary_addresses |-> addresses,
         secondary |-> secondary, payer |-> "pat"]]

UserTxns ==
    [single |-> Signed("ed25519", Ed("k1"), <<>>, <<>>, <<Core("o1", "carol")>>),
     multi |-> Signed("multi_ed25519", MultiEd, <<>>, <<>>, <<>>),
     agents |-> Signed("multi_agent", Ed("k1"), <<"bob", "dan">>, <<Ed("k2"), MultiEd>>, <<>>),
     payer |-> Signed("fee_payer", MultiEd, <<"bob">>, <<SingleKey>>, <<>>),
     key |-> Signed("single_sender", SingleKey, <<>>, <<>>,
                    <<DeleteResource(ObjectGroup, "o1")>>),
     keys |-> Signed("single_sender", MultiKey, <<>>, <<>>, <<>>),
     unsigned |-> User(<<>>, <<Core("o1", "alice")>>),
     block |-> Block(<<Event("NewBlock", "0x1", 1)>>, <<Core("o1", "alice")>>)]

UserChains ==
    {<<"single", "agents", "block">>, <<"payer", "multi">>, <<"key", "keys", "unsigned">>}

-----------------------------------------------------------------------------
Paid(events, changes) == [Signed("ed25519", Ed("k1"), <<>>, <<>>, changes) EXCEPT !.events = events]

Long == "long::coin::Type"

Coin(owner, coin, n) ==
    WriteResource(CoinStore, owner, [coin |-> coin, amount |-> n, frozen |-> FALSE,
                                     withdraw |-> "w_" \o coin, deposit |-> "d_" \o coin])

Withdrawn(owner, coin, n) ==
    Event("0x1::coin::WithdrawEvent", owner, [guid |-> "w_" \o coin, amount |-> n])

Deposited(owner, coin, n) ==
    Event("0x1::coin::DepositEvent", owner, [guid |-> "d_" \o coin, amount |-> n])

MoonInfo(name) ==
    WriteResource(CoinInfo, "alice", [coin |-> "moon", creator |-> "alice", name |-> name])

CoinTxns ==
    [genesis |-> Txn("genesis", <<Deposited("alice", "apt", 9)>>,
                     <<Coin("alice", "apt", 9),
                       WriteTableItem(AggregatorType, "h_supply", "k_supply", 9),
                       WriteTableItem(AggregatorType, "h_other", "k_supply", 1)>>),
     issue |-> Paid(<<Deposited("alice", "moon", 3), Deposited("alice", Long, 1)>>,
                    <<MoonInfo("Moon"), Coin("alice", "moon", 3), Coin("alice", Long, 1)>>),
     upgrade |-> Paid(<<>>, <<MoonInfo("Moon 2")>>),
     send |-> Paid(<<Withdrawn("alice", "moon", 1), Deposited("bob", "moon", 1),
                     Withdrawn("alice", "moon", 1), Deposited("bob", "moon", 1),
                     Event(FeeStatement, "0x0", 2)>>,
                   <<Coin("alice", "moon", 1), Coin("alice", "apt", 8), Coin("bob", "moon", 2)>>),
     swap |-> [Signed("fee_payer", Ed("k1"), <<>>, <<>>,
                      <<Coin("alice", "moon", 0), Coin("bob", "moon", 3)>>) EXCEPT !.events =
                <<Withdrawn("alice", "moon", 1), Deposited("bob", "moon", 1)>>],
     block |-> Block(<<Event("NewBlock", "0x1", 1)>>, <<Coin("op", "apt", 1)>>)]

CoinChains == {<<"genesis", "issue", "send">>, <<"issue", "upgrade", "swap">>}

FungibleStoreOf(owner, n, frozen) ==
    LET store == PrimaryStore(owner, "gold")
    IN  <<WriteResource(FungibleStore, store, [asset |-> "gold", amount |-> n, frozen |-> frozen]),
          Core(store, owner)>>

Gold(supply) ==
    <<WriteResource(FungibleSupply, "gold", supply), Core("gold", "alice"),
      WriteResource(FungibleMetadata, "gold", [name |-> "Gold"])>>

InStore(type, owner, n) ==
    Event("0x1::fungible_asset::" \o type, PrimaryStore(owner, "gold"), [amount |-> n])

FungibleTxns ==
    CoinTxns @@
    [mint |-> Paid(<<InStore("DepositEvent", "alice", 5)>>,
                   Gold(5) \o FungibleStoreOf("alice", 5, FALSE)),
     move |-> Paid(<<InStore("WithdrawEvent", "alice", 2), InStore("DepositEvent", "bob", 2)>>,
                   FungibleStoreOf("bob", 2, FALSE) \o FungibleStoreOf("alice", 3, FALSE)),
     freeze |-> Paid(<<InStore("FrozenEvent", "alice", 0)>>,
                     FungibleStoreOf("alice", 3, TRUE) \o Gold(5)),
     close |-> Paid(<<InStore("WithdrawEvent", "bob", 2), InStore("DepositEvent", "alice", 2)>>,
                    <<DeleteResource(ObjectGroup, PrimaryStore("bob", "gold"))>>
                    \o FungibleStoreOf("alice", 5, FALSE)),
     convert |-> Paid(<<Withdrawn("alice", "moon", 1), InStore("DepositEvent", "alice", 1)>>,
                      <<Coin("alice", "moon", 2)>> \o FungibleStoreOf("alice", 1, FALSE) \o Gold(6))]

FungibleChains ==
    {<<"issue", "convert", "send">>, <<"mint", "move", "freeze">>, <<"genesis", "block", "upgrade">>,
     <<"issue", "swap">>, <<"mint", "move", "close">>}

-----------------------------------------------------------------------------
Name(domain, subdomain) == [domain |-> domain, subdomain |-> subdomain]

Pointing(address) == [address |-> address, expires |-> 7]

RecordV2(address, domain, target) ==
    WriteResource(NameRecordV2, address, [domain |-> domain, record |-> Pointing(target)])

Ext(address, subdomain) ==
    WriteResource(SubdomainExt, address, [name |-> subdomain, policy |-> 1])

Primary(account, name) ==
    Event(SetReverseLookupEvent, "ans", [account |-> account, name |-> name])

AnsTxns ==
    [register |-> User(<<>>,
                       <<WriteTableItem("NameRecordKeyV1", NameRecords, Name("cat", ""), Pointing("alice")),
                         WriteTableItem(AddressKey, PrimaryNames, "alice", Name("cat", ""))>>),
     release |-> User(<<>>, <<DeleteTableItem(AddressKey, PrimaryNames, "alice"),
                              DeleteTableItem("NameRecordKeyV1", NameRecords, Name("cat", ""))>>),
     migrate |-> User(<<Primary("alice", Name("cat", "")), Primary("bob", Name("cat", "my"))>>,
                      <<DeleteTableItem(AddressKey, PrimaryNames, "alice"),
                        RecordV2("n1", "cat", "alice"),
                        RecordV2("n2", "cat", "bob"), Ext("n2", "my")>>),
     unset |-> User(<<Primary("bob", Name("", "")), Event("v2_1_domains::RenewNameEvent", "ans", 1)>>,
                    <<RecordV2("n2", "cat", None), Ext("n2", "my"),
                      WriteTableItem(AddressKey, "h_other", "bob", Name("cat", ""))>>),
     again |-> User(<<Primary("bob", Name("", "")), Primary("bob", Name("cat", ""))>>,
                    <<RecordV2("n1", "cat", "bob")>>),
     block |-> Block(<<>>, <<WriteTableItem("T", "h", "k", 1)>>)]

AnsChains ==
    {<<"register", "release", "block">>, <<"register", "migrate", "unset">>,
     <<"migrate", "again", "register">>}

Sizes(transaction, events, ops) ==
    <<[transaction_bytes |-> transaction, events |-> events, write_ops |-> ops]>>

DefaultTxns ==
    [publish |-> User(<<Event("Publish", "alice", 1)>>,
                      <<WriteModule("alice", "m"), WriteResource("0x9::m::R", "alice", "x"),
                        WriteTableItem("T", "0x5", "k1", 1), WriteTableItem("T", "0x5", "k2", 1)>>)
                 @@ [size_info |-> Sizes(9, <<1>>, <<2, 3, 4, 5>>)],
     change |-> User(<<>>, <<WriteTableItem("T", "0x5", "k1", 2), DeleteTableItem("T", "0x5", "k2")>>)
                @@ [size_info |-> <<>>],
     restore |-> User(<<>>, <<DeleteModule("alice", "m"), DeleteResource("0x9::m::R", "alice"),
                              WriteTableItem("T", "0x5", "k2", 3), DeleteTableItem("T", "0x5", "k1")>>)
                 @@ [size_info |-> Sizes(3, <<>>, <<1, 1, 2, 1>>)],
     block |-> Block(<<Event("NewBlock", "0x1", 1)>>, <<WriteTableItem("T", "0x5", "k1", 4)>>)
               @@ [size_info |-> Sizes(2, <<1>>, <<2>>)],
     checkpoint |-> Txn("state_checkpoint", <<>>, <<>>) @@ [size_info |-> Sizes(1, <<>>, <<>>)],
     unknown |-> Txn(None, <<>>, <<>>) @@ [size_info |-> <<>>]]

DefaultChains ==
    {<<"publish", "change", "restore">>, <<"block", "publish", "checkpoint">>,
     <<"publish", "unknown", "block">>}

-----------------------------------------------------------------------------
TheToken == [creator |-> "alice", collection |-> "cats", name |-> "tom", property |-> 0]

Offer == TheToken @@ [to |-> "bob"]

Store(owner) == WriteResource(TokenStore, owner, owner)

Copies(n) == [amount |-> n, properties |-> "p"]

TokenTxns ==
    [create |-> Calling(nft_points_contract,
                    <<Event("0x3::token::MintTokenEvent", "alice", [id |-> TheToken, amount |-> 2]),
                      Event("0x3::token::DepositEvent", "alice", [id |-> TheToken, amount |-> 2])>>,
                    <<WriteResource(Collections, "alice", "h_cats"), Store("alice"),
                      WriteTableItem(CollectionDataType, "h_cats", "cats", 1),
                      WriteTableItem(TokenDataType, "h_tokens", TheToken, 2),
                      WriteTableItem(TokenType, "alice", TheToken, Copies(2))>>),
     send |-> User(<<Event("0x3::token::WithdrawEvent", "alice", [id |-> TheToken, amount |-> 2]),
                     Event("0x3::token::DepositEvent", "bob", [id |-> TheToken, amount |-> 2])>>,
                   <<DeleteTableItem(TokenIdType, "alice", TheToken),
                     Store("alice"), Store("bob"),
                     WriteTableItem(TokenType, "bob", TheToken, Copies(2))>>),
     offer |-> User(<<Event("0x3::token_transfers::TokenOfferEvent", "alice",
                            [id |-> Offer, amount |-> 1])>>,
                    <<WriteResource(PendingClaims, "alice", "h_claims"), Store("alice"),
                      WriteTableItem(TokenType, "h_claims", Offer, Copies(1)),
                      WriteTableItem(TokenType, "alice", TheToken, Copies(1))>>),
     claim |-> User(<<Event("0x3::token_transfers::TokenClaimEvent", "alice",
                            [id |-> Offer, amount |-> 1])>>,
                    <<WriteResource(PendingClaims, "alice", "h_claims"),
                      DeleteTableItem(TokenOfferIdType, "h_claims", Offer), Store("bob"),
                      WriteTableItem(TokenType, "bob", TheToken, Copies(1))>>),
     mutate |-> User(<<Event("0x3::token::MutateTokenPropertyMapEvent", "alice",
                             [id |-> TheToken, amount |-> 9])>>,
                     <<WriteTableItem(CollectionDataType, "h_cats", "cats", 5)>>),
     block |-> Block(<<>>, <<Store("alice")>>)]

-----------------------------------------------------------------------------
Nft(owner, name) ==
    <<WriteResource(TokenResource, "nft", [collection |-> "dogs", name |-> name]), Core("nft", owner),
      WriteResource(PropertyMapModel, "nft", "props"),
      WriteResource("0x9::m::Level", "nft", "level"),
      WriteResource("0x9::m::Wallet", "nft", "wallet")>>

Dogs(supply) ==
    <<Core("dogs", "alice"), WriteResource(CollectionResource, "dogs", "alice"),
      WriteResource(ConcurrentSupply, "dogs", [current |-> supply, max |-> U64_MAX])>>

Sent(from, to) == Event(TransferEvent, "nft", [object |-> "nft", from |-> from, to |-> to])

TokenV2Txns ==
    TokenTxns @@
    [mint |-> User(<<Event("0x4::collection::Mint", "dogs", [token |-> "nft"])>>,
                   Nft("alice", "rex") \o Dogs(1)),
     transfer |-> User(<<Sent("alice", "bob")>>, Nft("bob", "rex")),
     sell |-> User(<<Sent("alice", "market"), Sent("market", "bob"), Sent("bob", "bob")>>,
                   Nft("bob", "rex")),
     rename |-> User(<<Event(MutationEvent, "nft", "name")>>, Nft("alice", "max")),
     burn |-> User(<<Event(Burn, "dogs", [token |-> "nft", collection |-> "dogs",
                                          previous_owner |-> "bob"])>>,
                   <<DeleteResource(ObjectGroup, "nft")>> \o Dogs(0)),
     burn_old |-> User(<<Event(BurnEvent, "dogs", [token |-> "nft"])>>,
                       <<DeleteResource(ObjectGroup, "nft")>>),
     burn_kept |-> User(<<Event(BurnEvent, "dogs", [token |-> "nft"])>>,
                        <<Core("nft", "bob"), WriteResource("0x9::m::Level", "nft", "level")>>)]

-----------------------------------------------------------------------------
MCTemplates ==
    [objects_processor |-> ObjectTxns,
     stake_processor |-> StakeTxns,
     events_processor |-> EventTxns,
     user_transaction_processor |-> UserTxns,
     account_transactions_processor |-> UserTxns,
     coin_processor |-> CoinTxns,
     fungible_asset_processor |-> FungibleTxns,
     ans_processor |-> AnsTxns,
     default_processor |-> DefaultTxns,
     transaction_metadata_processor |-> DefaultTxns,
     token_processor |-> TokenTxns,
     token_v2_processor |-> TokenV2Txns]

Cases(processor, tasks, chains) ==
    {[processor |-> processor, tasks |-> tasks, chain |-> c] : c \in chains}

TokenChains ==
    {<<"create", "send", "mutate">>, <<"create", "offer", "claim">>, <<"create", "block", "offer">>}

TokenV2Chains ==
    {<<"create", "send", "mutate">>, <<"create", "offer", "claim">>,
     <<"mint", "transfer", "burn">>, <<"mint", "sell", "burn_old">>,
     <<"mint", "rename", "transfer">>, <<"mint", "transfer", "burn_kept">>}

MCSetups ==
    LET one == {"t1"}
        two == {"t1", "t2"}
    IN  Cases("objects_processor", one, ObjectChains)
        \cup Cases("stake_processor", one, StakeChains)
        \cup Cases("stake_processor", two, {<<"add", "unlock", "withdraw_item">>})
        \cup Cases("events_processor", two, EventChains)
        \cup Cases("user_transaction_processor", two, UserChains)
        \cup Cases("account_transactions_processor", two, UserChains)
        \cup Cases("coin_processor", two, CoinChains)
        \cup Cases("fungible_asset_processor", two, FungibleChains)
        \cup Cases("ans_processor", two, AnsChains)
        \cup Cases("default_processor", two, DefaultChains)
        \cup Cases("transaction_metadata_processor", two, DefaultChains)
        \cup Cases("token_processor", one, TokenChains)
        \cup Cases("token_v2_processor", one, TokenV2Chains)

\* An owner approves a transaction of a multisig account.
EventsIndexSetups == Cases("events_processor", {"t1"}, {<<"send", "vote">>})

\* Shares that were unlocked in one cycle are withdrawn while others are unlocked
\* in the next.
StakeSharesSetups == Cases("stake_processor", {"t1"}, {<<"add", "unlock", "roll">>})

\* The creation and the deletion of an object in the batches of two tasks.
ObjectsDeletionSetups == Cases("objects_processor", {"t1", "t2"}, {<<"create", "delete">>})
=============================================================================
