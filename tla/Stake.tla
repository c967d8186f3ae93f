------------------------------- MODULE Stake --------------------------------
(***************************************************************************)
(* The stake processor (processors/stake_processor.rs and                  *)
(* models/stake_models).  A delegation pool keeps the active shares of its *)
(* delegators in one table and the inactive ones in a table per lockup     *)
(* cycle; these tables are themselves items of one table of the pool.  A   *)
(* share is a table item that names only its table's handle, so the pool   *)
(* is found through maps from handles, or in the database.                 *)
(***************************************************************************)
EXTENDS Parsing

StakePool == "0x1::stake::StakePool"
DelegationPool == "0x1::delegation_pool::DelegationPool"
GovernanceRecords == "0x1::delegation_pool::GovernanceRecords"
Pool == "0x1::pool_u64_unbound::Pool"
VoteDelegation == "vector<VoteDelegation>"
Share == "u128"

\* What StakeEvent::from_event recognises, but for governance votes.
StakingEvents ==
    {"AddStakeEvent", "UnlockStakeEvent", "WithdrawStakeEvent",
     "ReactivateStakeEvent", "DistributeRewardsEvent"}

-----------------------------------------------------------------------------
(* Rows that a transaction determines alone *)

CurrentStakingPoolVoter(txn, v) ==
    Emit(txn.changes, LAMBDA i :
        LET c == txn.changes[i]
        IN  Optional(WritesResource(c, StakePool),
                <<Row("current_staking_pool_voter",
                      [staking_pool_address |-> c.address], v, c.data)>>))

ProposalVote(txn, v) ==
    Emit(txn.events, LAMBDA i :
        LET e == txn.events[i]
        IN  Optional(txn.kind = "user" /\ e.type = "VoteEvent",
                <<Row("proposal_votes",
                      [transaction_version |-> v, proposal_id |-> e.data.proposal_id,
                       voter_address |-> e.data.voter], v, e.data)>>))

DelegatedStakingActivity(txn, v) ==
    Emit(txn.events, LAMBDA i :
        LET e == txn.events[i]
        IN  Optional(/\ txn.kind \in {"user", "block_metadata"}
                     /\ e.type \in StakingEvents,
                <<Row("delegated_staking_activities", EventIndexKey(v, i), v,
                      [delegator |-> IF e.type = "DistributeRewardsEvent"
                                     THEN "" ELSE e.data.delegator,
                       pool |-> e.data.pool, event_type |-> e.type])>>))

\* The pool itself, its balance, and its current balance.
pool_from_write_resource(c, v) ==
    LET key == [staking_pool_address |-> c.address]
    IN  <<Row("delegated_staking_pools", key, v, [first |-> v]),
          Row("delegated_staking_pool_balances",
              key @@ [transaction_version |-> v], v, c.data),
          Row("current_delegated_staking_pool_balances", key, v, c.data)>>

DelegatorPool(txn, v) ==
    Emit(txn.changes, LAMBDA i :
        Optional(txn.kind = "user" /\ WritesResource(txn.changes[i], DelegationPool),
                 pool_from_write_resource(txn.changes[i], v)))

-----------------------------------------------------------------------------
(* Maps from handles.  Those of the active shares and of the vote          *)
(* delegations are kept for the whole batch, the others for a transaction. *)

active_pool_to_staking_pool(map, changes) ==
    Extended(map, changes, LAMBDA c : WritesResource(c, DelegationPool),
             LAMBDA c : c.data.active, LAMBDA c : c.address)

vote_delegation_handle_to_pool_address(map, changes) ==
    Extended(map, changes, LAMBDA c : WritesResource(c, GovernanceRecords),
             LAMBDA c : c.data.handle, LAMBDA c : c.address)

inactive_pool_to_staking_pool(changes) ==
    Extended(NoMap, changes, LAMBDA c : WritesResource(c, DelegationPool),
             LAMBDA c : c.data.inactive, LAMBDA c : c.address)

\* From the table of a cycle's shares to the table of all the cycles.
inactive_share_to_pool(changes) ==
    Extended(NoMap, changes, LAMBDA c : WritesItem(c, Pool),
             LAMBDA c : c.data.shares, LAMBDA c : c.handle)

-----------------------------------------------------------------------------
(* Delegator balances *)

BalanceRows(v, i, delegator, pool, type, handle, shares, parent, current_parent) ==
    LET key == [delegator_address |-> delegator, pool_address |-> pool,
                pool_type |-> type, table_handle |-> handle]
    IN  <<Row("delegator_balances", ChangeKey(v, i), v,
              key @@ [shares |-> shares, parent_table_handle |-> parent]),
          Row("current_delegator_balances", key, v,
              [shares |-> shares, parent_table_handle |-> current_parent])>>

get_active_share(c, v, i, active, shares) ==
    BalanceRows(v, i, c.key, active[c.handle], "active_shares", c.handle, shares,
                c.handle, c.handle)

\* By parent_table_handle, the first row found; all of them have the same pool.
get_staking_pool_from_inactive_share_handle(db, handle) ==
    LET rows == db.current_delegator_balances
        found == {k \in DOMAIN rows : rows[k].cols.parent_table_handle = handle}
    IN  IF found = {} THEN None ELSE (CHOOSE k \in found : TRUE).pool_address

\* Variant: the pool in the same transaction is not used.
inactive_pool_address_DbOnly(handle, inactive, db) ==
    get_staking_pool_from_inactive_share_handle(db, handle)

inactive_pool_address(handle, inactive, db) ==
    IF handle \in DOMAIN inactive THEN inactive[handle]
    ELSE get_staking_pool_from_inactive_share_handle(db, handle)

\* A write whose pool is not found is dropped.
get_inactive_share_from_write_table_item(acc, c, v, i, inactive, share_to_pool, db) ==
    LET parent == share_to_pool[c.handle]
        pool == inactive_pool_address(parent, inactive, db)
    IN  IF pool = None THEN [acc EXCEPT !.missed = TRUE]
        ELSE Push(acc, BalanceRows(v, i, c.key, pool, "inactive_shares", c.handle,
                                   c.data, parent, parent))

\* A deletion whose pool is not found is an error, which from_transaction
\* unwraps.  The current row of a deleted share has its own table as parent.
get_inactive_share_from_delete_table_item(acc, c, v, i, inactive, share_to_pool, db) ==
    LET parent == share_to_pool[c.handle]
        pool == inactive_pool_address(parent, inactive, db)
    IN  IF pool = None THEN [acc EXCEPT !.missed = TRUE, !.panicked = TRUE]
        ELSE Push(acc, BalanceRows(v, i, c.key, pool, "inactive_shares", c.handle,
                                   0, parent, c.handle))

\* "Setting amount to 0 if table item is deleted".
balances_from_transaction(acc, txn, v, active, db) ==
    LET inactive == inactive_pool_to_staking_pool(txn.changes)
        share_to_pool == inactive_share_to_pool(txn.changes)
        Pass(a, i) ==
            LET c == txn.changes[i]
            IN  CASE c.change = "DeleteTableItem" /\ c.handle \in DOMAIN active ->
                        Push(a, get_active_share(c, v, i, active, 0))
                  [] /\ c.change = "DeleteTableItem"
                     /\ c.handle \in DOMAIN share_to_pool \ DOMAIN active ->
                        get_inactive_share_from_delete_table_item(
                            a, c, v, i, inactive, share_to_pool, db)
                  [] c.change = "WriteTableItem" /\ c.handle \in DOMAIN active ->
                        Push(a, get_active_share(c, v, i, active, c.data))
                  [] /\ c.change = "WriteTableItem"
                     /\ c.handle \in DOMAIN share_to_pool \ DOMAIN active ->
                        get_inactive_share_from_write_table_item(
                            a, c, v, i, inactive, share_to_pool, db)
                  [] OTHER -> a
    IN  Over(txn.changes, Pass, acc)

-----------------------------------------------------------------------------
(* Delegated voters *)

VoterRow(v, pool, delegator, voter, handle) ==
    Row("current_delegated_voter",
        [delegation_pool_address |-> pool, delegator_address |-> delegator], v,
        [voter |-> voter, table_handle |-> handle])

get_delegation_pool_address_by_table_handle(db, handle) ==
    LET rows == db.current_delegated_voter
        found == {k \in DOMAIN rows : rows[k].cols.table_handle = handle}
    IN  IF found = {} THEN None
        ELSE (CHOOSE k \in found : TRUE).delegation_pool_address

\* One row for each delegator of the bucket; none when the pool is not found.
voter_from_write_table_item(acc, c, v, handles, db) ==
    LET pool == IF c.handle \in DOMAIN handles THEN handles[c.handle]
                ELSE get_delegation_pool_address_by_table_handle(db, c.handle)
    IN  IF pool = None THEN [acc EXCEPT !.missed = TRUE]
        ELSE Push(acc, [n \in DOMAIN c.data |->
                VoterRow(v, pool, c.data[n].delegator, c.data[n].voter, c.handle)])

get_existence_by_pk(db, key) == key \in DOMAIN db.current_delegated_voter

\* A delegator of whom no vote delegation is known votes for themself.  The
\* lookup is retried before it is believed.
get_delegators_pre_contract_deployment(acc, c, v, active, db) ==
    LET key == [delegation_pool_address |-> active[c.handle],
                delegator_address |-> c.key]
    IN  IF Holds(acc.rows, "current_delegated_voter", key) \/ get_existence_by_pk(db, key)
        THEN acc
        ELSE Push([acc EXCEPT !.missed = TRUE],
                  <<VoterRow(v, active[c.handle], c.key, c.key, None)>>)

-----------------------------------------------------------------------------
StakeParse(acc, txn, v, db) ==
    LET active == active_pool_to_staking_pool(acc.memo.active, txn.changes)
        handles == vote_delegation_handle_to_pool_address(acc.memo.handles, txn.changes)
        alone == Push([acc EXCEPT !.memo = [active |-> active, handles |-> handles]],
                      CurrentStakingPoolVoter(txn, v) \o ProposalVote(txn, v)
                      \o DelegatedStakingActivity(txn, v) \o DelegatorPool(txn, v))
        balances == balances_from_transaction(alone, txn, v, active, db)
        Chosen(a, i) ==
            LET c == txn.changes[i]
            IN  IF WritesItem(c, VoteDelegation)
                THEN voter_from_write_table_item(a, c, v, handles, db) ELSE a
        ByDefault(a, i) ==
            LET c == txn.changes[i]
            IN  IF c.change = "WriteTableItem" /\ c.handle \in DOMAIN active
                THEN get_delegators_pre_contract_deployment(a, c, v, active, db) ELSE a
    IN  Over(txn.changes, ByDefault, Over(txn.changes, Chosen, balances))
=============================================================================
