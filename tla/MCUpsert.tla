------------------------------ MODULE MCUpsert ------------------------------
(* The kinds of tables the runs study, from the catalogue, for TLC.        *)
EXTENDS Upsert, Tables

\* Every transaction writes all keys, but the second may write the first alone.
MCHistories ==
    {[v \in Versions |-> IF v = 2 THEN K ELSE Keys] : K \in {{1}, Keys}}

\* All kinds but the pools: a batch keeps the last write of a pool, where the
\* clause of its query is after the first, so what is stored depends on batches.
ConvergingKinds == KindsOf(AllTables \ {"delegated_staking_pools"})

ASSUME KindsAssumption ==
    /\ \A k \in KindsOf(AllTables) : CollectedByKey(k)
    /\ \A k \in ConvergingKinds : Converges(k)

OrderedKinds == {k \in KindsOf(AllTables) : k.ordered}

\* current_token_pending_claims and the two tables of current v2 names: each has a
\* key column its sort does not look at.
UnsortedKinds == {k \in KindsOf(AllTables) : ~k.ordered}

TaskSymmetry == Permutations(Tasks)
=============================================================================
