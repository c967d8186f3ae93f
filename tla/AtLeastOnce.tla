---------------------------- MODULE AtLeastOnce ----------------------------
(***************************************************************************)
(* What a worker promises to whoever reads its database: the transactions  *)
(* it keeps are indexed in some order, each at least once, and the         *)
(* checkpoint it stores moves only forward and only over a prefix of       *)
(* transactions that are all indexed.                                      *)
(***************************************************************************)
EXTENDS Integers

CONSTANTS
    Wanted,         \* versions to be indexed
    First           \* version indexing starts from

VARIABLES
    indexed,        \* versions whose rows are in the database
    checkpoint      \* stored version, -1 when there is none

aloVars == <<indexed, checkpoint>>

ALOInit == indexed = {} /\ checkpoint = -1

Index ==
    /\ indexed \subseteq indexed'
    /\ indexed' \subseteq Wanted
    /\ UNCHANGED checkpoint

Advance ==
    /\ checkpoint <= checkpoint'
    /\ \A v \in Wanted : First <= v /\ v <= checkpoint' => v \in indexed
    /\ UNCHANGED indexed

ALONext == Index \/ Advance

ALOSpec == ALOInit /\ [][ALONext]_aloVars
=============================================================================
