---------------------------- MODULE GapDetector ----------------------------
(***************************************************************************)
(* The gap detector task of a worker (gap_detector.rs).  Processor tasks   *)
(* report the version range of every batch they have written, in whatever  *)
(* order they finish; the gap detector joins the ranges into a prefix      *)
(* without gaps and, at most once per second, stores the end of that       *)
(* prefix in the processor_status row, from which a restart resumes.       *)
(*                                                                         *)
(* This module is the component alone: who delivers results, and in which  *)
(* order, is decided by the modules that extend it.                        *)
(***************************************************************************)
EXTENDS Integers

CONSTANT
    NoBatch         \* None of an Option<ProcessingResult>

VARIABLES
    gap_pc,                     \* where the loop is: "recv", "chain" or "report"
    next_version_to_process,    \* first version the prefix does not cover
    seen_versions,              \* results that start after a gap
    last_success_batch,         \* last result of the prefix, or NoBatch
    new_prev_batch,             \* local of update_prev_batch, or NoBatch
    status                      \* processor_status.last_success_version

gapVars == <<gap_pc, next_version_to_process, seen_versions,
             last_success_batch, new_prev_batch>>

Results == [start_version : Nat, end_version : Nat]

ASSUME NoBatchAssumption == NoBatch \notin Results

\* The processor_status table has no row for this processor yet.
NoStatus == -1

Versions(r) == r.start_version .. r.end_version

GapTypeOK ==
    /\ gap_pc \in {"recv", "chain", "report"}
    /\ next_version_to_process \in Nat
    /\ seen_versions \subseteq Results
    /\ last_success_batch \in Results \cup {NoBatch}
    /\ new_prev_batch \in Results \cup {NoBatch}
    /\ gap_pc = "chain" => new_prev_batch \in Results
    /\ status \in Nat \cup {NoStatus}

\* GapDetector::new, as an initial condition and as a step that replaces the
\* detector of an earlier run.  The status row is in the database and survives.
GapInit(starting_version) ==
    /\ gap_pc = "recv"
    /\ next_version_to_process = starting_version
    /\ seen_versions = {}
    /\ last_success_batch = NoBatch
    /\ new_prev_batch = NoBatch

GapReset(starting_version) ==
    /\ gap_pc' = "recv"
    /\ next_version_to_process' = starting_version
    /\ seen_versions' = {}
    /\ last_success_batch' = NoBatch
    /\ new_prev_batch' = NoBatch

\* seen_versions is a map keyed by start_version: an insert replaces the entry
\* that has the same key.
InsertSeen(r) ==
    {s \in seen_versions : s.start_version # r.start_version} \cup {r}

\* Variants: the gap test left out; the local batch not assigned.
ProcessVersions_NoGapTest(r) ==
    /\ gap_pc = "recv"
    /\ new_prev_batch' = r
    /\ gap_pc' = "chain"
    /\ UNCHANGED <<next_version_to_process, seen_versions,
                   last_success_batch, status>>

ProcessVersions_NoLocal(r) ==
    /\ gap_pc = "recv"
    /\ IF next_version_to_process # r.start_version
       THEN seen_versions' = InsertSeen(r) /\ gap_pc' = "report"
       ELSE gap_pc' = "chain" /\ UNCHANGED seen_versions
    /\ UNCHANGED <<next_version_to_process, last_success_batch,
                   new_prev_batch, status>>

\* process_versions, up to its call of update_prev_batch.
ProcessVersions(r) ==
    /\ gap_pc = "recv"
    /\ \/ /\ next_version_to_process # r.start_version
          /\ seen_versions' = InsertSeen(r)
          /\ gap_pc' = "report"
          /\ UNCHANGED new_prev_batch
       \/ /\ next_version_to_process = r.start_version
          /\ new_prev_batch' = r
          /\ gap_pc' = "chain"
          /\ UNCHANGED seen_versions
    /\ UNCHANGED <<next_version_to_process, last_success_batch, status>>

\* Variant: the waiting result is looked up but not removed.
FollowChain_Get ==
    /\ gap_pc = "chain"
    /\ \E s \in seen_versions :
          /\ s.start_version = new_prev_batch.end_version + 1
          /\ new_prev_batch' = s
    /\ UNCHANGED <<gap_pc, next_version_to_process, seen_versions,
                   last_success_batch, status>>

\* One iteration of update_prev_batch's loop.  The loop is local to the task,
\* so no other task sees the states between two iterations.
FollowChain ==
    /\ gap_pc = "chain"
    /\ \E s \in seen_versions :
          /\ s.start_version = new_prev_batch.end_version + 1
          /\ seen_versions' = seen_versions \ {s}
          /\ new_prev_batch' = s
    /\ UNCHANGED <<gap_pc, next_version_to_process, last_success_batch, status>>

\* Variant: the loop may stop before the chain does.
UpdatePrevBatch_Early ==
    /\ gap_pc = "chain"
    /\ next_version_to_process' = new_prev_batch.end_version + 1
    /\ last_success_batch' = new_prev_batch
    /\ new_prev_batch' = NoBatch
    /\ gap_pc' = "report"
    /\ UNCHANGED <<seen_versions, status>>

\* The loop's exit and the two assignments after it.
UpdatePrevBatch ==
    /\ gap_pc = "chain"
    /\ \A s \in seen_versions : s.start_version # new_prev_batch.end_version + 1
    /\ next_version_to_process' = new_prev_batch.end_version + 1
    /\ last_success_batch' = new_prev_batch
    /\ new_prev_batch' = NoBatch
    /\ gap_pc' = "report"
    /\ UNCHANGED <<seen_versions, status>>

\* Variant: the upsert without its WHERE clause.
StatusUpsert_Overwrite(version) == version

\* The upsert of update_last_processed_version: the row is inserted, or updated
\* when its version is not above the new one.
StatusUpsert(version) == IF status <= version THEN version ELSE status

\* The loop stores the status only when a second has passed since the last time
\* it did; the clock is a nondeterministic choice of the next two actions.
UpdateLastProcessedVersion ==
    /\ gap_pc = "report"
    /\ last_success_batch # NoBatch
    /\ status' = StatusUpsert(last_success_batch.end_version)
    /\ gap_pc' = "recv"
    /\ UNCHANGED <<next_version_to_process, seen_versions,
                   last_success_batch, new_prev_batch>>

SkipStatusUpdate ==
    /\ gap_pc = "report"
    /\ gap_pc' = "recv"
    /\ UNCHANGED <<next_version_to_process, seen_versions,
                   last_success_batch, new_prev_batch, status>>

\* The steps of the loop body after a result has been received.
GapStep ==
    \/ FollowChain
    \/ UpdatePrevBatch
    \/ UpdateLastProcessedVersion
    \/ SkipStatusUpdate
=============================================================================
