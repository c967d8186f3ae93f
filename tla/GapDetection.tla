---------------------------- MODULE GapDetection ----------------------------
(***************************************************************************)
(* The gap detector with the environment the worker gives it: the versions *)
(* StartVersion .. EndVersion are cut into consecutive batches, and the    *)
(* processor tasks report each batch once, in an arbitrary order.          *)
(***************************************************************************)
EXTENDS GapDetector, FiniteSets

CONSTANTS StartVersion, EndVersion

ASSUME RangeAssumption ==
    /\ StartVersion \in Nat
    /\ EndVersion \in Nat
    /\ StartVersion <= EndVersion

VARIABLES
    batches,        \* the batches of this run; never changes
    reported        \* the ones whose result the gap detector has received

vars == <<gapVars, status, batches, reported>>

Ranges == [start_version : StartVersion .. EndVersion,
           end_version : StartVersion .. EndVersion]

\* The batches that result from cutting the range after each version of C.
Cut(C) ==
    {r \in Ranges :
        /\ r.start_version <= r.end_version
        /\ r.start_version = StartVersion \/ r.start_version - 1 \in C
        /\ r.end_version = EndVersion \/ r.end_version \in C
        /\ \A c \in C : ~(r.start_version <= c /\ c < r.end_version)}

Init ==
    /\ GapInit(StartVersion)
    /\ status = NoStatus
    /\ batches \in {Cut(C) : C \in SUBSET (StartVersion .. EndVersion - 1)}
    /\ reported = {}

\* gap_detector_receiver.recv() returns the result of some processed batch.
ReceiveResult ==
    \E r \in batches \ reported :
        /\ ProcessVersions(r)
        /\ reported' = reported \cup {r}
        /\ UNCHANGED batches

Step == GapStep /\ UNCHANGED <<batches, reported>>

\* The channel is closed once every result has been received: the loop returns.
ChannelClosed ==
    /\ gap_pc = "recv"
    /\ reported = batches
    /\ UNCHANGED vars

Next == ReceiveResult \/ Step \/ ChannelClosed

\* The task is polled until it waits for a result, and every processor task
\* reports eventually.
Spec == Init /\ [][Next]_vars /\ WF_vars(ReceiveResult \/ Step)

-----------------------------------------------------------------------------
TypeOK ==
    /\ GapTypeOK
    /\ batches \subseteq Results
    /\ reported \subseteq batches

ReportedVersions == UNION {Versions(r) : r \in reported}

\* When the loop is back at recv, next_version_to_process is exactly the first
\* version no reported batch covers, whatever the order of the reports: the
\* prefix never runs ahead of a missing batch and never lags behind one that has
\* arrived (update_prev_batch follows the whole chain of waiting results).
NextIsFirstMissing ==
    gap_pc = "recv" =>
        /\ next_version_to_process \notin ReportedVersions
        /\ StartVersion .. next_version_to_process - 1 \subseteq ReportedVersions

\* seen_versions holds exactly the reported batches behind the first gap: no
\* result is lost when the map is drained, and none stays behind in it.
SeenIsBehindGap ==
    gap_pc = "recv" =>
        seen_versions = {r \in reported : next_version_to_process < r.start_version}

\* The stored status never names a version whose predecessors were not all
\* reported: a restart from it skips nothing.
StatusCoversReported ==
    StartVersion .. status \subseteq ReportedVersions

\* Neither the stored status nor the prefix ever moves backwards.
NeverRewinds ==
    [][/\ status <= status'
       /\ next_version_to_process <= next_version_to_process']_vars

\* Once every batch has been reported the prefix covers the whole range and the
\* map of waiting results is empty.
PrefixCompletes ==
    <>[](next_version_to_process = EndVersion + 1 /\ seen_versions = {})
=============================================================================
