------------------------- MODULE GapDetectionProofs -------------------------
(***************************************************************************)
(* The gap detector is right for every range of versions, every way to cut *)
(* it into batches and every order in which the batches are reported.      *)
(***************************************************************************)
EXTENDS GapDetection, TLAPS

\* No two batches overlap.
Tiling ==
    \A r, s \in batches : \A v \in Versions(r) : v \in Versions(s) => r = s

WellFormed ==
    \A r \in batches :
        /\ r \in Results
        /\ StartVersion <= r.start_version
        /\ r.start_version <= r.end_version

\* Start of the part that is not joined yet: inside update_prev_batch the prefix
\* already reaches to the end of the local batch.
Frontier ==
    IF gap_pc = "chain" THEN new_prev_batch.end_version + 1
                        ELSE next_version_to_process

\* The inductive invariant.  Below the frontier everything is reported; of what
\* is reported, seen_versions has exactly what lies beyond it.
Inv ==
    /\ TypeOK
    /\ Tiling
    /\ WellFormed
    /\ StartVersion .. Frontier - 1 \subseteq ReportedVersions
    /\ seen_versions = {r \in reported : Frontier <= r.start_version}
    /\ gap_pc # "chain" => Frontier \notin ReportedVersions
    /\ StartVersion <= next_version_to_process
    /\ next_version_to_process <= Frontier
    /\ gap_pc = "chain" => new_prev_batch \in reported
    /\ last_success_batch # NoBatch =>
          last_success_batch.end_version < next_version_to_process
    /\ status < next_version_to_process

\* Cutting a range gives batches that tile it.
LEMMA CutTiles ==
    ASSUME NEW C \in SUBSET (StartVersion .. EndVersion - 1),
           NEW r \in Cut(C), NEW s \in Cut(C),
           NEW v \in Versions(r), v \in Versions(s)
    PROVE  r = s
<1> USE RangeAssumption
<1>1. /\ r \in Ranges /\ s \in Ranges
      /\ v \in Int
      /\ r.start_version <= v /\ v <= r.end_version
      /\ s.start_version <= v /\ v <= s.end_version
    BY DEF Cut, Versions, Ranges
<1>2. ASSUME NEW p \in Cut(C), NEW q \in Cut(C),
             p.start_version <= v, v <= p.end_version,
             q.start_version <= v, v <= q.end_version
      PROVE  ~(p.start_version < q.start_version)
    BY <1>1, <1>2 DEF Cut, Ranges
<1>3. r.start_version = s.start_version
    BY <1>1, <1>2 DEF Ranges
<1>4. ASSUME NEW p \in Cut(C), NEW q \in Cut(C),
             p.start_version <= v, v <= p.end_version,
             q.start_version <= v, v <= q.end_version
      PROVE  ~(p.end_version < q.end_version)
    BY <1>1, <1>4 DEF Cut, Ranges
<1>5. r.end_version = s.end_version
    BY <1>1, <1>4 DEF Ranges
<1> QED BY <1>1, <1>3, <1>5 DEF Ranges

\* The invariant holds of a new gap detector.
LEMMA InitInv == Init => Inv
<1> SUFFICES ASSUME Init PROVE Inv
    OBVIOUS
<1> USE RangeAssumption
<1>1. PICK C \in SUBSET (StartVersion .. EndVersion - 1) : batches = Cut(C)
    BY DEF Init
<1>2. WellFormed
    BY <1>1 DEF WellFormed, Cut, Ranges, Results
<1>3. Tiling
    BY <1>1, CutTiles DEF Tiling
<1>4. TypeOK
    BY <1>2 DEF Init, GapInit, TypeOK, GapTypeOK, WellFormed
<1>5. ReportedVersions = {}
    BY DEF Init, ReportedVersions
<1> QED BY <1>2, <1>3, <1>4, <1>5 DEF Init, GapInit, Inv, Frontier, NoStatus

\* A batch that has not been reported does not start below the frontier.
LEMMA NewIsBeyond ==
    ASSUME Inv, NEW r \in batches \ reported
    PROVE  Frontier <= r.start_version
<1>1. /\ StartVersion <= r.start_version
      /\ r.start_version <= r.end_version
      /\ r.start_version \in Nat /\ r.end_version \in Nat
    BY DEF Inv, WellFormed, Results
<1>2. r.start_version \notin ReportedVersions
    BY <1>1 DEF ReportedVersions, Inv, Tiling, Versions, TypeOK
<1>3. Frontier \in Int
    BY DEF Inv, TypeOK, GapTypeOK, Frontier, Results
<1>4. StartVersion .. Frontier - 1 \subseteq ReportedVersions
    BY DEF Inv
<1> QED BY <1>1, <1>2, <1>3, <1>4, RangeAssumption

\* process_versions preserves the invariant, with or without a gap.
LEMMA ReceiveInv ==
    ASSUME Inv, ReceiveResult
    PROVE  Inv'
<1> USE RangeAssumption
<1>1. PICK r \in batches \ reported :
            ProcessVersions(r) /\ reported' = reported \cup {r} /\ UNCHANGED batches
    BY DEF ReceiveResult
<1>2. /\ gap_pc = "recv"
      /\ Frontier = next_version_to_process
      /\ next_version_to_process \in Nat
    BY <1>1 DEF ProcessVersions, Frontier, Inv, TypeOK, GapTypeOK
<1>3. /\ r \in Results
      /\ r.start_version \in Nat /\ r.end_version \in Nat
      /\ r.start_version <= r.end_version
      /\ next_version_to_process <= r.start_version
    BY <1>2, NewIsBeyond DEF Inv, WellFormed, Results
<1>4. ReportedVersions' = ReportedVersions \cup Versions(r)
    BY <1>1 DEF ReportedVersions
<1>5. TypeOK' /\ Tiling' /\ WellFormed'
    BY <1>1, <1>3, NoBatchAssumption
    DEF Inv, TypeOK, GapTypeOK, Tiling, WellFormed, ProcessVersions, InsertSeen
<1>6. \A s \in reported : s.start_version # r.start_version
    BY <1>1, <1>3 DEF Inv, TypeOK, Tiling, WellFormed, Versions, Results
<1>7. CASE next_version_to_process # r.start_version
  <2>1. /\ seen_versions' = InsertSeen(r)
        /\ gap_pc' = "report"
        /\ UNCHANGED <<next_version_to_process, last_success_batch, status>>
      BY <1>1, <1>7 DEF ProcessVersions
  <2>2. InsertSeen(r) = seen_versions \cup {r}
      BY <1>6 DEF InsertSeen, Inv
  <2>3. Frontier' = next_version_to_process
      BY <2>1 DEF Frontier
  <2>4. seen_versions' = {s \in reported' : Frontier' <= s.start_version}
      BY <1>1, <1>2, <1>3, <2>1, <2>2, <2>3 DEF Inv
  <2>5. Frontier' \notin ReportedVersions'
    <3>1. Frontier \notin ReportedVersions
        BY <1>2 DEF Inv
    <3>2. next_version_to_process \notin Versions(r)
        BY <1>2, <1>3, <1>7 DEF Versions
    <3> QED BY <1>2, <1>4, <2>3, <3>1, <3>2
  <2>6. StartVersion .. Frontier' - 1 \subseteq ReportedVersions'
      BY <1>2, <1>4, <2>3 DEF Inv
  <2> QED BY <1>2, <1>5, <2>1, <2>3, <2>4, <2>5, <2>6 DEF Inv
<1>8. CASE next_version_to_process = r.start_version
  <2>1. /\ new_prev_batch' = r
        /\ gap_pc' = "chain"
        /\ UNCHANGED <<seen_versions, next_version_to_process,
                       last_success_batch, status>>
      BY <1>1, <1>8 DEF ProcessVersions
  <2>2. Frontier' = r.end_version + 1
      BY <2>1 DEF Frontier
  <2>3. \A s \in reported : Frontier <= s.start_version => r.end_version < s.start_version
    <3> SUFFICES ASSUME NEW s \in reported, Frontier <= s.start_version,
                        s.start_version <= r.end_version
                 PROVE  FALSE
        BY <1>3 DEF Inv, TypeOK, Results
    <3>1. s \in batches /\ s.start_version \in Nat /\ s.start_version <= s.end_version
          /\ s.end_version \in Nat
        BY DEF Inv, TypeOK, WellFormed, Results
    <3>2. s.start_version \in Versions(r) /\ s.start_version \in Versions(s)
        BY <1>2, <1>3, <1>8, <3>1 DEF Versions
    <3>3. r = s
        BY <3>1, <3>2 DEF Inv, Tiling
    <3> QED BY <3>3
  <2>4. seen_versions' = {s \in reported' : Frontier' <= s.start_version}
    <3>1. \A s \in reported : s.start_version \in Nat
        BY DEF Inv, TypeOK, Results
    <3>2. \A s \in reported :
              Frontier <= s.start_version <=> Frontier' <= s.start_version
        BY <1>2, <1>3, <1>8, <2>2, <2>3, <3>1
    <3>3. ~(Frontier' <= r.start_version)
        BY <1>3, <2>2
    <3> QED BY <1>1, <2>1, <3>2, <3>3 DEF Inv
  <2>5. StartVersion .. Frontier' - 1 \subseteq ReportedVersions'
    <3>1. \A v \in StartVersion .. r.end_version :
              v \in StartVersion .. Frontier - 1 \/ v \in Versions(r)
        BY <1>2, <1>3, <1>8 DEF Versions
    <3>2. StartVersion .. Frontier - 1 \subseteq ReportedVersions
        BY DEF Inv
    <3>3. Frontier' - 1 = r.end_version
        BY <1>3, <2>2
    <3> QED BY <1>4, <3>1, <3>2, <3>3
  <2>6. next_version_to_process' <= Frontier'
      BY <1>2, <1>3, <2>1, <2>2
  <2> QED BY <1>1, <1>5, <2>1, <2>4, <2>5, <2>6 DEF Inv
<1> QED BY <1>7, <1>8

\* The loop of update_prev_batch and the status update preserve the invariant.
LEMMA StepInv ==
    ASSUME Inv, Step
    PROVE  Inv'
<1> USE RangeAssumption
<1>1. /\ UNCHANGED <<batches, reported>>
      /\ ReportedVersions' = ReportedVersions
      /\ Tiling' /\ WellFormed'
    BY DEF Step, ReportedVersions, Inv, Tiling, WellFormed
<1>2. CASE FollowChain
  <2>1. PICK s \in seen_versions :
            /\ s.start_version = new_prev_batch.end_version + 1
            /\ seen_versions' = seen_versions \ {s}
            /\ new_prev_batch' = s
      BY <1>2 DEF FollowChain
  <2>2. /\ gap_pc = "chain" /\ gap_pc' = "chain"
        /\ UNCHANGED <<next_version_to_process, last_success_batch, status>>
        /\ Frontier = s.start_version
        /\ Frontier' = s.end_version + 1
        /\ s \in reported /\ s \in batches /\ s \in Results
        /\ s.start_version \in Nat /\ s.end_version \in Nat
        /\ s.start_version <= s.end_version
        /\ next_version_to_process \in Nat
      BY <1>2, <2>1
      DEF FollowChain, Frontier, Inv, TypeOK, GapTypeOK, WellFormed, Results
  <2>3. TypeOK'
      BY <1>1, <1>2, <2>1, <2>2 DEF FollowChain, Inv, TypeOK, GapTypeOK
  <2>4. \A q \in reported : q # s /\ s.start_version <= q.start_version =>
                                s.end_version < q.start_version
    <3> SUFFICES ASSUME NEW q \in reported, s.start_version <= q.start_version,
                        q.start_version <= s.end_version
                 PROVE  q = s
        BY <2>2 DEF Inv, TypeOK, Results
    <3>1. q \in batches /\ q.start_version \in Nat /\ q.start_version <= q.end_version
          /\ q.end_version \in Nat
        BY DEF Inv, TypeOK, WellFormed, Results
    <3>2. q.start_version \in Versions(q) /\ q.start_version \in Versions(s)
        BY <2>2, <3>1 DEF Versions
    <3> QED BY <2>2, <3>1, <3>2 DEF Inv, Tiling
  <2>5. seen_versions' = {q \in reported' : Frontier' <= q.start_version}
    <3>1. \A q \in reported : q.start_version \in Nat
        BY DEF Inv, TypeOK, Results
    <3>2. \A q \in reported :
              s.start_version <= q.start_version /\ q # s
              <=> s.end_version + 1 <= q.start_version
        BY <2>2, <2>4, <3>1
    <3> QED BY <1>1, <2>1, <2>2, <3>2 DEF Inv
  <2>6. StartVersion .. Frontier' - 1 \subseteq ReportedVersions'
    <3>1. Versions(s) \subseteq ReportedVersions
        BY <2>2 DEF ReportedVersions
    <3>2. \A v \in StartVersion .. s.end_version :
              v \in StartVersion .. Frontier - 1 \/ v \in Versions(s)
        BY <2>2 DEF Versions
    <3>3. StartVersion .. Frontier - 1 \subseteq ReportedVersions
        BY DEF Inv
    <3>4. Frontier' - 1 = s.end_version
        BY <2>2
    <3> QED BY <1>1, <3>1, <3>2, <3>3, <3>4
  <2>7. next_version_to_process' <= Frontier'
      BY <2>2 DEF Inv
  <2> QED BY <1>1, <2>1, <2>2, <2>3, <2>5, <2>6, <2>7 DEF Inv
<1>3. CASE UpdatePrevBatch
  <2>1. /\ gap_pc = "chain" /\ gap_pc' = "report"
        /\ \A s \in seen_versions : s.start_version # new_prev_batch.end_version + 1
        /\ next_version_to_process' = new_prev_batch.end_version + 1
        /\ last_success_batch' = new_prev_batch
        /\ UNCHANGED <<seen_versions, status>>
        /\ new_prev_batch \in Results
        /\ new_prev_batch.end_version \in Nat
      BY <1>3 DEF UpdatePrevBatch, Inv, TypeOK, GapTypeOK, Results
  <2>2. Frontier = new_prev_batch.end_version + 1 /\ Frontier' = Frontier
      BY <2>1 DEF Frontier
  <2>3. TypeOK'
      BY <1>1, <1>3, <2>1 DEF UpdatePrevBatch, Inv, TypeOK, GapTypeOK
  <2>4. Frontier \notin ReportedVersions
    <3> SUFFICES ASSUME NEW q \in reported, Frontier \in Versions(q)
                 PROVE  FALSE
        BY DEF ReportedVersions
    <3>1. q \in batches /\ q.start_version \in Nat /\ q.end_version \in Nat
          /\ q.start_version <= Frontier /\ Frontier <= q.end_version
        BY <2>1, <2>2 DEF Inv, TypeOK, WellFormed, Results, Versions
    <3>2. CASE q.start_version = Frontier
        BY <2>1, <2>2, <3>1, <3>2 DEF Inv
    <3>3. CASE q.start_version # Frontier
      <4>1. /\ new_prev_batch \in batches
            /\ new_prev_batch.end_version \in Versions(new_prev_batch)
          BY <2>1 DEF Inv, TypeOK, WellFormed, Versions, Results
      <4>2. new_prev_batch.end_version \in Versions(q)
          BY <2>1, <2>2, <3>1, <3>3 DEF Versions
      <4>3. q = new_prev_batch
          BY <3>1, <4>1, <4>2 DEF Inv, Tiling
      <4> QED BY <2>1, <2>2, <3>1, <4>3
    <3> QED BY <3>2, <3>3
  <2>5. status' < next_version_to_process' /\ StartVersion <= next_version_to_process'
    <3>1. /\ status \in Int /\ next_version_to_process \in Nat
          /\ status < next_version_to_process
          /\ StartVersion <= next_version_to_process
          /\ next_version_to_process <= Frontier
        BY DEF Inv, TypeOK, GapTypeOK, NoStatus
    <3> QED BY <2>1, <2>2, <3>1
  <2> QED BY <1>1, <2>1, <2>2, <2>3, <2>4, <2>5 DEF Inv
<1>4. CASE UpdateLastProcessedVersion
  <2>1. /\ gap_pc = "report" /\ gap_pc' = "recv"
        /\ UNCHANGED <<next_version_to_process, seen_versions,
                       last_success_batch, new_prev_batch>>
        /\ last_success_batch \in Results
        /\ status' = status \/ status' = last_success_batch.end_version
      BY <1>4 DEF UpdateLastProcessedVersion, StatusUpsert, Inv, TypeOK, GapTypeOK
  <2>2. Frontier' = Frontier
      BY <2>1 DEF Frontier
  <2>3. TypeOK'
      BY <1>1, <2>1 DEF Inv, TypeOK, GapTypeOK, Results
  <2>4. status' < next_version_to_process'
      BY <1>4, <2>1 DEF UpdateLastProcessedVersion, Inv
  <2> QED BY <1>1, <2>1, <2>2, <2>3, <2>4 DEF Inv
<1>5. CASE SkipStatusUpdate
  <2>1. /\ gap_pc = "report" /\ gap_pc' = "recv"
        /\ UNCHANGED <<next_version_to_process, seen_versions,
                       last_success_batch, new_prev_batch, status>>
      BY <1>5 DEF SkipStatusUpdate
  <2>2. Frontier' = Frontier
      BY <2>1 DEF Frontier
  <2>3. TypeOK'
      BY <1>1, <2>1 DEF Inv, TypeOK, GapTypeOK
  <2> QED BY <1>1, <2>1, <2>2, <2>3 DEF Inv
<1> QED BY <1>2, <1>3, <1>4, <1>5 DEF Step, GapStep

\* Every step preserves the invariant.
LEMMA NextInv == Inv /\ [Next]_vars => Inv'
<1> SUFFICES ASSUME Inv, [Next]_vars PROVE Inv'
    OBVIOUS
<1>1. CASE ReceiveResult
    BY <1>1, ReceiveInv
<1>2. CASE Step
    BY <1>2, StepInv
<1>3. CASE UNCHANGED vars
    BY <1>3 DEF vars, gapVars, Inv, TypeOK, GapTypeOK, Tiling, WellFormed,
                Frontier, ReportedVersions
<1> QED BY <1>1, <1>2, <1>3 DEF Next, ChannelClosed

\* The inductive invariant holds in every reachable state.
LEMMA Invariance == Spec => []Inv
BY InitInv, NextInv, PTL DEF Spec

\* The variables of the detector have their types in every state: what it keeps,
\* also between the iterations of the chain, are results, and nothing is reported
\* that is not a batch of the range.
THEOREM TypeInvariant == Spec => []TypeOK
<1>1. Inv => TypeOK
    BY DEF Inv
<1> QED BY Invariance, <1>1, PTL

\* The prefix ends exactly before the first version that was not reported.
THEOREM PrefixIsExact == Spec => []NextIsFirstMissing
<1>1. Inv => NextIsFirstMissing
    BY DEF Inv, NextIsFirstMissing, Frontier
<1> QED BY Invariance, <1>1, PTL

\* The map holds exactly the results that wait behind the first gap.
THEOREM SeenIsExact == Spec => []SeenIsBehindGap
<1>1. Inv => SeenIsBehindGap
  <2> SUFFICES ASSUME Inv PROVE SeenIsBehindGap
      OBVIOUS
  <2> SUFFICES ASSUME gap_pc = "recv"
               PROVE  seen_versions = {r \in reported :
                            next_version_to_process < r.start_version}
      BY DEF SeenIsBehindGap
  <2>1. Frontier = next_version_to_process /\ next_version_to_process \in Nat
      BY DEF Frontier, Inv, TypeOK, GapTypeOK
  <2>2. ASSUME NEW r \in reported
        PROVE  r.start_version # next_version_to_process /\ r.start_version \in Nat
    <3>1. r.start_version \in Versions(r) /\ r.start_version \in Nat
        BY DEF Inv, TypeOK, WellFormed, Results, Versions
    <3>2. r.start_version \in ReportedVersions
        BY <3>1 DEF ReportedVersions
    <3> QED BY <2>1, <3>1, <3>2 DEF Inv
  <2> QED BY <2>1, <2>2 DEF Inv
<1> QED BY Invariance, <1>1, PTL

\* The stored status never names a version with an unreported predecessor.
THEOREM StatusIsReported == Spec => []StatusCoversReported
<1>1. Inv => StatusCoversReported
  <2> SUFFICES ASSUME Inv PROVE StatusCoversReported
      OBVIOUS
  <2>1. status \in Int /\ Frontier \in Int /\ status < Frontier
      BY DEF Inv, TypeOK, GapTypeOK, NoStatus, Frontier, Results
  <2>2. StartVersion .. Frontier - 1 \subseteq ReportedVersions
      BY DEF Inv
  <2> QED BY <2>1, <2>2, RangeAssumption DEF StatusCoversReported
<1> QED BY Invariance, <1>1, PTL

\* Neither the stored status nor the prefix ever moves backwards.
THEOREM NothingRewinds == Spec => NeverRewinds
<1>1. Inv /\ [Next]_vars =>
        [/\ status <= status'
         /\ next_version_to_process <= next_version_to_process']_vars
  <2> SUFFICES ASSUME Inv, [Next]_vars
               PROVE  /\ status <= status'
                      /\ next_version_to_process <= next_version_to_process'
      OBVIOUS
  <2>1. status \in Int /\ next_version_to_process \in Nat
      BY DEF Inv, TypeOK, GapTypeOK, NoStatus
  <2>2. CASE ReceiveResult
      BY <2>1, <2>2 DEF ReceiveResult, ProcessVersions
  <2>3. CASE FollowChain \/ SkipStatusUpdate
      BY <2>1, <2>3 DEF FollowChain, SkipStatusUpdate
  <2>4. CASE UpdatePrevBatch
      BY <2>1, <2>4 DEF UpdatePrevBatch, Inv, Frontier
  <2>5. CASE UpdateLastProcessedVersion
    <3>1. last_success_batch.end_version \in Nat
        BY <2>5 DEF UpdateLastProcessedVersion, Inv, TypeOK, GapTypeOK, Results
    <3> QED BY <2>1, <2>5, <3>1 DEF UpdateLastProcessedVersion, StatusUpsert
  <2>6. CASE UNCHANGED vars
      BY <2>1, <2>6 DEF vars, gapVars
  <2> QED BY <2>2, <2>3, <2>4, <2>5, <2>6 DEF Next, Step, GapStep, ChannelClosed
<1> QED BY Invariance, <1>1, PTL DEF Spec, NeverRewinds
=============================================================================
