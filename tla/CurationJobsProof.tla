------------------------- MODULE CurationJobsProof -------------------------
(***************************************************************************)
(* What the contract of the job tables guarantees, for every number of     *)
(* submissions, workers, jobs, slots and attempts.                         *)
(***************************************************************************)
EXTENDS CurationJobs, FiniteSetTheorems, TLAPS

-----------------------------------------------------------------------------
(* Types *)

\* The counters of a row are numbers: there are finitely many submissions.
LEMMA TallyType == \A row : Tally(row) \in Tallies
<1> SUFFICES ASSUME NEW row PROVE Tally(row) \in Tallies
  OBVIOUS
<1>1. \A P : P \subseteq Submissions => Cardinality(P) \in Nat
  BY JobsAssumption, FS_Subset, FS_CardinalityType
<1>2. /\ Cardinality({s \in Submissions : row[s] = "succeeded"}) \in Nat
      /\ Cardinality({s \in Submissions : row[s] \in Skips}) \in Nat
      /\ Cardinality({s \in Submissions : row[s] = "failed"}) \in Nat
      /\ Cardinality({s \in Submissions : row[s] = "cancelled"}) \in Nat
  BY <1>1
<1> QED
  BY <1>2 DEF Tally, Tallies

\* Cancelling the open targets of a row gives a row.
LEMMA CancelledRowType ==
  \A row \in [Submissions -> TargetStatus] :
    CancelledRow(row) \in [Submissions -> TargetStatus]
BY DEF CancelledRow, TargetStatus, Settled

\* The initial tables are well typed.
LEMMA StoreInitType == StoreInit => StoreTypeOK
<1> SUFFICES ASSUME StoreInit PROVE StoreTypeOK
  OBVIOUS
<1>1. BlankMeta \in Meta
  BY JobsAssumption DEF BlankMeta, Meta, Trigger, NoJob
<1>2. NoRow \in [Submissions -> TargetStatus]
  BY DEF NoRow, TargetStatus
<1>3. ZeroTally \in Tallies
  BY DEF ZeroTally, Tallies
<1> QED
  BY <1>1, <1>2, <1>3, JobsAssumption
  DEF StoreInit, StoreTypeOK, JobStatus, DispatchStatus, NoJob

\* A cancel keeps the tables well typed.
LEMMA CancelType ==
  ASSUME StoreTypeOK, NEW J, Cancel(J) PROVE StoreTypeOK'
<1> DEFINE hit == {j \in J : status[j] \in Active}
<1>1. tgt' \in [JobId -> [Submissions -> TargetStatus]]
  BY CancelledRowType DEF Cancel, StoreTypeOK
<1>2. counts' \in [JobId -> Tallies]
  <2>1. counts' = [j \in JobId |->
                     IF j \in hit THEN Tally(CancelledRow(tgt[j])) ELSE counts[j]]
    BY DEF Cancel
  <2>2. \A j \in JobId : Tally(CancelledRow(tgt[j])) \in Tallies
    BY TallyType
  <2> QED
    BY <2>1, <2>2 DEF StoreTypeOK
<1>3. status' \in [JobId -> JobStatus]
  BY DEF Cancel, JobStatus, StoreTypeOK
<1> QED
  BY <1>1, <1>2, <1>3 DEF Cancel, StoreTypeOK

\* A progress report keeps the tables well typed.
LEMMA ProgressType ==
  ASSUME StoreTypeOK, NEW j \in JobId, NEW T, NEW st \in Settled \cup {"running"},
         Progress(j, T, st)
  PROVE  StoreTypeOK'
<1> DEFINE row == [s \in Submissions |-> IF s \in T THEN st ELSE tgt[j][s]]
<1>1. row \in [Submissions -> TargetStatus]
  BY DEF StoreTypeOK, TargetStatus, Open
<1>2. Tally(row) \in Tallies
  BY TallyType
<1>3. /\ tgt' = [tgt EXCEPT ![j] = row]
      /\ counts' = [counts EXCEPT ![j] = Tally(row)]
      /\ fresh' = [fresh EXCEPT ![j] = TRUE]
      /\ UNCHANGED <<status, meta, dispatch, token, due>>
  BY DEF Progress
<1> HIDE DEF row
<1> QED
  BY <1>1, <1>2, <1>3 DEF StoreTypeOK

\* Every statement keeps the tables well typed.
LEMMA StatementType == StoreTypeOK /\ [Statement]_storeVars => StoreTypeOK'
<1> SUFFICES ASSUME StoreTypeOK, [Statement]_storeVars PROVE StoreTypeOK'
  OBVIOUS
<1>1. CASE Cancels
  BY <1>1, CancelType DEF Cancels
<1>2. ASSUME NEW j \in JobId, Inserts(j) PROVE StoreTypeOK'
  <2>1. \A T : [s \in Submissions |-> IF s \in T THEN "pending" ELSE "none"]
                 \in [Submissions -> TargetStatus]
    BY DEF TargetStatus, Open
  <2>2. PICK m \in Meta, ready \in BOOLEAN, T \in SUBSET Submissions : Insert(j, m, ready, T)
    BY <1>2 DEF Inserts
  <2> QED
    BY <2>1, <2>2 DEF Insert, StoreTypeOK, JobStatus
<1>3. ASSUME NEW j \in JobId, Reports(j) PROVE StoreTypeOK'
  BY <1>3, ProgressType DEF Reports
<1>4. ASSUME NEW j \in JobId, Finalizes(j) PROVE StoreTypeOK'
  BY <1>4 DEF Finalizes, Finalize, StoreTypeOK, JobStatus
<1>5. ASSUME NEW j \in JobId, Sweeps(j) PROVE StoreTypeOK'
  BY <1>5, CancelledRowType DEF Sweeps, SweepTargets, StoreTypeOK
<1>6. ASSUME NEW j \in JobId, Ages(j) PROVE StoreTypeOK'
  BY <1>6 DEF Ages, StoreTypeOK
<1>7. ASSUME NEW j \in JobId, MarkDispatched(j) \/ RecordDispatchFailure(j)
      PROVE  StoreTypeOK'
  BY <1>7 DEF MarkDispatched, RecordDispatchFailure, StoreTypeOK, JobStatus, DispatchStatus
<1>8. ASSUME NEW j \in JobId, NEW w \in Workers, Claim(j, w) PROVE StoreTypeOK'
  BY <1>8 DEF Claim, StoreTypeOK, JobStatus, DispatchStatus
<1>9. CASE UNCHANGED storeVars
  BY <1>9 DEF storeVars, StoreTypeOK
<1> QED
  BY <1>1, <1>2, <1>3, <1>4, <1>5, <1>6, <1>7, <1>8, <1>9 DEF Statement

\* The tables are always well typed.
THEOREM StoreTypeCorrect == StoreSpec => []StoreTypeOK
BY StoreInitType, StatementType, PTL DEF StoreSpec

-----------------------------------------------------------------------------
(* The inductive invariant *)

\* A row not inserted yet is blank, a job not claimed yet has untouched targets.
Untouched ==
  \A j \in JobId :
    /\ status[j] = "absent" => tgt[j] = NoRow /\ meta[j] = BlankMeta
    /\ status[j] = "pending" => \A s \in Submissions : tgt[j][s] \in {"none", "pending"}

LeaseInv == StoreTypeOK /\ OneLease

StoreInv == LeaseInv /\ EndedIsSettled /\ Untouched

\* What a cancel does to one job: nothing, or it ends the job.
LEMMA CancelOne ==
  ASSUME NEW J, Cancel(J), NEW j \in JobId
  PROVE  /\ meta' = meta
         /\ \/ /\ status[j] \notin Active \/ j \notin J
               /\ status'[j] = status[j] /\ token'[j] = token[j] /\ tgt'[j] = tgt[j]
            \/ /\ status[j] \in Active /\ j \in J
               /\ status'[j] = "cancelled" /\ token'[j] = NoWorker
               /\ tgt'[j] = CancelledRow(tgt[j])
BY DEF Cancel

\* No statement gives a second lease, or leaves a lease behind.
LEMMA LeaseStep == LeaseInv /\ [Statement]_storeVars => LeaseInv'
<1> SUFFICES ASSUME LeaseInv, [Statement]_storeVars PROVE OneLease'
  BY StatementType DEF LeaseInv
<1> USE DEF LeaseInv, OneLease, StoreTypeOK
<1>1. CASE Cancels
  <2>1. PICK J : Cancel(J)
    BY <1>1 DEF Cancels
  <2> QED
    BY <2>1, CancelOne
<1>2. ASSUME NEW j \in JobId, Inserts(j) PROVE OneLease'
  <2>1. PICK m \in Meta, ready \in BOOLEAN, T \in SUBSET Submissions : Insert(j, m, ready, T)
    BY <1>2 DEF Inserts
  <2>2. /\ status[j] = "absent"
        /\ status' = [status EXCEPT ![j] = "pending"]
        /\ meta' = [meta EXCEPT ![j] = m]
        /\ tgt' = [tgt EXCEPT ![j] =
                     [s \in Submissions |-> IF s \in T THEN "pending" ELSE "none"]]
        /\ token' = token
    BY <2>1 DEF Insert, IsNext
  <2> QED
    BY <2>2
<1>3. ASSUME NEW j \in JobId, Reports(j) PROVE OneLease'
  BY <1>3 DEF Reports, Progress
<1>4. ASSUME NEW j \in JobId, Finalizes(j) PROVE OneLease'
  <2>1. PICK st \in {"failed", "completed"} :
          /\ status' = [status EXCEPT ![j] = st]
          /\ token' = [token EXCEPT ![j] = NoWorker]
    BY <1>4 DEF Finalizes, Finalize
  <2> QED
    BY <2>1
<1>5. ASSUME NEW j \in JobId, Sweeps(j) PROVE OneLease'
  BY <1>5 DEF Sweeps, SweepTargets
<1>6. ASSUME NEW j \in JobId, Ages(j) PROVE OneLease'
  BY <1>6 DEF Ages
<1>7. ASSUME NEW j \in JobId, MarkDispatched(j) \/ RecordDispatchFailure(j)
      PROVE  OneLease'
  BY <1>7 DEF MarkDispatched, RecordDispatchFailure
<1>8. ASSUME NEW j \in JobId, NEW w \in Workers, Claim(j, w) PROVE OneLease'
  BY <1>8, JobsAssumption DEF Claim, Claimable, NothingRunning
<1>9. CASE UNCHANGED storeVars
  BY <1>9 DEF storeVars
<1> QED
  BY <1>1, <1>2, <1>3, <1>4, <1>5, <1>6, <1>7, <1>8, <1>9 DEF Statement

\* A job that has ended keeps its status and its targets, and has no lease.
LEMMA EndedStep ==
  ASSUME StoreInv, [Statement]_storeVars, NEW j \in JobId, status[j] \in Ended
  PROVE  status'[j] = status[j] /\ tgt'[j] = tgt[j] /\ token'[j] = NoWorker
<1> DEFINE Same == status'[j] = status[j] /\ tgt'[j] = tgt[j] /\ token'[j] = token[j]
<1>0. token[j] = NoWorker
  BY DEF StoreInv, LeaseInv, OneLease, Ended
<1> SUFFICES Same
  BY <1>0
<1>1. CASE Cancels
  <2>1. PICK J \in SUBSET JobId : Cancel(J)
    BY <1>1 DEF Cancels, StaleJobs
  <2> QED
    BY <2>1 DEF Cancel, Active, Ended
<1> USE DEF StoreInv, LeaseInv, StoreTypeOK, Ended
<1>2. ASSUME NEW i \in JobId, Inserts(i) PROVE Same
  BY <1>2 DEF Inserts, Insert, IsNext
<1>3. ASSUME NEW i \in JobId, Reports(i) PROVE Same
  BY <1>3 DEF Reports, Progress
<1>4. ASSUME NEW i \in JobId, Finalizes(i) PROVE Same
  BY <1>4 DEF Finalizes, Finalize
<1>5. ASSUME NEW i \in JobId, Sweeps(i) PROVE Same
  <2>1. CASE i # j
    BY <1>5, <2>1 DEF Sweeps, SweepTargets
  <2>2. CASE i = j
    <3>1. \A s \in Submissions : tgt[j][s] \notin Open
      BY <1>5, <2>2 DEF Sweeps, EndedIsSettled, OpenTargets
    <3>2. tgt[j] \in [Submissions -> TargetStatus]
      OBVIOUS
    <3>3. CancelledRow(tgt[j]) = tgt[j]
      BY <3>1, <3>2 DEF CancelledRow
    <3> QED
      BY <1>5, <2>2, <3>3 DEF Sweeps, SweepTargets
  <2> QED
    BY <2>1, <2>2
<1>6. ASSUME NEW i \in JobId, Ages(i) PROVE Same
  BY <1>6 DEF Ages
<1>7. ASSUME NEW i \in JobId, MarkDispatched(i) \/ RecordDispatchFailure(i)
      PROVE  Same
  BY <1>7 DEF MarkDispatched, RecordDispatchFailure
<1>8. ASSUME NEW i \in JobId, NEW w \in Workers, Claim(i, w) PROVE Same
  BY <1>8 DEF Claim, Claimable
<1>9. CASE UNCHANGED storeVars
  BY <1>9 DEF storeVars
<1> QED
  BY <1>1, <1>2, <1>3, <1>4, <1>5, <1>6, <1>7, <1>8, <1>9 DEF Statement

\* A job that ends completed or cancelled leaves no open target.
LEMMA SettledStep == StoreInv /\ [Statement]_storeVars => EndedIsSettled'
<1> SUFFICES ASSUME StoreInv, [Statement]_storeVars, NEW j \in JobId,
                    status'[j] \in {"completed", "cancelled"}
             PROVE  OpenTargets(j)' = {}
  BY DEF EndedIsSettled
<1>0. CASE status[j] \in Ended
  BY <1>0, EndedStep DEF StoreInv, EndedIsSettled, OpenTargets
<1> SUFFICES ASSUME status[j] \notin Ended PROVE OpenTargets(j)' = {}
  BY <1>0
<1> USE DEF StoreInv, LeaseInv, StoreTypeOK, Ended
<1>1. CASE Cancels
  <2>1. tgt'[j] = CancelledRow(tgt[j])
    BY <1>1 DEF Cancels, Cancel
  <2> QED
    BY <2>1 DEF CancelledRow, OpenTargets, Open
<1>2. ASSUME NEW i \in JobId, Inserts(i) PROVE FALSE
  BY <1>2 DEF Inserts, Insert
<1>3. ASSUME NEW i \in JobId, Reports(i) PROVE FALSE
  BY <1>3 DEF Reports, Progress
<1>4. ASSUME NEW i \in JobId, Finalizes(i) PROVE OpenTargets(j)' = {}
  BY <1>4 DEF Finalizes, Finalize, OpenTargets
<1>5. ASSUME NEW i \in JobId, Sweeps(i) PROVE FALSE
  BY <1>5 DEF Sweeps, SweepTargets
<1>6. ASSUME NEW i \in JobId, Ages(i) PROVE FALSE
  BY <1>6 DEF Ages
<1>7. ASSUME NEW i \in JobId, MarkDispatched(i) \/ RecordDispatchFailure(i)
      PROVE  FALSE
  BY <1>7 DEF MarkDispatched, RecordDispatchFailure
<1>8. ASSUME NEW i \in JobId, NEW w \in Workers, Claim(i, w) PROVE FALSE
  BY <1>8 DEF Claim, Claimable
<1>9. CASE UNCHANGED storeVars
  BY <1>9 DEF storeVars
<1> QED
  BY <1>1, <1>2, <1>3, <1>4, <1>5, <1>6, <1>7, <1>8, <1>9 DEF Statement

\* Nothing touches the targets of a job before it is claimed.
LEMMA UntouchedStep == StoreInv /\ [Statement]_storeVars => Untouched'
<1> SUFFICES ASSUME StoreInv, [Statement]_storeVars PROVE Untouched'
  OBVIOUS
<1> USE DEF StoreInv, LeaseInv, StoreTypeOK, Untouched
<1>1. CASE Cancels
  <2>1. PICK J : Cancel(J)
    BY <1>1 DEF Cancels
  <2> QED
    BY <2>1, CancelOne DEF Active
<1>2. ASSUME NEW j \in JobId, Inserts(j) PROVE Untouched'
  <2>1. PICK m \in Meta, ready \in BOOLEAN, T \in SUBSET Submissions : Insert(j, m, ready, T)
    BY <1>2 DEF Inserts
  <2>2. /\ status[j] = "absent"
        /\ status' = [status EXCEPT ![j] = "pending"]
        /\ meta' = [meta EXCEPT ![j] = m]
        /\ tgt' = [tgt EXCEPT ![j] =
                     [s \in Submissions |-> IF s \in T THEN "pending" ELSE "none"]]
        /\ token' = token
    BY <2>1 DEF Insert, IsNext
  <2>3. /\ status'[j] = "pending"
        /\ \A s \in Submissions : tgt'[j][s] \in {"none", "pending"}
    BY <2>2
  <2>4. \A i \in JobId \ {j} : status'[i] = status[i] /\ meta'[i] = meta[i] /\ tgt'[i] = tgt[i]
    BY <2>2
  <2> QED
    BY <2>3, <2>4
<1>3. ASSUME NEW j \in JobId, Reports(j) PROVE Untouched'
  BY <1>3 DEF Reports, Progress
<1>4. ASSUME NEW j \in JobId, Finalizes(j) PROVE Untouched'
  BY <1>4 DEF Finalizes, Finalize
<1>5. ASSUME NEW j \in JobId, Sweeps(j) PROVE Untouched'
  BY <1>5 DEF Sweeps, SweepTargets
<1>6. ASSUME NEW j \in JobId, Ages(j) PROVE Untouched'
  BY <1>6 DEF Ages
<1>7. ASSUME NEW j \in JobId, MarkDispatched(j) \/ RecordDispatchFailure(j)
      PROVE  Untouched'
  BY <1>7 DEF MarkDispatched, RecordDispatchFailure
<1>8. ASSUME NEW j \in JobId, NEW w \in Workers, Claim(j, w) PROVE Untouched'
  BY <1>8 DEF Claim
<1>9. CASE UNCHANGED storeVars
  BY <1>9 DEF storeVars
<1> QED
  BY <1>1, <1>2, <1>3, <1>4, <1>5, <1>6, <1>7, <1>8, <1>9 DEF Statement

\* The empty tables satisfy the invariant.
LEMMA StoreInitInv == StoreInit => StoreInv
BY StoreInitType
DEF StoreInit, StoreInv, LeaseInv, OneLease, EndedIsSettled, Untouched

\* Every statement keeps the invariant.
LEMMA StoreStep == StoreInv /\ [Statement]_storeVars => StoreInv'
BY LeaseStep, SettledStep, UntouchedStep DEF StoreInv

\* The invariant holds for every caller that keeps the contract.
LEMMA StoreInvariant == StoreSpec => []StoreInv
BY StoreInitInv, StoreStep, PTL DEF StoreSpec

\* One job runs at a time, and exactly it has a lease.
THEOREM AlwaysOneLease == StoreSpec => []OneLease
BY StoreInvariant, PTL DEF StoreInv, LeaseInv

\* What has ended in success or by a cancel has no open target.
THEOREM AlwaysSettled == StoreSpec => []EndedIsSettled
BY StoreInvariant, PTL DEF StoreInv

\* The targets of a job that has ended never change.
THEOREM AlwaysFrozen == StoreSpec => FrozenTargets
<1>1. StoreInv /\ [Statement]_storeVars =>
        [\A j \in JobId : status[j] \in Ended => tgt'[j] = tgt[j]]_storeVars
  BY EndedStep
<1> QED
  BY <1>1, StoreInvariant, PTL DEF StoreSpec, FrozenTargets

\* A job that has ended stays ended.
THEOREM AlwaysFinal == StoreSpec => EndedIsFinal
<1>1. StoreInv /\ [Statement]_storeVars =>
        [\A j \in JobId : status[j] \in Ended =>
           status'[j] = status[j] /\ token'[j] = NoWorker]_storeVars
  BY EndedStep
<1> QED
  BY <1>1, StoreInvariant, PTL DEF StoreSpec, EndedIsFinal

-----------------------------------------------------------------------------
(* Retries and slots *)

\* What an insert does: the row was absent, the contract holds of the new
\* row, and the other rows stay.
LEMMA InsertOne ==
  ASSUME StoreTypeOK, NEW j \in JobId, Inserts(j)
  PROVE  /\ ~Exists(j)
         /\ \A k \in JobId : ~SameRequest(k, meta'[j])
         /\ meta'[j].trigger = "automatic_retry" =>
              /\ meta'[j].parent # NoJob
              /\ status[meta'[j].parent] = "failed"
              /\ TargetsOf(j)' \subseteq OpenTargets(meta'[j].parent)
         /\ \A i \in JobId \ {j} :
              status'[i] = status[i] /\ meta'[i] = meta[i] /\ tgt'[i] = tgt[i]
<1> DEFINE T == {s \in Submissions : tgt'[j][s] # "none"}
<1>1. /\ \A k \in JobId : ~SameRequest(k, meta'[j])
      /\ meta'[j].trigger = "automatic_retry" =>
           /\ meta'[j].parent # NoJob
           /\ status[meta'[j].parent] = "failed"
           /\ T \subseteq OpenTargets(meta'[j].parent)
      /\ Insert(j, meta'[j], due'[j], T)
  BY DEF Inserts
<1>2. TargetsOf(j)' = T
  BY DEF TargetsOf
<1> HIDE DEF T
<1>3. \A i \in JobId \ {j} :
        status'[i] = status[i] /\ meta'[i] = meta[i] /\ tgt'[i] = tgt[i]
  BY <1>1 DEF Insert, StoreTypeOK
<1>4. ~Exists(j)
  BY <1>1 DEF Insert, IsNext, Exists
<1> QED
  BY <1>1, <1>2, <1>3, <1>4

\* A job keeps its request and its targets; a new job is an insert.
LEMMA RequestStep ==
  ASSUME StoreInv, [Statement]_storeVars, NEW j \in JobId, Exists(j)'
  PROVE  \/ Exists(j) /\ meta'[j] = meta[j] /\ TargetsOf(j)' = TargetsOf(j)
         \/ ~Exists(j) /\ Inserts(j)
<1> DEFINE Kept == Exists(j) /\ meta'[j] = meta[j] /\ TargetsOf(j)' = TargetsOf(j)
<1> USE DEF StoreInv, LeaseInv, StoreTypeOK, Exists, TargetsOf
<1>1. CASE Cancels
  <2>1. PICK J : Cancel(J)
    BY <1>1 DEF Cancels
  <2>2. \A s \in Submissions : CancelledRow(tgt[j])[s] # "none" <=> tgt[j][s] # "none"
    BY DEF CancelledRow, Open
  <2> QED
    BY <2>1, <2>2, CancelOne DEF Active
<1>2. ASSUME NEW i \in JobId, Inserts(i) PROVE Kept \/ (~Exists(j) /\ Inserts(j))
  BY <1>2, InsertOne
<1>3. ASSUME NEW i \in JobId, Reports(i) PROVE Kept
  <2>1. PICK T \in SUBSET TargetsOf(i), st \in Settled \cup {"running"} : Progress(i, T, st)
    BY <1>3 DEF Reports
  <2>2. /\ status' = status /\ meta' = meta
        /\ tgt' = [tgt EXCEPT ![i] =
                     [s \in Submissions |-> IF s \in T THEN st ELSE tgt[i][s]]]
    BY <2>1 DEF Progress
  <2>3. st # "none"
    BY DEF Settled, Skips
  <2> QED
    BY <2>2, <2>3
<1>4. ASSUME NEW i \in JobId, Finalizes(i) PROVE Kept
  BY <1>4 DEF Finalizes, Finalize
<1>5. ASSUME NEW i \in JobId, Sweeps(i) PROVE Kept
  BY <1>5 DEF Sweeps, SweepTargets, CancelledRow, Open
<1>6. ASSUME NEW i \in JobId, Ages(i) PROVE Kept
  BY <1>6 DEF Ages
<1>7. ASSUME NEW i \in JobId, MarkDispatched(i) \/ RecordDispatchFailure(i)
      PROVE  Kept
  BY <1>7 DEF MarkDispatched, RecordDispatchFailure
<1>8. ASSUME NEW i \in JobId, NEW w \in Workers, Claim(i, w) PROVE Kept
  BY <1>8 DEF Claim, Claimable
<1>9. CASE UNCHANGED storeVars
  BY <1>9 DEF storeVars
<1> QED
  BY <1>1, <1>2, <1>3, <1>4, <1>5, <1>6, <1>7, <1>8, <1>9 DEF Statement

\* A retry stays the only continuation of its parent, within what it left open.
LEMMA RetryStep == StoreInv /\ RetryContinues /\ [Statement]_storeVars => RetryContinues'
<1> SUFFICES ASSUME StoreInv, RetryContinues, [Statement]_storeVars,
                    NEW j \in JobId, Exists(j)', meta'[j].trigger = "automatic_retry",
                    NEW p, p = meta'[j].parent
             PROVE  /\ p # NoJob /\ status'[p] = "failed"
                    /\ TargetsOf(j)' \subseteq OpenTargets(p)'
                    /\ \A k \in JobId \ {j} :
                         ~(Exists(k)' /\ meta'[k].trigger = "automatic_retry"
                                      /\ meta'[k].parent = p)
  BY DEF RetryContinues
<1>0. StoreTypeOK /\ StoreTypeOK'
  BY StatementType DEF StoreInv, LeaseInv
<1>1. /\ p # NoJob /\ status[p] = "failed"
      /\ TargetsOf(j)' \subseteq OpenTargets(p)
  <2>1. CASE Exists(j)
    BY <2>1, RequestStep DEF RetryContinues
  <2>2. CASE ~Exists(j)
    BY <2>2, <1>0, RequestStep, InsertOne
  <2> QED
    BY <2>1, <2>2
<1>2. p \in JobId
  BY <1>0, <1>1 DEF StoreTypeOK, Meta, JobId, NoJob
<1>3. status'[p] = "failed" /\ tgt'[p] = tgt[p]
  BY <1>1, <1>2, EndedStep DEF Ended
<1>4. OpenTargets(p)' = OpenTargets(p)
  BY <1>3 DEF OpenTargets
<1>5. ASSUME NEW k \in JobId \ {j}, Exists(k)',
             meta'[k].trigger = "automatic_retry", meta'[k].parent = p
      PROVE  FALSE
  <2>1. CASE Exists(j) /\ Exists(k)
    BY <2>1, <1>5, RequestStep DEF RetryContinues
  <2>2. CASE ~Exists(j)
    BY <2>2, <1>0, <1>5, RequestStep, InsertOne DEF SameRequest, Exists
  <2>3. CASE ~Exists(k)
    BY <2>3, <1>0, <1>5, RequestStep, InsertOne DEF SameRequest, Exists
  <2> QED
    BY <2>1, <2>2, <2>3
<1> QED
  BY <1>1, <1>3, <1>4, <1>5

\* An automatic retry is the only one of its parent and takes over only what
\* the parent left open.
THEOREM AlwaysContinues == StoreSpec => []RetryContinues
<1>1. StoreInit => RetryContinues
  BY DEF StoreInit, RetryContinues, Exists
<1> QED
  BY <1>1, StoreInvariant, RetryStep, PTL DEF StoreSpec

\* One job is scheduled per slot.
THEOREM AlwaysOnePerSlot == StoreSpec => []OneJobPerSlot
<1>1. StoreInit => OneJobPerSlot
  BY DEF StoreInit, OneJobPerSlot, BlankMeta
<1>2. StoreInv /\ OneJobPerSlot /\ [Statement]_storeVars => OneJobPerSlot'
  <2> SUFFICES ASSUME StoreInv, OneJobPerSlot, [Statement]_storeVars,
                      NEW i \in JobId, NEW j \in JobId, i # j,
                      meta'[i].slot # 0, meta'[i].slot = meta'[j].slot
               PROVE  FALSE
    BY DEF OneJobPerSlot
  <2>0. StoreInv'
    BY StoreStep
  <2>1. Exists(i)' /\ Exists(j)'
    BY <2>0 DEF StoreInv, Untouched, Exists, BlankMeta
  <2>2. CASE Exists(i) /\ Exists(j)
    BY <2>1, <2>2, RequestStep DEF OneJobPerSlot
  <2>3. CASE ~Exists(i)
    BY <2>1, <2>3, RequestStep, InsertOne DEF SameRequest, Exists, StoreInv, LeaseInv
  <2>4. CASE ~Exists(j)
    BY <2>1, <2>4, RequestStep, InsertOne DEF SameRequest, Exists, StoreInv, LeaseInv
  <2> QED
    BY <2>2, <2>3, <2>4
<1> QED
  BY <1>1, <1>2, StoreInvariant, PTL DEF StoreSpec

-----------------------------------------------------------------------------
(* Outcomes *)

\* A target with an outcome keeps it, or is corrected to failed.
LEMMA OutcomeStep ==
  ASSUME StoreInv, [Statement]_storeVars, NEW j \in JobId, NEW s \in Submissions,
         tgt[j][s] \in Settled
  PROVE  tgt'[j][s] \in {tgt[j][s], "failed"}
<1> DEFINE Kept == tgt'[j][s] \in {tgt[j][s], "failed"}
<1> USE DEF StoreInv, LeaseInv, StoreTypeOK
<1>0. tgt[j][s] \notin Open /\ tgt[j][s] # "none"
  BY DEF Settled, Skips, Open
<1>1. CASE Cancels
  <2>1. PICK J : Cancel(J)
    BY <1>1 DEF Cancels
  <2>2. CancelledRow(tgt[j])[s] = tgt[j][s]
    BY <1>0 DEF CancelledRow
  <2> QED
    BY <2>1, <2>2, CancelOne
<1>2. ASSUME NEW i \in JobId, Inserts(i) PROVE Kept
  <2>1. tgt[j] = tgt'[j] \/ status[j] = "absent"
    BY <1>2, InsertOne DEF Exists
  <2> QED
    BY <1>0, <2>1 DEF Untouched, NoRow
<1>3. ASSUME NEW i \in JobId, Reports(i) PROVE Kept
  <2>1. PICK T \in SUBSET TargetsOf(i), st \in Settled \cup {"running"} :
          /\ st # "failed" => T \subseteq OpenTargets(i)
          /\ Progress(i, T, st)
    BY <1>3 DEF Reports
  <2>2. tgt' = [tgt EXCEPT ![i] =
                  [r \in Submissions |-> IF r \in T THEN st ELSE tgt[i][r]]]
    BY <2>1 DEF Progress
  <2> QED
    BY <1>0, <2>1, <2>2 DEF OpenTargets
<1>4. ASSUME NEW i \in JobId, Finalizes(i) PROVE Kept
  BY <1>4 DEF Finalizes, Finalize
<1>5. ASSUME NEW i \in JobId, Sweeps(i) PROVE Kept
  BY <1>0, <1>5 DEF Sweeps, SweepTargets, CancelledRow
<1>6. ASSUME NEW i \in JobId, Ages(i) PROVE Kept
  BY <1>6 DEF Ages
<1>7. ASSUME NEW i \in JobId, MarkDispatched(i) \/ RecordDispatchFailure(i)
      PROVE  Kept
  BY <1>7 DEF MarkDispatched, RecordDispatchFailure
<1>8. ASSUME NEW i \in JobId, NEW w \in Workers, Claim(i, w) PROVE Kept
  BY <1>8 DEF Claim
<1>9. CASE UNCHANGED storeVars
  BY <1>9 DEF storeVars
<1> QED
  BY <1>1, <1>2, <1>3, <1>4, <1>5, <1>6, <1>7, <1>8, <1>9 DEF Statement

\* No outcome is reopened or turned into another success or skip.
THEOREM AlwaysOutcome == StoreSpec => OutcomeIsFinal
<1>1. StoreInv /\ [Statement]_storeVars =>
        [\A j \in JobId, s \in Submissions :
           tgt[j][s] \in Settled => tgt'[j][s] \in {tgt[j][s], "failed"}]_storeVars
  BY OutcomeStep
<1> QED
  BY <1>1, StoreInvariant, PTL DEF StoreSpec, OutcomeIsFinal
=============================================================================
