------------------------- MODULE WorkerOutcomesProof -------------------------
(***************************************************************************)
(* What the processes of CurationWorker leave in the tables: the counters  *)
(* of a job that ended agree with its targets, and an automatic rejection  *)
(* rests on a conclusive target of a job that could write.                 *)
(***************************************************************************)
EXTENDS CurationWorkerProof

-----------------------------------------------------------------------------
(* The inductive invariant *)

\* The counters agree with the targets, but for a failed job and for one whose
\* process is in its catch, where the sweep does not count again.
JobCounted(j) ==
  status[j] \in {"absent", "pending", "completed", "cancelled"} => counts[j] = Tally(tgt[j])

RunCounted(w) ==
  Running(w) /\ Owns(cur[w], w) /\ pc[w] # "fail" => counts[cur[w]] = Tally(tgt[cur[w]])

CountInv == (\A j \in JobId : JobCounted(j)) /\ \A w \in Workers : RunCounted(w)

\* The verdict pass has targets without a channel in hand, of no dry run.
InVerdict(w) ==
  pc[w] = "verdict" =>
    ~meta[cur[w]].dry /\ \A s \in work[w] : tgt[cur[w]][s] = "nochannel"

\* What justifies a rejection is not in hand any more, so it stays.
Justifies(j, s) ==
  /\ ~meta[j].dry
  /\ tgt[j][s] = "nochannel"
  /\ \A w \in Workers : Running(w) /\ cur[w] = j => s \notin work[w]

VerdictInv ==
  /\ \A w \in Workers : InVerdict(w)
  /\ \A s \in Submissions : sub[s] = "delisted" => \E j \in JobId : Justifies(j, s)

\* A step of one process.
Acts(w) == CronStart(w) \/ CliStart(w) \/ WorkerStep(w) \/ RunEvent(w)

-----------------------------------------------------------------------------
(* The counters *)

\* Rows that differ in open targets only have the same counters.
LEMMA SameTally ==
  ASSUME NEW r, NEW q,
         \A s \in Submissions : r[s] = q[s] \/ {r[s], q[s]} \subseteq {"none"} \cup Open
  PROVE  Tally(r) = Tally(q)
<1>1. /\ {s \in Submissions : r[s] = "succeeded"} = {s \in Submissions : q[s] = "succeeded"}
      /\ {s \in Submissions : r[s] \in Skips} = {s \in Submissions : q[s] \in Skips}
      /\ {s \in Submissions : r[s] = "failed"} = {s \in Submissions : q[s] = "failed"}
      /\ {s \in Submissions : r[s] = "cancelled"} = {s \in Submissions : q[s] = "cancelled"}
  BY DEF Open, Skips
<1> QED
  BY <1>1 DEF Tally

\* A cancel counts the targets of the jobs it ends.
LEMMA CancelCounts ==
  ASSUME NEW J, Cancel(J), NEW j \in JobId
  PROVE  \/ status'[j] = status[j] /\ tgt'[j] = tgt[j] /\ counts'[j] = counts[j]
         \/ status'[j] = "cancelled" /\ counts'[j] = Tally(tgt'[j])
BY DEF Cancel

\* Every statement but the completion of a job keeps it counted.
LEMMA StatementCounts ==
  ASSUME StoreInv, [Statement]_storeVars, NEW j \in JobId, JobCounted(j)
  PROVE  JobCounted(j)' \/ (status[j] = "running" /\ status'[j] = "completed")
<1> USE DEF JobCounted
<1>0. StoreTypeOK
  BY DEF StoreInv, LeaseInv
<1>1. CASE Cancels
  <2>1. PICK J : Cancel(J)
    BY <1>1 DEF Cancels
  <2> QED
    BY <2>1, CancelCounts
<1>2. ASSUME NEW i \in JobId, Inserts(i) PROVE JobCounted(j)'
  <2>1. CASE i # j
    <3>1. PICK T : Insert(i, meta'[i], due'[i], T)
      BY <1>2 DEF Inserts
    <3>2. status'[j] = status[j] /\ tgt'[j] = tgt[j] /\ counts'[j] = counts[j]
      BY <1>0, <2>1, <3>1 DEF Insert, StoreTypeOK
    <3> QED
      BY <3>2
  <2>2. CASE i = j
    <3>1. PICK T : Insert(j, meta'[j], due'[j], T)
      BY <1>2, <2>2 DEF Inserts
    <3>2. /\ status[j] = "absent" /\ counts'[j] = counts[j]
          /\ tgt'[j] = [s \in Submissions |-> IF s \in T THEN "pending" ELSE "none"]
      BY <1>0, <3>1 DEF Insert, IsNext, StoreTypeOK
    <3>3. tgt[j] = NoRow
      BY <3>2 DEF StoreInv, Untouched
    <3>4. Tally(tgt'[j]) = Tally(tgt[j])
      BY <3>2, <3>3, SameTally DEF NoRow, Open
    <3> QED
      BY <3>2, <3>4
  <2> QED
    BY <2>1, <2>2
<1>3. ASSUME NEW i \in JobId, Reports(i) PROVE JobCounted(j)'
  <2>1. PICK T, st : Progress(i, T, st)
    BY <1>3 DEF Reports
  <2>2. status'[i] = "running" /\ status'[j] = status[j]
    BY <1>3, <2>1 DEF Reports, Progress
  <2>3. i # j => tgt'[j] = tgt[j] /\ counts'[j] = counts[j]
    BY <1>0, <2>1 DEF Progress, StoreTypeOK
  <2> QED
    BY <2>2, <2>3
<1>4. ASSUME NEW i \in JobId, Finalizes(i)
      PROVE  JobCounted(j)' \/ (status[j] = "running" /\ status'[j] = "completed")
  <2>1. /\ status[i] = "running" /\ tgt' = tgt
        /\ status' = [status EXCEPT ![i] = "failed"] \/ status' = [status EXCEPT ![i] = "completed"]
        /\ counts' = [counts EXCEPT ![i] = counts'[i]]
    BY <1>4 DEF Finalizes, Finalize
  <2>2. CASE i = j
    BY <1>0, <2>1, <2>2 DEF StoreTypeOK
  <2>3. CASE i # j
    BY <1>0, <2>1, <2>3 DEF StoreTypeOK
  <2> QED
    BY <2>2, <2>3
<1>5. ASSUME NEW i \in JobId, Sweeps(i) PROVE JobCounted(j)'
  <2>1. /\ status[i] \in {"running", "cancelled"} /\ status' = status /\ counts' = counts
        /\ tgt' = [tgt EXCEPT ![i] = CancelledRow(tgt[i])]
    BY <1>5 DEF Sweeps, SweepTargets
  <2>2. CASE i = j /\ status[i] = "cancelled"
    <3>1. OpenTargets(i) = {}
      BY <2>2 DEF StoreInv, EndedIsSettled
    <3>2. CancelledRow(tgt[i]) = tgt[i]
      BY <1>0, <3>1 DEF OpenTargets, CancelledRow, StoreTypeOK
    <3> QED
      BY <1>0, <2>1, <2>2, <3>2 DEF StoreTypeOK
  <2>3. CASE i # j
    BY <1>0, <2>1, <2>3 DEF StoreTypeOK
  <2> QED
    BY <2>1, <2>2, <2>3
<1>6. ASSUME NEW i \in JobId, Ages(i) PROVE JobCounted(j)'
  BY <1>6 DEF Ages
<1>7. ASSUME NEW i \in JobId, MarkDispatched(i) PROVE JobCounted(j)'
  BY <1>7 DEF MarkDispatched
<1>8. ASSUME NEW i \in JobId, RecordDispatchFailure(i) PROVE JobCounted(j)'
  <2>1. tgt' = tgt /\ counts' = counts /\ status'[j] \in {status[j], "failed"}
    BY <1>0, <1>8 DEF RecordDispatchFailure, StoreTypeOK
  <2> QED
    BY <2>1
<1>9. ASSUME NEW i \in JobId, NEW w \in Workers, Claim(i, w) PROVE JobCounted(j)'
  <2>1. tgt' = tgt /\ counts' = counts /\ status'[j] \in {status[j], "running"}
    BY <1>0, <1>9 DEF Claim, StoreTypeOK
  <2> QED
    BY <2>1
<1>10. CASE UNCHANGED storeVars
  BY <1>10 DEF storeVars
<1> QED
  BY <1>1, <1>2, <1>3, <1>4, <1>5, <1>6, <1>7, <1>8, <1>9, <1>10 DEF Statement

\* A neutral statement neither completes a job nor touches one that goes on.
LEMMA NeutralCounts ==
  ASSUME StoreTypeOK, Neutral, NEW j \in JobId, status[j] = "running"
  PROVE  \/ status'[j] = "cancelled"
         \/ status'[j] = "running" /\ tgt'[j] = tgt[j] /\ counts'[j] = counts[j]
<1>1. CASE Cancels
  <2>1. PICK J : Cancel(J)
    BY <1>1 DEF Cancels
  <2> QED
    BY <2>1, CancelCounts
<1>2. ASSUME NEW i \in JobId, Inserts(i)
      PROVE  status'[j] = "running" /\ tgt'[j] = tgt[j] /\ counts'[j] = counts[j]
  <2>1. i # j
    BY <1>2, InsertOne DEF Exists
  <2>2. PICK T : Insert(i, meta'[i], due'[i], T)
    BY <1>2 DEF Inserts
  <2> QED
    BY <2>1, <2>2 DEF Insert, StoreTypeOK
<1>3. ASSUME NEW i \in JobId, Ages(i) \/ MarkDispatched(i) \/ RecordDispatchFailure(i)
      PROVE  status'[j] = "running" /\ tgt'[j] = tgt[j] /\ counts'[j] = counts[j]
  BY <1>3 DEF Ages, MarkDispatched, RecordDispatchFailure, StoreTypeOK
<1>4. ASSUME NEW i \in JobId, NEW w \in Workers, Claim(i, w)
      PROVE  status'[j] = "running" /\ tgt'[j] = tgt[j] /\ counts'[j] = counts[j]
  BY <1>4 DEF Claim, StoreTypeOK
<1>5. CASE UNCHANGED storeVars
  BY <1>5 DEF storeVars
<1> QED
  BY <1>1, <1>2, <1>3, <1>4, <1>5 DEF Neutral

\* What a process does to its own job touches the counters of no other.
LEMMA OwnCounts ==
  ASSUME StoreTypeOK, NEW w \in Workers, OnOwnJob(w), cur[w] \in JobId,
         NEW j \in JobId, j # cur[w]
  PROVE  status'[j] = status[j] /\ tgt'[j] = tgt[j] /\ counts'[j] = counts[j] /\ meta' = meta
<1>1. CASE Reports(cur[w])
  BY <1>1 DEF Reports, Progress, StoreTypeOK
<1>2. CASE Finalizes(cur[w])
  BY <1>2 DEF Finalizes, Finalize, StoreTypeOK
<1>3. CASE Sweeps(cur[w])
  BY <1>3 DEF Sweeps, SweepTargets, StoreTypeOK
<1> QED
  BY <1>1, <1>2, <1>3 DEF OnOwnJob

\* A report of a process counts the targets of its job.
LEMMA ProgressCounts ==
  ASSUME StoreTypeOK, NEW j \in JobId, NEW T, NEW st, Progress(j, T, st)
  PROVE  counts'[j] = Tally(tgt'[j]) /\ status' = status
<1>1. tgt'[j] = [s \in Submissions |-> IF s \in T THEN st ELSE tgt[j][s]]
  BY DEF Progress, StoreTypeOK
<1>2. counts'[j] = Tally([s \in Submissions |-> IF s \in T THEN st ELSE tgt[j][s]])
  BY DEF Progress, StoreTypeOK
<1> QED
  BY <1>1, <1>2 DEF Progress

\* A process that goes on with a run, and not in its catch, has it counted.
LEMMA RunCounts ==
  ASSUME WorkerInv, CountInv, NEW w \in Workers, Acts(w),
         Running(w)', Owns(cur[w], w)', pc'[w] # "fail"
  PROVE  counts'[cur'[w]] = Tally(tgt'[cur'[w]])
<1>0. /\ StoreTypeOK /\ pc \in [Workers -> Steps] /\ cur \in [Workers -> JobId \cup {NoJob}]
      /\ LocalInv(w) /\ RunCounted(w)
  BY DEF WorkerInv, TypeOK, CountInv
<1>1. \A step \in Steps : Goto(w, step) => pc'[w] = step
  BY <1>0 DEF Goto
<1>2. pc'[w] \in RunSteps /\ pc'[w] \notin CronSteps \cup {"idle", "claimOwn", "requeue", "settle"}
  BY DEF Running, RunSteps, CronSteps
<1>3. ASSUME NEW j \in JobId, Claim(j, w), cur'[w] = j
      PROVE  counts'[cur'[w]] = Tally(tgt'[cur'[w]])
  BY <1>3 DEF Claim, Claimable, CountInv, JobCounted
<1>4. ASSUME NEW T, NEW st, Progress(cur[w], T, st), Running(w), cur'[w] = cur[w]
      PROVE  counts'[cur'[w]] = Tally(tgt'[cur'[w]])
  <2>1. cur[w] \in JobId
    BY <1>0, <1>4 DEF LocalInv, HasJob
  <2> QED
    BY <1>0, <1>4, <2>1, ProgressCounts
<1>5. ASSUME UNCHANGED <<status, token, tgt, counts>>, Running(w), pc[w] # "fail",
             cur'[w] = cur[w]
      PROVE  counts'[cur'[w]] = Tally(tgt'[cur'[w]])
  BY <1>0, <1>5 DEF RunCounted, Owns
<1> USE DEF localVars
<1>6. CASE CronStart(w) \/ (CronStep(w) /\ ~ClaimNext(w)) \/ CliStart(w) \/ ClaimOwnFails(w)
  <2>1. pc'[w] \in CronSteps \cup {"idle", "claimOwn"}
    BY <1>0, <1>1, <1>6
    DEF CronStart, CronStep, RecoverStale, ReadFailed, RetryOne, RetriesDone, ScanPending,
        EnqueueScheduled, ClaimNothing, CliStart, ClaimOwnFails, Steps, CronSteps
  <2> QED
    BY <1>2, <2>1
<1>7. CASE ClaimNext(w)
  BY <1>0, <1>3, <1>7 DEF ClaimNext
<1>8. CASE ClaimOwn(w)
  <2>1. cur[w] \in JobId /\ cur'[w] = cur[w] /\ Claim(cur[w], w)
    BY <1>0, <1>8 DEF ClaimOwn, LocalInv, HasJob
  <2> QED
    BY <1>3, <2>1
<1>9. CASE Requeue(w) \/ Settle(w) \/ Crash(w) \/ FinalizeFailed(w) \/ CompleteJob(w)
           \/ Sweep(w) \/ Throw(w)
  <2>1. pc'[w] \in {"idle", "claim", "requeue", "settle", "fail"}
    BY <1>1, <1>9
    DEF Requeue, Settle, Crash, FinalizeFailed, CompleteJob, Fenced, Sweep, Throw, Steps,
        CronSteps, RunSteps
  <2> QED
    BY <1>2, <2>1 DEF CronSteps
<1>10. CASE Load(w) \/ ReportRunning(w) \/ ReportOutcome(w) \/ Mark(w)
  <2>1. pc[w] \in {"load", "enrich", "mark"} /\ cur'[w] = cur[w]
    BY <1>10 DEF Load, ReportRunning, ReportOutcome, Mark
  <2>2. Running(w) /\ pc[w] # "fail"
    BY <2>1 DEF Running, RunSteps
  <2>3. ASSUME NEW T, NEW st, NEW next, Fenced(w, Progress(cur[w], T, st), next)
        PROVE  counts'[cur'[w]] = Tally(tgt'[cur'[w]])
    <3>1. Goto(w, "fail") => pc'[w] = "fail"
      BY <1>1 DEF Steps, RunSteps
    <3> QED
      BY <1>4, <2>1, <2>2, <2>3, <3>1 DEF Fenced
  <2>4. \/ \E T, st, next : Fenced(w, Progress(cur[w], T, st), next)
        \/ UNCHANGED storeVars
    BY <1>10 DEF Load, ReportRunning, ReportOutcome, Mark, MarkUnreported, Fenced
  <2> QED
    BY <1>5, <2>1, <2>2, <2>3, <2>4 DEF storeVars
<1>11. CASE ReportUnanswered(w)
  <2>1. PICK s, o : Progress(cur[w], {s}, o)
    BY <1>11 DEF ReportUnanswered
  <2>2. Running(w) /\ cur'[w] = cur[w]
    BY <1>11 DEF ReportUnanswered, Running, RunSteps
  <2> QED
    BY <1>4, <2>1, <2>2
<1>12. CASE \/ EnrichDone(w) \/ Select(w) \/ VerdictReject(w) \/ VerdictSkip(w)
            \/ VerdictDone(w) \/ BreakerTrips(w)
  <2>1. pc[w] \in RunSteps \ {"fail"} /\ UNCHANGED storeVars /\ cur'[w] = cur[w]
    BY <1>12
    DEF EnrichDone, Select, VerdictReject, VerdictSkip, VerdictDone, BreakerTrips, RunSteps
  <2> QED
    BY <1>5, <2>1 DEF storeVars, Running
<1>13. CASE SaveResult(w) \/ HideBrand(w) \/ SoftDeadline(w) \/ Heartbeat(w)
  <2>1. UNCHANGED <<status, token, tgt, counts, pc, cur>>
    BY <1>13 DEF SaveResult, HideBrand, SoftDeadline, Heartbeat, Beat, storeVars
  <2>2. Running(w) /\ pc[w] # "fail"
    BY <2>1 DEF Running
  <2> QED
    BY <1>5, <2>1, <2>2
<1>14. CASE HardCap(w)
  <2>1. pc' = pc /\ cur' = cur /\ Cancel({cur[w]})
    BY <1>14 DEF HardCap
  <2>2. Running(w) /\ pc[w] # "fail" /\ cur[w] \in JobId
    BY <1>0, <2>1 DEF Running, LocalInv, HasJob
  <2> QED
    BY <1>0, <2>1, <2>2, CancelCounts, CancelOne DEF RunCounted, Owns
<1> QED
  BY <1>6, <1>7, <1>8, <1>9, <1>10, <1>11, <1>12, <1>13, <1>14
  DEF Acts, WorkerStep, CliStep, RunStep, RunEvent

\* Only the process that runs a job completes it, with the counters in order.
LEMMA CompletionCounts ==
  ASSUME WorkerInv, CountInv, NEW w \in Workers, Acts(w), NEW j \in JobId,
         status[j] = "running", status'[j] = "completed"
  PROVE  counts'[j] = Tally(tgt'[j])
<1>0. StoreTypeOK /\ pc \in [Workers -> Steps] /\ LocalInv(w)
  BY DEF WorkerInv, TypeOK
<1>1. Neutral \/ OnOwnJob(w)
  BY CronContract, CliContract, RunContract DEF Acts, WorkerStep
<1>2. OnOwnJob(w) /\ cur[w] = j /\ Running(w)
  <2>1. OnOwnJob(w)
    BY <1>0, <1>1, NeutralCounts
  <2>2. cur[w] \in JobId /\ Running(w)
    BY <1>0, <2>1 DEF OnOwnJob, LocalInv, HasJob
  <2> QED
    BY <1>0, <2>1, <2>2, OwnCounts
<1>3. CASE CompleteJob(w)
  <2>1. /\ pc[w] = "complete" /\ Owns(j, w)
        /\ Finalize(j, "completed", [Tally(tgt[j]) EXCEPT !.cancelled = counts[j].cancelled])
    BY <1>2, <1>3 DEF CompleteJob, Fenced, storeVars
  <2>2. counts[j] = Tally(tgt[j])
    BY <1>2, <2>1 DEF CountInv, RunCounted
  <2>3. [Tally(tgt[j]) EXCEPT !.cancelled = Tally(tgt[j]).cancelled] = Tally(tgt[j])
    BY DEF Tally
  <2>4. Finalize(j, "completed", Tally(tgt[j]))
    BY <2>1, <2>2, <2>3
  <2> QED
    BY <1>0, <2>4 DEF Finalize, StoreTypeOK
<1>4. ASSUME ~CompleteJob(w) PROVE FALSE
  <2>1. ASSUME status' = status PROVE FALSE
    BY <2>1
  <2> USE DEF storeVars
  <2>2. CASE CronStart(w) \/ CronStep(w) \/ CliStart(w) \/ CliStep(w)
    BY <1>0, <2>2, CronContract, CliContract, NeutralCounts
  <2>3. CASE Load(w) \/ ReportRunning(w) \/ ReportOutcome(w) \/ Mark(w)
             \/ ReportUnanswered(w) \/ Sweep(w)
    BY <2>1, <2>3
    DEF Load, ReportRunning, ReportOutcome, Mark, MarkUnreported, ReportUnanswered, Sweep,
        SweepTargets, Fenced, Progress
  <2>4. CASE \/ EnrichDone(w) \/ Select(w) \/ VerdictReject(w) \/ VerdictSkip(w)
             \/ VerdictDone(w) \/ BreakerTrips(w) \/ Throw(w) \/ Settle(w) \/ Crash(w)
             \/ SaveResult(w) \/ HideBrand(w) \/ SoftDeadline(w) \/ Heartbeat(w)
    BY <2>1, <2>4
    DEF EnrichDone, Select, VerdictReject, VerdictSkip, VerdictDone, BreakerTrips, Throw,
        Settle, Crash, SaveResult, HideBrand, SoftDeadline, Heartbeat, Beat
  <2>5. CASE FinalizeFailed(w)
    BY <1>0, <2>1, <2>5 DEF FinalizeFailed, Finalize, StoreTypeOK
  <2>6. CASE HardCap(w)
    <3>1. Cancel({cur[w]})
      BY <2>6 DEF HardCap
    <3> QED
      BY <3>1, CancelCounts
  <2>7. CASE Requeue(w)
    BY <1>2, <2>7 DEF Requeue, Running, RunSteps
  <2> QED
    BY <1>4, <2>2, <2>3, <2>4, <2>5, <2>6, <2>7 DEF Acts, WorkerStep, RunStep, RunEvent
<1> QED
  BY <1>3, <1>4

\* The counters stay in order.
LEMMA CountStep == WorkerInv /\ CountInv /\ [Next]_vars => CountInv'
<1> SUFFICES ASSUME WorkerInv, CountInv, [Next]_vars PROVE CountInv'
  OBVIOUS
<1>0. StoreInv /\ StoreTypeOK /\ [Statement]_storeVars
  BY ContractStep DEF WorkerInv, StoreInv, LeaseInv
<1>1. \A j \in JobId : JobCounted(j)' \/ (status[j] = "running" /\ status'[j] = "completed")
  BY <1>0, StatementCounts DEF CountInv
<1>2. ASSUME NEW w \in Workers, Acts(w)
      PROVE  CountInv'
  <2>1. \A j \in JobId : JobCounted(j)'
    BY <1>1, <1>2, CompletionCounts DEF JobCounted
  <2>2. ASSUME NEW v \in Workers, Running(v)', Owns(cur[v], v)', pc'[v] # "fail", v # w
        PROVE  counts'[cur'[v]] = Tally(tgt'[cur'[v]])
    <3>1. pc'[v] = pc[v] /\ cur'[v] = cur[v]
      BY <1>2, <2>2, OthersStand DEF WorkerInv, Acts
    <3>2. Running(v) /\ cur[v] \in JobId /\ RunCounted(v)
      BY <2>2, <3>1 DEF Running, WorkerInv, LocalInv, HasJob, CountInv
    <3>3. Neutral \/ OnOwnJob(w)
      BY <1>2, CronContract, CliContract, RunContract DEF Acts, WorkerStep
    <3>4. status[cur[v]] = "running" /\ Owns(cur[v], v)
      <4>1. Owns(cur[v], v) \/ status[cur[v]] = "cancelled"
        BY <3>2 DEF WorkerInv, LocalInv, Held
      <4>2. status[cur[v]] = "cancelled" => status'[cur[v]] = "cancelled"
        BY <1>0, <3>2, EndedStep DEF Ended
      <4> QED
        BY <2>2, <3>1, <4>1, <4>2 DEF Owns
    <3>5. tgt'[cur[v]] = tgt[cur[v]] /\ counts'[cur[v]] = counts[cur[v]]
      <4>1. CASE Neutral
        BY <1>0, <2>2, <3>1, <3>2, <3>4, <4>1, NeutralCounts DEF Owns
      <4>2. CASE OnOwnJob(w)
        <5>1. cur[w] \in JobId /\ cur[w] # cur[v]
          BY <2>2, <3>2, <4>2 DEF OnOwnJob, WorkerInv, Sole, LocalInv, HasJob
        <5> QED
          BY <1>0, <3>2, <4>2, <5>1, OwnCounts
      <4> QED
        BY <3>3, <4>1, <4>2
    <3> QED
      BY <2>2, <3>1, <3>2, <3>4, <3>5 DEF RunCounted
  <2>3. \A v \in Workers : RunCounted(v)'
    BY <1>2, <2>2, RunCounts DEF RunCounted
  <2> QED
    BY <2>1, <2>3 DEF CountInv
<1>3. CASE AdminStep \/ TimeStep \/ UNCHANGED vars
  <2>1. UNCHANGED <<pc, cur>>
    BY <1>3
    DEF AdminStep, TimeStep, AdminEnqueue, AdminRecover, Redispatch, DispatchAccepted,
        DispatchRefused, AdminCancel, Approve, ApplyRefresh, AdminReject, NextSlot, Lapse,
        BecomeDue, localVars, vars
  <2>2. Neutral
    BY <1>3, OutsideContract DEF Neutral, vars, storeVars
  <2>3. \A j \in JobId : JobCounted(j)'
    BY <1>0, <1>1, <2>2, NeutralCounts DEF JobCounted
  <2>4. ASSUME NEW v \in Workers, Running(v), Owns(cur[v], v)', pc[v] # "fail"
        PROVE  counts'[cur[v]] = Tally(tgt'[cur[v]])
    <3>1. cur[v] \in JobId /\ (Owns(cur[v], v) \/ status[cur[v]] = "cancelled")
      BY <2>4 DEF WorkerInv, LocalInv, HasJob, Held
    <3>2. status[cur[v]] = "cancelled" => status'[cur[v]] = "cancelled"
      BY <1>0, <3>1, EndedStep DEF Ended
    <3>3. Owns(cur[v], v) /\ status'[cur[v]] = "running"
      BY <2>1, <2>4, <3>1, <3>2 DEF Owns
    <3> QED
      BY <1>0, <2>2, <2>4, <3>1, <3>3, NeutralCounts DEF Owns, CountInv, RunCounted
  <2>5. \A v \in Workers : RunCounted(v)'
    BY <2>1, <2>4 DEF RunCounted, Running
  <2> QED
    BY <2>3, <2>5 DEF CountInv
<1> QED
  BY <1>2, <1>3 DEF Next, Acts

\* The counters of a job that completed or was cancelled agree with its target
\* rows, whether the progress RPC, finalizeCurationJob or the cancel wrote them.
THEOREM CountsAgree == Spec => []CountsMatch
<1>1. Init => CountInv
  <2> SUFFICES ASSUME Init PROVE CountInv
    OBVIOUS
  <2>1. Tally(NoRow) = ZeroTally
    <3>1. \A P : {s \in Submissions : NoRow[s] \in P} = {} \/ "none" \in P
      BY DEF NoRow
    <3>2. /\ {s \in Submissions : NoRow[s] = "succeeded"} = {}
          /\ {s \in Submissions : NoRow[s] \in Skips} = {}
          /\ {s \in Submissions : NoRow[s] = "failed"} = {}
          /\ {s \in Submissions : NoRow[s] = "cancelled"} = {}
      BY DEF NoRow, Skips
    <3> QED
      BY <3>2, FS_EmptySet DEF Tally, ZeroTally
  <2> QED
    BY <2>1 DEF Init, StoreInit, CountInv, JobCounted, RunCounted, Running, RunSteps
<1>2. CountInv => CountsMatch
  BY DEF CountInv, JobCounted, CountsMatch
<1> QED
  BY <1>1, <1>2, CountStep, WorkerInvariant, PTL DEF Spec


-----------------------------------------------------------------------------
(* The verdicts *)

\* A report makes a target failed only if it says so, of that very target.
LEMMA ProgressFails ==
  ASSUME StoreTypeOK, NEW i \in JobId, NEW T, NEW st, Progress(i, T, st),
         NEW j \in JobId, NEW s \in Submissions, tgt[j][s] # "failed",
         i # j \/ s \notin T \/ st # "failed"
  PROVE  tgt'[j][s] # "failed"
BY DEF Progress, StoreTypeOK

\* A neutral statement makes no target failed.
LEMMA NeutralFails ==
  ASSUME StoreTypeOK, Neutral, NEW j \in JobId, NEW s \in Submissions, tgt[j][s] # "failed"
  PROVE  tgt'[j][s] # "failed"
<1>1. CASE Cancels
  <2>1. PICK J : Cancel(J)
    BY <1>1 DEF Cancels
  <2>2. tgt'[j] = tgt[j] \/ tgt'[j] = CancelledRow(tgt[j])
    BY <2>1, CancelOne
  <2> QED
    BY <2>2 DEF CancelledRow
<1>2. ASSUME NEW i \in JobId, Inserts(i) PROVE tgt'[j][s] # "failed"
  <2>1. PICK T : Insert(i, meta'[i], due'[i], T)
    BY <1>2 DEF Inserts
  <2> QED
    BY <2>1 DEF Insert, StoreTypeOK
<1>3. ASSUME NEW i \in JobId, \/ Ages(i) \/ MarkDispatched(i) \/ RecordDispatchFailure(i)
                              \/ \E w \in Workers : Claim(i, w)
      PROVE  tgt'[j][s] # "failed"
  BY <1>3 DEF Ages, MarkDispatched, RecordDispatchFailure, Claim
<1>4. CASE UNCHANGED storeVars
  BY <1>4 DEF storeVars
<1> QED
  BY <1>1, <1>2, <1>3, <1>4 DEF Neutral

\* A process makes a target failed only while it has it in hand.
LEMMA ActsFails ==
  ASSUME WorkerInv, NEW w \in Workers, Acts(w), NEW j \in JobId, NEW s \in Submissions,
         tgt[j][s] # "failed",
         ~(pc[w] \in {"enrich", "fail"} /\ cur[w] = j /\ s \in work[w])
  PROVE  tgt'[j][s] # "failed"
<1>0. StoreTypeOK /\ (Running(w) => cur[w] \in JobId)
  BY DEF WorkerInv, TypeOK, LocalInv, HasJob
<1>1. CASE CronStart(w) \/ CronStep(w) \/ CliStart(w) \/ CliStep(w) \/ Requeue(w) \/ HardCap(w)
  <2>1. CASE Requeue(w)
    <3>1. ~OnOwnJob(w)
      BY <2>1 DEF Requeue, OnOwnJob, Running, RunSteps
    <3> QED
      BY <1>0, <2>1, <3>1, RunContract, NeutralFails DEF RunStep
  <2>2. CASE HardCap(w)
    <3>1. Cancel({cur[w]})
      BY <2>2 DEF HardCap
    <3>2. tgt'[j] = tgt[j] \/ tgt'[j] = CancelledRow(tgt[j])
      BY <3>1, CancelOne
    <3> QED
      BY <3>2 DEF CancelledRow
  <2> QED
    BY <1>0, <1>1, <2>1, <2>2, CronContract, CliContract, NeutralFails
<1>2. CASE Load(w) \/ ReportRunning(w) \/ ReportOutcome(w) \/ Mark(w)
  <2>1. Running(w)
    BY <1>2 DEF Load, ReportRunning, ReportOutcome, Mark, Running, RunSteps
  <2>2. ASSUME NEW T, NEW st, NEW next, Fenced(w, Progress(cur[w], T, st), next),
               cur[w] # j \/ s \notin T \/ st # "failed"
        PROVE  tgt'[j][s] # "failed"
    BY <1>0, <2>1, <2>2, ProgressFails DEF Fenced, storeVars
  <2>3. CASE Load(w)
    <3>1. (\E T, next : Fenced(w, Progress(cur[w], T, "skipped"), next)) \/ UNCHANGED storeVars
      BY <2>3 DEF Load
    <3> QED
      BY <2>2, <3>1 DEF storeVars
  <2>4. CASE ReportRunning(w)
    <3>1. \E T : Fenced(w, Progress(cur[w], T, "running"), "enrich")
      BY <2>4 DEF ReportRunning
    <3> QED
      BY <2>2, <3>1
  <2>5. CASE Mark(w)
    <3>1. Fenced(w, Progress(cur[w], OpenTargets(cur[w]), "skipped"), "select")
      BY <2>5 DEF Mark, MarkUnreported
    <3> QED
      BY <2>2, <3>1
  <2>6. CASE ReportOutcome(w)
    <3>1. PICK r \in work[w] : \E o : Fenced(w, Progress(cur[w], {r}, o), "enrich")
      BY <2>6 DEF ReportOutcome
    <3>2. pc[w] = "enrich"
      BY <2>6 DEF ReportOutcome
    <3> QED
      BY <2>2, <3>1, <3>2
  <2> QED
    BY <1>2, <2>3, <2>4, <2>5, <2>6
<1>3. CASE ReportUnanswered(w)
  <2>1. PICK r \in work[w] : \E o : Progress(cur[w], {r}, o)
    BY <1>3 DEF ReportUnanswered
  <2>2. pc[w] \in {"enrich", "fail"} /\ Running(w)
    BY <1>3 DEF ReportUnanswered, Running, RunSteps
  <2> QED
    BY <1>0, <2>1, <2>2, ProgressFails
<1>4. CASE CompleteJob(w) \/ FinalizeFailed(w)
  BY <1>4 DEF CompleteJob, FinalizeFailed, Fenced, Finalize, storeVars
<1>5. CASE Sweep(w)
  <2>1. Running(w) /\ (SweepTargets(cur[w]) \/ UNCHANGED storeVars)
    BY <1>5 DEF Sweep, Running, RunSteps
  <2> QED
    BY <1>0, <2>1 DEF SweepTargets, CancelledRow, StoreTypeOK, storeVars
<1>6. CASE \/ EnrichDone(w) \/ Select(w) \/ VerdictReject(w) \/ VerdictSkip(w)
           \/ VerdictDone(w) \/ BreakerTrips(w) \/ Throw(w) \/ Settle(w) \/ Crash(w)
           \/ SaveResult(w) \/ HideBrand(w) \/ SoftDeadline(w) \/ Heartbeat(w)
  BY <1>6
  DEF EnrichDone, Select, VerdictReject, VerdictSkip, VerdictDone, BreakerTrips, Throw,
      Settle, Crash, SaveResult, HideBrand, SoftDeadline, Heartbeat, Beat, storeVars
<1> QED
  BY <1>1, <1>2, <1>3, <1>4, <1>5, <1>6 DEF Acts, WorkerStep, RunStep, RunEvent

\* A target without a channel stays so, unless a step makes it failed.
LEMMA ConclusiveStays ==
  ASSUME StoreInv, [Statement]_storeVars, NEW j \in JobId, NEW s \in Submissions,
         tgt[j][s] = "nochannel", tgt'[j][s] # "failed"
  PROVE  tgt'[j][s] = "nochannel" /\ meta'[j] = meta[j]
<1>1. tgt'[j][s] = "nochannel"
  BY OutcomeStep DEF Settled, Skips
<1>2. Exists(j)
  BY DEF StoreInv, Untouched, NoRow, Exists
<1>3. Exists(j)'
  BY <1>1, <1>2, StoreStep DEF StoreInv, Untouched, NoRow, Exists
<1> QED
  BY <1>1, <1>2, <1>3, RequestStep

\* A process takes up pending submissions only.
LEMMA WorkGrows ==
  ASSUME WorkerInv, NEW w \in Workers, Acts(w), Running(w)', NEW s \in work'[w]
  PROVE  (Running(w) /\ cur'[w] = cur[w] /\ s \in work[w]) \/ sub[s] = "pending"
<1>0. /\ work \in [Workers -> SUBSET Submissions] /\ pc \in [Workers -> Steps]
      /\ (pc[w] \in {"claim", "claimOwn"} => work[w] = {})
  BY DEF WorkerInv, TypeOK, LocalInv, InHand
<1>1. CASE CronStart(w) \/ (CronStep(w) /\ ~ClaimNext(w)) \/ CliStart(w) \/ ClaimOwnFails(w)
           \/ Requeue(w) \/ Settle(w) \/ Crash(w)
  BY <1>0, <1>1
  DEF CronStart, CronStep, RecoverStale, ReadFailed, RetryOne, RetriesDone, ScanPending,
      EnqueueScheduled, ClaimNothing, CliStart, ClaimOwnFails, Requeue, Settle, Crash,
      Goto, Running, Steps, CronSteps, RunSteps
<1>2. CASE ClaimNext(w) \/ ClaimOwn(w)
  BY <1>0, <1>2 DEF ClaimNext, ClaimOwn
<1>3. CASE Load(w) \/ Select(w)
  BY <1>0, <1>3
  DEF Load, Select, VerdictTargets, PendingSubmissions, Running, RunSteps
<1>4. CASE \/ ReportOutcome(w) \/ EnrichDone(w) \/ BreakerTrips(w) \/ VerdictReject(w)
           \/ VerdictSkip(w)
  <2>1. work'[w] \subseteq work[w] /\ cur'[w] = cur[w] /\ Running(w)
    BY <1>0, <1>4
    DEF ReportOutcome, EnrichDone, BreakerTrips, VerdictReject, VerdictSkip, Running, RunSteps
  <2> QED
    BY <2>1
<1>5. CASE \/ ReportRunning(w) \/ ReportUnanswered(w) \/ Throw(w) \/ Mark(w) \/ VerdictDone(w)
           \/ CompleteJob(w) \/ Sweep(w) \/ FinalizeFailed(w)
  <2>1. work'[w] = work[w] /\ cur'[w] = cur[w] /\ Running(w)
    BY <1>5
    DEF ReportRunning, ReportUnanswered, Throw, Mark, VerdictDone, CompleteJob, Sweep,
        FinalizeFailed, localVars, Running, RunSteps
  <2> QED
    BY <2>1
<1>6. CASE SaveResult(w) \/ HideBrand(w) \/ SoftDeadline(w) \/ Heartbeat(w) \/ HardCap(w)
  <2>1. work' = work /\ cur' = cur /\ pc' = pc
    BY <1>6 DEF SaveResult, HideBrand, SoftDeadline, Heartbeat, HardCap, localVars
  <2> QED
    BY <2>1 DEF Running
<1> QED
  BY <1>1, <1>2, <1>3, <1>4, <1>5, <1>6 DEF Acts, WorkerStep, CliStep, RunStep, RunEvent

\* The verdict pass takes the targets without a channel of a job that may
\* write, and then only leaves some of them.
LEMMA VerdictHand ==
  ASSUME WorkerInv, NEW w \in Workers, Acts(w), pc'[w] = "verdict"
  PROVE  /\ cur'[w] = cur[w]
         /\ \/ pc[w] = "verdict" /\ work'[w] \subseteq work[w]
            \/ /\ ~meta[cur[w]].dry /\ cur[w] \in JobId /\ UNCHANGED storeVars
               /\ \A s \in work'[w] : tgt[cur[w]][s] = "nochannel"
<1>0. /\ work \in [Workers -> SUBSET Submissions] /\ pc \in [Workers -> Steps]
      /\ (Running(w) => cur[w] \in JobId)
  BY DEF WorkerInv, TypeOK, LocalInv, HasJob
<1> USE DEF Goto, Fenced, Steps, CronSteps, RunSteps
<1>1. CASE CronStart(w) \/ CronStep(w) \/ CliStart(w) \/ CliStep(w)
  BY <1>0, <1>1
  DEF CronStart, CronStep, RecoverStale, ReadFailed, RetryOne, RetriesDone, ScanPending,
      EnqueueScheduled, ClaimNext, ClaimNothing, CliStart, CliStep, ClaimOwn, ClaimOwnFails
<1>2. CASE Load(w) \/ ReportOutcome(w) \/ EnrichDone(w) \/ Mark(w) \/ VerdictDone(w)
           \/ CompleteJob(w) \/ Sweep(w) \/ FinalizeFailed(w) \/ Requeue(w) \/ Settle(w)
  BY <1>0, <1>2
  DEF Load, ReportOutcome, EnrichDone, Mark, VerdictDone, CompleteJob, Sweep, FinalizeFailed,
      Requeue, Settle
<1>3. CASE ReportRunning(w) \/ BreakerTrips(w) \/ Throw(w) \/ Crash(w)
  BY <1>0, <1>3 DEF ReportRunning, BreakerTrips, Throw, Crash
<1>4. CASE VerdictReject(w) \/ VerdictSkip(w)
  BY <1>0, <1>4 DEF VerdictReject, VerdictSkip
<1>5. CASE Select(w)
  BY <1>0, <1>5 DEF Select, VerdictTargets, Running
<1>6. CASE Heartbeat(w) \/ SaveResult(w) \/ ReportUnanswered(w) \/ HideBrand(w)
           \/ SoftDeadline(w) \/ HardCap(w)
  BY <1>6
  DEF Heartbeat, SaveResult, ReportUnanswered, HideBrand, SoftDeadline, HardCap, localVars
<1> QED
  BY <1>1, <1>2, <1>3, <1>4, <1>5, <1>6 DEF Acts, WorkerStep, RunStep, RunEvent

\* A submission is delisted by a verdict pass that has it in hand, and lets go.
LEMMA DelistStep ==
  ASSUME TypeOK, [Next]_vars, NEW s \in Submissions, sub[s] # "delisted", sub'[s] = "delisted"
  PROVE  \E w \in Workers : /\ Acts(w) /\ pc[w] = "verdict" /\ s \in work[w]
                            /\ UNCHANGED <<storeVars, pc, cur>> /\ s \notin work'[w]
<1>1. ASSUME NEW w \in Workers, Acts(w), ~VerdictReject(w) PROVE sub' = sub
  <2> USE DEF reviewVars
  <2>1. CASE CronStart(w) \/ CronStep(w) \/ CliStart(w) \/ CliStep(w)
    BY <2>1
    DEF CronStart, CronStep, RecoverStale, ReadFailed, RetryOne, RetriesDone, ScanPending,
        EnqueueScheduled, ClaimNext, ClaimNothing, CliStart, CliStep, ClaimOwn, ClaimOwnFails
  <2>2. CASE RunStep(w)
    BY <1>1, <2>2
    DEF RunStep, Load, ReportOutcome, EnrichDone, Mark, Select,
        VerdictSkip, VerdictDone, CompleteJob, Sweep, FinalizeFailed, Requeue, Settle
  <2>3. CASE RunEvent(w)
    BY <2>3
    DEF RunEvent, Heartbeat, ReportRunning, SaveResult, ReportUnanswered,
        BreakerTrips, Throw, HideBrand, SoftDeadline, HardCap, Crash
  <2> QED
    BY <1>1, <2>1, <2>2, <2>3 DEF Acts, WorkerStep
<1>2. CASE TimeStep \/ UNCHANGED vars
  BY <1>2 DEF TimeStep, NextSlot, Lapse, BecomeDue, reviewVars, vars
<1>3. CASE AdminStep
  <2>1. CASE AdminEnqueue \/ AdminRecover
    BY <2>1 DEF AdminEnqueue, AdminRecover, reviewVars
  <2>2. ASSUME NEW j \in JobId, Redispatch(j) \/ DispatchAccepted(j) \/ DispatchRefused(j)
                                \/ AdminCancel(j)
        PROVE  sub' = sub
    BY <2>2 DEF Redispatch, DispatchAccepted, DispatchRefused, AdminCancel, reviewVars
  <2>3. ASSUME NEW r \in Submissions, Approve(r) \/ ApplyRefresh(r) \/ AdminReject(r)
        PROVE  FALSE
    BY <2>3 DEF Approve, ApplyRefresh, AdminReject, TypeOK
  <2> QED
    BY <1>3, <2>1, <2>2, <2>3 DEF AdminStep
<1>4. PICK w \in Workers : Acts(w) /\ VerdictReject(w)
  BY <1>1, <1>2, <1>3 DEF Next, Acts
<1>5. PICK r \in work[w] : /\ sub' = [sub EXCEPT ![r] = "delisted"]
                           /\ work' = [work EXCEPT ![w] = @ \ {r}]
  BY <1>4 DEF VerdictReject
<1>6. r = s /\ s \notin work'[w]
  BY <1>5 DEF TypeOK
<1> QED
  BY <1>4, <1>5, <1>6 DEF VerdictReject

\* What justifies a rejection already made goes on to justify it.
LEMMA JustifiedStays ==
  ASSUME WorkerInv, [Next]_vars, NEW j \in JobId, NEW s \in Submissions,
         Justifies(j, s), sub[s] = "delisted"
  PROVE  Justifies(j, s)'
<1>0. StoreInv /\ StoreTypeOK /\ [Statement]_storeVars
  BY ContractStep DEF WorkerInv, StoreInv, LeaseInv
<1>1. tgt'[j][s] # "failed"
  <2>1. ASSUME NEW w \in Workers, Acts(w) PROVE tgt'[j][s] # "failed"
    <3>1. ~(pc[w] \in {"enrich", "fail"} /\ cur[w] = j /\ s \in work[w])
      BY DEF Justifies, Running, RunSteps
    <3> QED
      BY <2>1, <3>1, ActsFails DEF Justifies
  <2>2. CASE AdminStep \/ TimeStep
    BY <1>0, <2>2, OutsideContract, NeutralFails DEF Justifies
  <2>3. CASE UNCHANGED vars
    BY <2>3 DEF vars, Justifies
  <2> QED
    BY <2>1, <2>2, <2>3 DEF Next, Acts
<1>2. tgt'[j][s] = "nochannel" /\ meta'[j] = meta[j]
  BY <1>0, <1>1, ConclusiveStays DEF Justifies
<1>3. ASSUME NEW v \in Workers, Running(v)', cur'[v] = j, s \in work'[v] PROVE FALSE
  <2>1. CASE Running(v) /\ cur'[v] = cur[v] /\ s \in work[v]
    BY <1>3, <2>1 DEF Justifies
  <2>2. ASSUME NEW w \in Workers, Acts(w) PROVE FALSE
    <3>1. CASE v = w
      BY <1>3, <2>1, <2>2, <3>1, WorkGrows
    <3>2. CASE v # w
      BY <1>3, <2>1, <2>2, <3>2, OthersStand DEF WorkerInv, Acts, Running
    <3> QED
      BY <3>1, <3>2
  <2>3. CASE AdminStep \/ TimeStep \/ UNCHANGED vars
    <3>1. UNCHANGED <<pc, cur, work>>
      BY <2>3
      DEF AdminStep, TimeStep, AdminEnqueue, AdminRecover, Redispatch, DispatchAccepted,
          DispatchRefused, AdminCancel, Approve, ApplyRefresh, AdminReject, NextSlot, Lapse,
          BecomeDue, localVars, vars
    <3> QED
      BY <1>3, <2>1, <3>1 DEF Running
  <2> QED
    BY <2>2, <2>3 DEF Next, Acts
<1> QED
  BY <1>2, <1>3 DEF Justifies

\* What the verdict pass has in hand stays without a channel.
LEMMA HandStays ==
  ASSUME WorkerInv, [Next]_vars, NEW w \in Workers, InVerdict(w)
  PROVE  InVerdict(w)'
<1> SUFFICES ASSUME pc'[w] = "verdict"
             PROVE  ~meta'[cur'[w]].dry /\ \A s \in work'[w] : tgt'[cur'[w]][s] = "nochannel"
  BY DEF InVerdict
<1>0. /\ StoreInv /\ StoreTypeOK /\ [Statement]_storeVars
      /\ work \in [Workers -> SUBSET Submissions]
  BY ContractStep DEF WorkerInv, StoreInv, LeaseInv, TypeOK
<1>1. ASSUME pc[w] = "verdict", cur'[w] = cur[w], work'[w] \subseteq work[w],
             \A s \in work[w] : tgt'[cur[w]][s] # "failed"
      PROVE  ~meta'[cur'[w]].dry /\ \A s \in work'[w] : tgt'[cur'[w]][s] = "nochannel"
  <2>1. cur[w] \in JobId /\ (Owns(cur[w], w) \/ status[cur[w]] = "cancelled")
    BY <1>1 DEF WorkerInv, LocalInv, HasJob, Held, Running, RunSteps
  <2>2. Exists(cur[w])
    BY <2>1 DEF Owns, Exists
  <2>3. Exists(cur[w])'
    BY <1>1, WorkerInvStep DEF WorkerInv, LocalInv, Held, Running, RunSteps, Owns, Exists
  <2>4. meta'[cur[w]] = meta[cur[w]]
    <3>1. \A j \in JobId : Exists(j)' /\ Exists(j) => meta'[j] = meta[j]
      BY <1>0, RequestStep
    <3> QED
      BY <1>1, <2>1, <2>2, <2>3, <3>1 DEF Exists
  <2>5. \A s \in work'[w] : tgt'[cur[w]][s] = "nochannel"
    BY <1>0, <1>1, <2>1, ConclusiveStays DEF InVerdict
  <2> QED
    BY <1>1, <2>4, <2>5 DEF InVerdict
<1>2. CASE Acts(w)
  <2>1. CASE pc[w] = "verdict" /\ work'[w] \subseteq work[w] /\ cur'[w] = cur[w]
    <3>1. cur[w] \in JobId /\ \A s \in work[w] : s \in Submissions /\ tgt[cur[w]][s] # "failed"
      BY <1>0, <2>1 DEF WorkerInv, LocalInv, HasJob, Running, RunSteps, InVerdict
    <3>2. \A s \in work[w] : tgt'[cur[w]][s] # "failed"
      BY <1>2, <2>1, <3>1, ActsFails
    <3> QED
      BY <1>1, <2>1, <3>2
  <2> QED
    BY <1>2, <2>1, VerdictHand DEF storeVars
<1>3. ASSUME NEW v \in Workers \ {w}, Acts(v)
      PROVE  ~meta'[cur'[w]].dry /\ \A s \in work'[w] : tgt'[cur'[w]][s] = "nochannel"
  <2>1. pc[w] = "verdict" /\ cur'[w] = cur[w] /\ work'[w] = work[w]
    BY <1>3, OthersStand DEF WorkerInv, Acts
  <2>2. cur[w] \in JobId /\ \A s \in work[w] : s \in Submissions /\ tgt[cur[w]][s] # "failed"
    BY <1>0, <2>1 DEF WorkerInv, LocalInv, HasJob, Running, RunSteps, InVerdict
  <2>3. ~(pc[v] \in {"enrich", "fail"} /\ cur[v] = cur[w])
    BY <2>1 DEF WorkerInv, Sole, Running, RunSteps
  <2>4. \A s \in work[w] : tgt'[cur[w]][s] # "failed"
    BY <1>3, <2>2, <2>3, ActsFails
  <2> QED
    BY <1>1, <2>1, <2>4
<1>4. CASE AdminStep \/ TimeStep \/ UNCHANGED vars
  <2>1. UNCHANGED <<pc, cur, work>>
    BY <1>4
    DEF AdminStep, TimeStep, AdminEnqueue, AdminRecover, Redispatch, DispatchAccepted,
        DispatchRefused, AdminCancel, Approve, ApplyRefresh, AdminReject, NextSlot, Lapse,
        BecomeDue, localVars, vars
  <2>2. Neutral
    BY <1>4, OutsideContract DEF Neutral, vars, storeVars
  <2>3. cur[w] \in JobId /\ \A s \in work[w] : s \in Submissions /\ tgt[cur[w]][s] # "failed"
    BY <1>0, <2>1 DEF WorkerInv, LocalInv, HasJob, Running, RunSteps, InVerdict
  <2>4. \A s \in work[w] : tgt'[cur[w]][s] # "failed"
    BY <1>0, <2>2, <2>3, NeutralFails
  <2> QED
    BY <1>1, <2>1, <2>4
<1> QED
  BY <1>2, <1>3, <1>4 DEF Next, Acts

\* Every step keeps the verdicts justified.
LEMMA VerdictStep == WorkerInv /\ VerdictInv /\ [Next]_vars => VerdictInv'
<1> SUFFICES ASSUME WorkerInv, VerdictInv, [Next]_vars PROVE VerdictInv'
  OBVIOUS
<1>1. \A w \in Workers : InVerdict(w)'
  BY HandStays DEF VerdictInv
<1>2. ASSUME NEW s \in Submissions, sub'[s] = "delisted"
      PROVE  \E j \in JobId : Justifies(j, s)'
  <2>1. CASE sub[s] = "delisted"
    BY <2>1, JustifiedStays DEF VerdictInv
  <2>2. CASE sub[s] # "delisted"
    <3>1. PICK w \in Workers : /\ Acts(w) /\ pc[w] = "verdict" /\ s \in work[w]
                               /\ UNCHANGED <<storeVars, pc, cur>> /\ s \notin work'[w]
      BY <1>2, <2>2, DelistStep DEF WorkerInv
    <3>2. Running(w) /\ cur[w] \in JobId /\ ~meta[cur[w]].dry /\ tgt[cur[w]][s] = "nochannel"
      BY <3>1 DEF WorkerInv, LocalInv, HasJob, Running, RunSteps, VerdictInv, InVerdict
    <3>3. \A v \in Workers \ {w} : Running(v)' => cur'[v] # cur[w]
      BY <3>1, <3>2 DEF WorkerInv, Sole, Running
    <3> QED
      BY <3>1, <3>2, <3>3 DEF Justifies, storeVars
  <2> QED
    BY <2>1, <2>2
<1> QED
  BY <1>1, <1>2 DEF VerdictInv

\* A submission the verdict pass rejected has a conclusive target in a job that
\* was not a dry run: no report, retry, cancel or other process takes the
\* ground of the rejection away, although the pass itself holds no lease.
THEOREM VerdictsJustified == Spec => []VerdictJustified
<1>1. Init => VerdictInv
  BY DEF Init, VerdictInv, InVerdict
<1>2. VerdictInv => VerdictJustified
  BY DEF VerdictInv, Justifies, VerdictJustified
<1> QED
  BY <1>1, <1>2, VerdictStep, WorkerInvariant, PTL DEF Spec
=============================================================================
