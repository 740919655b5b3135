------------------------ MODULE CurationWorkerProof ------------------------
(***************************************************************************)
(* The processes of CurationWorker keep the contract of the job tables, so *)
(* what CurationJobsProof proves of the contract holds of them, and no two *)
(* of them run the same job.                                               *)
(***************************************************************************)
EXTENDS CurationWorker, CurationJobsProof

-----------------------------------------------------------------------------
(* The inductive invariant: what a process may count on at each step *)

\* From the claim, or the insert of its own job, to the end it has a job.
HasJob(w) ==
  Running(w) \/ pc[w] \in {"claimOwn", "requeue", "settle"} => cur[w] \in JobId

\* The job it runs is its own, or was cancelled under it.
Held(w) == Running(w) => Owns(cur[w], w) \/ status[cur[w]] = "cancelled"

\* It handles targets of its job only, and starts with none.
InHand(w) ==
  /\ pc[w] \in {"idle", "claim", "claimOwn"} => work[w] = {}
  /\ Running(w) => work[w] \subseteq TargetsOf(cur[w])

\* Before the load no target has an outcome, after the mark each has one.
Progressed(w) ==
  Running(w) /\ Owns(cur[w], w) =>
    /\ pc[w] = "load" => TargetsOf(cur[w]) \subseteq OpenTargets(cur[w])
    /\ pc[w] \in {"select", "verdict", "complete"} => OpenTargets(cur[w]) = {}

\* What it is about to retry has failed.
Retries(w) ==
  /\ pc[w] = "requeue" => status[cur[w]] = "failed"
  /\ \A j \in todo[w] : status[j] = "failed"

LocalInv(w) == HasJob(w) /\ Held(w) /\ InHand(w) /\ Progressed(w) /\ Retries(w)

\* Two processes run two jobs.
Sole == \A v, w \in Workers : Running(v) /\ Running(w) /\ v # w => cur[v] # cur[w]

WorkerInv == TypeOK /\ StoreInv /\ Sole /\ \A w \in Workers : LocalInv(w)

-----------------------------------------------------------------------------
(* The contract: which statements a step may send *)

\* Statements that never take a held job from its holder but by a cancel.
Neutral ==
  \/ Cancels
  \/ \E j \in JobId : \/ Inserts(j) \/ Ages(j)
                      \/ MarkDispatched(j) \/ RecordDispatchFailure(j)
                      \/ \E w \in Workers : Claim(j, w)
  \/ UNCHANGED storeVars

\* A worker reports on, finalizes or sweeps the job it runs.
OnOwnJob(w) ==
  Running(w) /\ (Reports(cur[w]) \/ Finalizes(cur[w]) \/ Sweeps(cur[w]))

\* An insert is in the contract if its row is: well typed, not there already,
\* and as a retry within what its failed parent left open.
LEMMA InsertContract ==
  ASSUME StoreTypeOK, NEW j \in JobId, NEW m \in Meta, NEW ready \in BOOLEAN,
         NEW T \in SUBSET Submissions, Insert(j, m, ready, T),
         \A k \in JobId : ~SameRequest(k, m),
         m.trigger = "automatic_retry" =>
           m.parent # NoJob /\ status[m.parent] = "failed" /\ T \subseteq OpenTargets(m.parent)
  PROVE  Inserts(j)
<1>1. meta'[j] = m /\ due'[j] = ready
  BY DEF Insert, StoreTypeOK
<1>2. tgt'[j] = [s \in Submissions |-> IF s \in T THEN "pending" ELSE "none"]
  BY DEF Insert, StoreTypeOK
<1>3. {s \in Submissions : tgt'[j][s] # "none"} = T
  BY <1>2
<1> QED
  BY <1>1, <1>3 DEF Inserts

\* The same for an enqueue, which may find its row there already.
LEMMA EnqueueContract ==
  ASSUME StoreTypeOK, NEW m \in Meta, NEW ready \in BOOLEAN,
         NEW T \in SUBSET Submissions, Enqueue(m, ready, T),
         m.trigger = "automatic_retry" =>
           m.parent # NoJob /\ status[m.parent] = "failed" /\ T \subseteq OpenTargets(m.parent)
  PROVE  Neutral
BY InsertContract DEF Enqueue, Neutral

\* A request of an admin, a script or a recovery collides with no other row.
LEMMA RequestContract ==
  ASSUME StoreTypeOK, NEW j \in JobId, NEW m \in Meta, NEW ready \in BOOLEAN,
         NEW T \in SUBSET Submissions, Insert(j, m, ready, T),
         m.slot = 0, m.trigger # "automatic_retry"
  PROVE  Neutral
BY InsertContract DEF SameRequest, Neutral

\* The retry of a failed job.
LEMMA RetryContract ==
  ASSUME StoreTypeOK, NEW j \in JobId, status[j] = "failed", EnqueueRetry(j)
  PROVE  Neutral
<1>1. CASE ~Retriable(j)
  BY <1>1 DEF EnqueueRetry, Neutral
<1>2. CASE Retriable(j)
  <2>1. meta[j] \in Meta
    BY DEF StoreTypeOK
  <2>2. RetryMeta(j) \in Meta
    BY <1>2, <2>1, JobsAssumption
    DEF Retriable, RetryMeta, Meta, Trigger, JobId
  <2>3. /\ RetryMeta(j).parent = j
        /\ OpenTargets(j) \in SUBSET Submissions
        /\ j # NoJob
    BY DEF RetryMeta, OpenTargets, JobId, NoJob
  <2>4. Enqueue(RetryMeta(j), FALSE, OpenTargets(j))
    BY <1>2 DEF EnqueueRetry
  <2> QED
    BY <2>2, <2>3, <2>4, EnqueueContract
<1> QED
  BY <1>1, <1>2

\* A fenced report of targets in hand.
LEMMA ReportContract ==
  ASSUME WorkerInv, NEW w \in Workers, Running(w), NEW next,
         NEW T \in SUBSET TargetsOf(cur[w]), NEW st \in Settled \cup {"running"},
         st # "failed" /\ Owns(cur[w], w) => T \subseteq OpenTargets(cur[w]),
         Fenced(w, Progress(cur[w], T, st), next)
  PROVE  OnOwnJob(w) \/ UNCHANGED storeVars
BY DEF Fenced, OnOwnJob, Reports, Owns

\* The cron execution outside a run.
LEMMA CronContract ==
  ASSUME WorkerInv, NEW w \in Workers, CronStart(w) \/ CronStep(w)
  PROVE  Neutral
<1> USE DEF WorkerInv, TypeOK
<1>1. CASE RecoverStale(w)
  BY <1>1 DEF RecoverStale, Neutral, Cancels
<1>2. CASE RetryOne(w)
  <2>1. PICK j \in todo[w] : EnqueueRetry(j)
    BY <1>2 DEF RetryOne
  <2>2. j \in JobId /\ status[j] = "failed"
    BY <2>1 DEF LocalInv, Retries
  <2> QED
    BY <2>1, <2>2, RetryContract
<1>3. CASE EnqueueScheduled(w)
  <2>1. SlotMeta(slot[w]) \in Meta
    BY JobsAssumption DEF SlotMeta, Meta, Trigger, NoJob
  <2>2. SlotMeta(slot[w]).trigger # "automatic_retry"
    BY DEF SlotMeta
  <2> QED
    BY <1>3, <2>1, <2>2, EnqueueContract DEF EnqueueScheduled
<1>4. CASE ClaimNext(w)
  BY <1>4 DEF ClaimNext, Neutral
<1>5. CASE \/ CronStart(w) \/ ReadFailed(w) \/ RetriesDone(w) \/ ScanPending(w)
           \/ ClaimNothing(w)
  BY <1>5
  DEF CronStart, ReadFailed, RetriesDone, ScanPending, ClaimNothing, Neutral
<1> QED
  BY <1>1, <1>2, <1>3, <1>4, <1>5 DEF CronStep

\* A request for a run, of an admin or a script.
LEMMA AdminMetaType ==
  \A dry \in BOOLEAN : /\ AdminMeta(dry) \in Meta
                       /\ AdminMeta(dry).slot = 0
                       /\ AdminMeta(dry).trigger # "automatic_retry"
BY JobsAssumption DEF AdminMeta, Meta, Trigger, NoJob

\* The scripts outside a run.
LEMMA CliContract ==
  ASSUME WorkerInv, NEW w \in Workers, CliStart(w) \/ CliStep(w)
  PROVE  Neutral
<1> USE DEF WorkerInv, TypeOK
<1>1. CASE CliStart(w)
  <2>1. PICK T \in SUBSET PendingSubmissions \ {{}}, j \in JobId :
          Insert(j, AdminMeta(FALSE), TRUE, T)
    BY <1>1 DEF CliStart
  <2>2. T \in SUBSET Submissions
    BY DEF PendingSubmissions
  <2> QED
    BY <2>1, <2>2, AdminMetaType, RequestContract
<1>2. CASE ClaimOwn(w)
  BY <1>2 DEF ClaimOwn, Neutral, LocalInv, HasJob
<1>3. CASE ClaimOwnFails(w)
  BY <1>3 DEF ClaimOwnFails, Neutral
<1> QED
  BY <1>1, <1>2, <1>3 DEF CliStep

\* The admin, and time.
LEMMA OutsideContract ==
  ASSUME WorkerInv, AdminStep \/ TimeStep PROVE Neutral
<1> USE DEF WorkerInv, TypeOK
<1>1. CASE AdminEnqueue
  <2>1. PICK T \in SUBSET PendingSubmissions \ {{}}, j \in JobId, dry \in DryRuns :
          Insert(j, AdminMeta(dry), TRUE, T)
    BY <1>1 DEF AdminEnqueue
  <2>2. T \in SUBSET Submissions /\ dry \in BOOLEAN
    BY WorkerAssumption DEF PendingSubmissions
  <2> QED
    BY <2>1, <2>2, AdminMetaType, RequestContract
<1>2. CASE AdminRecover
  <2>1. PICK src \in JobId, j \in JobId, T \in SUBSET Submissions :
          Insert(j, [trigger |-> "manual_rerun", attempt |-> 1, parent |-> src,
                     dry |-> meta[src].dry, slot |-> 0], TRUE, T)
    BY <1>2 DEF AdminRecover
  <2>2. meta[src] \in Meta
    BY DEF StoreTypeOK
  <2> DEFINE m == [trigger |-> "manual_rerun", attempt |-> 1, parent |-> src,
                   dry |-> meta[src].dry, slot |-> 0]
  <2>3. m \in Meta /\ m.slot = 0 /\ m.trigger # "automatic_retry"
    BY <2>2, JobsAssumption DEF Meta, Trigger, JobId
  <2> HIDE DEF m
  <2>4. Insert(j, m, TRUE, T)
    BY <2>1 DEF m
  <2> QED
    BY <2>3, <2>4, RequestContract
<1>3. ASSUME NEW j \in JobId,
             Redispatch(j) \/ DispatchAccepted(j) \/ DispatchRefused(j) \/ AdminCancel(j)
      PROVE  Neutral
  BY <1>3
  DEF Redispatch, DispatchAccepted, DispatchRefused, AdminCancel, Neutral, Cancels
<1>4. ASSUME NEW s \in Submissions, Approve(s) \/ ApplyRefresh(s) \/ AdminReject(s) PROVE Neutral
  BY <1>4 DEF Approve, ApplyRefresh, AdminReject, Neutral
<1>5. CASE NextSlot
  BY <1>5 DEF NextSlot, Neutral
<1>6. ASSUME NEW j \in JobId, Lapse(j) \/ BecomeDue(j) PROVE Neutral
  BY <1>6 DEF Lapse, BecomeDue, Neutral, Ages
<1> QED
  BY <1>1, <1>2, <1>3, <1>4, <1>5, <1>6 DEF AdminStep, TimeStep

\* A run.
LEMMA RunContract ==
  ASSUME WorkerInv, NEW w \in Workers, RunStep(w) \/ RunEvent(w)
  PROVE  Neutral \/ OnOwnJob(w)
<1> DEFINE Kept == Neutral \/ OnOwnJob(w)
<1> USE DEF WorkerInv, TypeOK
<1>0. LocalInv(w)
  OBVIOUS
<1>1. CASE Load(w)
  <2> DEFINE j == cur[w]
             gone == IF meta[j].trigger = "manual_rerun"
                       THEN TargetsOf(j) \ PendingSubmissions ELSE {}
  <2>1. Running(w) /\ gone \subseteq TargetsOf(j)
    BY <1>1 DEF Load, Running, RunSteps
  <2>2. Owns(j, w) => gone \subseteq OpenTargets(j)
    BY <1>0, <1>1, <2>1 DEF Load, LocalInv, Progressed
  <2>3. \/ \E next : Fenced(w, Progress(j, gone, "skipped"), next)
        \/ UNCHANGED storeVars
    BY <1>1 DEF Load
  <2>4. "skipped" \in Settled \cup {"running"}
    BY DEF Settled, Skips
  <2> HIDE DEF gone
  <2> QED
    BY <2>1, <2>2, <2>3, <2>4, ReportContract DEF Neutral
<1>2. CASE ReportRunning(w)
  <2>1. PICK s \in work[w] : /\ tgt[cur[w]][s] \in Open
                             /\ Fenced(w, Progress(cur[w], {s}, "running"), "enrich")
    BY <1>2 DEF ReportRunning
  <2>2. Running(w)
    BY <1>2 DEF ReportRunning, Running, RunSteps
  <2>3. {s} \in SUBSET TargetsOf(cur[w]) /\ {s} \subseteq OpenTargets(cur[w])
    BY <1>0, <2>1, <2>2 DEF LocalInv, InHand, OpenTargets
  <2> QED
    BY <2>1, <2>2, <2>3, ReportContract DEF Neutral
<1>3. CASE ReportOutcome(w) \/ ReportUnanswered(w)
  <2>1. Running(w)
    BY <1>3 DEF ReportOutcome, ReportUnanswered, Running, RunSteps
  <2>0. PICK s \in work[w] : \E o \in Outcomes(cur[w], s) \cup {"running"} :
          /\ tgt[cur[w]][s] \in Open \/ o = "failed"
          /\ \/ Fenced(w, Progress(cur[w], {s}, o), "enrich")
             \/ Owns(cur[w], w) /\ Progress(cur[w], {s}, o)
    BY <1>3 DEF ReportOutcome, ReportUnanswered
  <2>2. PICK o \in Outcomes(cur[w], s) \cup {"running"} :
          /\ tgt[cur[w]][s] \in Open \/ o = "failed"
          /\ \/ Fenced(w, Progress(cur[w], {s}, o), "enrich")
             \/ Owns(cur[w], w) /\ Progress(cur[w], {s}, o)
    BY <2>0
  <2>3. o \in Settled \cup {"running"}
    BY <2>2, WorkerAssumption DEF Outcomes, Settled, Skips
  <2>4. /\ {s} \in SUBSET TargetsOf(cur[w])
        /\ o # "failed" => {s} \subseteq OpenTargets(cur[w])
    BY <1>0, <2>1, <2>2 DEF LocalInv, InHand, OpenTargets
  <2>5. CASE Fenced(w, Progress(cur[w], {s}, o), "enrich")
    BY <2>1, <2>3, <2>4, <2>5, ReportContract DEF Neutral
  <2>6. CASE Owns(cur[w], w) /\ Progress(cur[w], {s}, o)
    BY <2>1, <2>3, <2>4, <2>6 DEF OnOwnJob, Reports, Owns
  <2> QED
    BY <2>2, <2>5, <2>6
<1>4. CASE Mark(w)
  <2>1. Running(w) /\ Fenced(w, Progress(cur[w], OpenTargets(cur[w]), "skipped"), "select")
    BY <1>4 DEF Mark, MarkUnreported, Running, RunSteps, Fenced
  <2>2. OpenTargets(cur[w]) \in SUBSET TargetsOf(cur[w])
    BY DEF OpenTargets, TargetsOf, Open
  <2>3. "skipped" \in Settled \cup {"running"}
    BY DEF Settled, Skips
  <2> QED
    BY <2>1, <2>2, <2>3, ReportContract DEF Neutral
<1>5. CASE CompleteJob(w)
  <2> DEFINE j == cur[w]
             tally == [Tally(tgt[j]) EXCEPT !.cancelled = counts[j].cancelled]
  <2>1. Running(w) /\ pc[w] = "complete" /\ j \in JobId
    BY <1>0, <1>5 DEF CompleteJob, Running, RunSteps, LocalInv, HasJob
  <2>2. CASE UNCHANGED storeVars
    BY <2>2 DEF Neutral
  <2>3. CASE Owns(j, w) /\ Finalize(j, "completed", tally)
    <3>1. OpenTargets(j) = {}
      BY <1>0, <2>1, <2>3 DEF LocalInv, Progressed
    <3>2. tally \in Tallies
      <4>1. Tally(tgt[j]) \in Tallies /\ counts[j] \in Tallies
        BY <2>1, TallyType DEF StoreTypeOK
      <4> QED
        BY <4>1 DEF Tallies
    <3>3. counts'[j] = tally
      BY <2>1, <2>3 DEF Finalize, StoreTypeOK
    <3> HIDE DEF tally
    <3> QED
      BY <2>1, <2>3, <3>1, <3>2, <3>3 DEF OnOwnJob, Finalizes, Owns
  <2> QED
    BY <1>5, <2>2, <2>3 DEF CompleteJob, Fenced
<1>6. CASE FinalizeFailed(w)
  <2>1. Running(w) /\ cur[w] \in JobId
    BY <1>0, <1>6 DEF FinalizeFailed, Running, RunSteps, LocalInv, HasJob
  <2>2. CASE UNCHANGED storeVars
    BY <2>2 DEF Neutral
  <2>3. CASE Owns(cur[w], w) /\ Finalize(cur[w], "failed", counts[cur[w]])
    <3>1. counts'[cur[w]] = counts[cur[w]] /\ counts[cur[w]] \in Tallies
      BY <2>1, <2>3 DEF Finalize, StoreTypeOK
    <3> QED
      BY <2>1, <2>3, <3>1 DEF OnOwnJob, Finalizes, Owns
  <2> QED
    BY <1>6, <2>2, <2>3 DEF FinalizeFailed
<1>7. CASE Sweep(w)
  <2>1. Running(w) /\ status[cur[w]] \in {"running", "cancelled"}
    BY <1>0, <1>7 DEF Sweep, Running, RunSteps, LocalInv, Held, Owns
  <2> QED
    BY <1>7, <2>1 DEF Sweep, OnOwnJob, Sweeps, Neutral
<1>8. CASE Requeue(w)
  <2>1. cur[w] \in JobId /\ status[cur[w]] = "failed" /\ EnqueueRetry(cur[w])
    BY <1>0, <1>8 DEF Requeue, LocalInv, HasJob, Retries
  <2> QED
    BY <2>1, RetryContract
<1>9. CASE HardCap(w)
  BY <1>0, <1>9 DEF HardCap, LocalInv, HasJob, Neutral, Cancels
<1>10. CASE Heartbeat(w)
  <2>1. cur[w] \in JobId
    BY <1>0, <1>10 DEF Heartbeat, LocalInv, HasJob
  <2> QED
    BY <1>10, <2>1 DEF Heartbeat, Beat, Owns, Ages, Neutral
<1>11. CASE \/ EnrichDone(w) \/ Select(w) \/ VerdictReject(w) \/ VerdictSkip(w)
            \/ VerdictDone(w) \/ Settle(w)
  BY <1>11
  DEF EnrichDone, Select, VerdictReject, VerdictSkip, VerdictDone, Settle, Neutral
<1>12. CASE \/ SaveResult(w) \/ BreakerTrips(w) \/ Throw(w) \/ HideBrand(w)
            \/ SoftDeadline(w) \/ Crash(w)
  BY <1>12
  DEF SaveResult, BreakerTrips, Throw, HideBrand, SoftDeadline, Crash, Neutral
<1> QED
  BY <1>1, <1>2, <1>3, <1>4, <1>5, <1>6, <1>7, <1>8, <1>9, <1>10, <1>11, <1>12
  DEF RunStep, RunEvent

\* Every step keeps the contract.
LEMMA ContractStep == WorkerInv /\ [Next]_vars => [Statement]_storeVars
<1> SUFFICES ASSUME WorkerInv, [Next]_vars PROVE [Statement]_storeVars
  OBVIOUS
<1>1. Neutral => [Statement]_storeVars
  BY DEF Neutral, Statement
<1>2. ASSUME NEW w \in Workers, OnOwnJob(w) PROVE [Statement]_storeVars
  BY <1>2 DEF OnOwnJob, WorkerInv, LocalInv, HasJob, Statement
<1>3. ASSUME NEW w \in Workers,
             CronStart(w) \/ CliStart(w) \/ WorkerStep(w) \/ RunEvent(w)
      PROVE  [Statement]_storeVars
  BY <1>1, <1>2, <1>3, CronContract, CliContract, RunContract DEF WorkerStep
<1>4. CASE AdminStep \/ TimeStep
  BY <1>1, <1>4, OutsideContract
<1>5. CASE UNCHANGED vars
  BY <1>5 DEF vars, storeVars
<1> QED
  BY <1>3, <1>4, <1>5 DEF Next

-----------------------------------------------------------------------------
(* Types *)

\* A step outside the workers keeps the types.
LEMMA OutsideType ==
  ASSUME TypeOK, StoreTypeOK', AdminStep \/ TimeStep PROVE TypeOK'
<1> USE DEF TypeOK, reviewVars, localVars, envVars, Dispatching
<1>1. CASE AdminEnqueue
  BY <1>1 DEF AdminEnqueue
<1>2. CASE AdminRecover
  BY <1>2 DEF AdminRecover
<1>3. ASSUME NEW j \in JobId,
             Redispatch(j) \/ DispatchAccepted(j) \/ DispatchRefused(j) \/ AdminCancel(j)
      PROVE  TypeOK'
  BY <1>3 DEF Redispatch, DispatchAccepted, DispatchRefused, AdminCancel
<1>4. ASSUME NEW s \in Submissions, Approve(s) \/ ApplyRefresh(s) \/ AdminReject(s) PROVE TypeOK'
  BY <1>4 DEF Approve, ApplyRefresh, AdminReject, SubmissionStatus
<1>5. CASE NextSlot
  BY <1>5, JobsAssumption DEF NextSlot
<1>6. ASSUME NEW j \in JobId, Lapse(j) \/ BecomeDue(j) PROVE TypeOK'
  BY <1>6 DEF Lapse, BecomeDue
<1> QED
  BY <1>1, <1>2, <1>3, <1>4, <1>5, <1>6 DEF AdminStep, TimeStep

\* A step of a process between its runs keeps the types.
LEMMA IdleType ==
  ASSUME TypeOK, StoreTypeOK', NEW w \in Workers,
         CronStart(w) \/ CliStart(w) \/ CronStep(w) \/ CliStep(w)
  PROVE  TypeOK'
<1> USE DEF TypeOK, reviewVars, localVars, envVars, Goto, Steps, CronSteps, RunSteps
<1>1. CASE CronStart(w)
  <2>1. clock \in 0..MaxSlots
    BY JobsAssumption
  <2> QED
    BY <1>1, <2>1 DEF CronStart
<1>2. CASE RecoverStale(w)
  BY <1>2 DEF RecoverStale
<1>3. CASE ReadFailed(w) \/ RetryOne(w) \/ RetriesDone(w)
  BY <1>3 DEF ReadFailed, AwaitingRetry, RetryOne, RetriesDone
<1>4. CASE ScanPending(w)
  <2>1. {s \in PendingSubmissions : ScheduledEligible(s, s \in Refresh, s \in complete)}
          \in SUBSET Submissions
    BY DEF PendingSubmissions
  <2> QED
    BY <1>4, <2>1 DEF ScanPending
<1>5. CASE EnqueueScheduled(w)
  <2>1. 0 \in 0..MaxSlots
    BY JobsAssumption
  <2> QED
    BY <1>5, <2>1 DEF EnqueueScheduled
<1>6. CASE ClaimNext(w)
  <2>1. PICK j \in JobId : cur' = [cur EXCEPT ![w] = j]
    BY <1>6 DEF ClaimNext
  <2> QED
    BY <1>6, <2>1 DEF ClaimNext
<1>7. CASE ClaimNothing(w)
  BY <1>7 DEF ClaimNothing
<1>8. CASE CliStart(w)
  <2>1. PICK j \in JobId : cur' = [cur EXCEPT ![w] = j]
    BY <1>8 DEF CliStart
  <2>2. UNCHANGED <<reviewVars, lost, todo, work, stopping, slot, envVars>> /\ Goto(w, "claimOwn")
    BY <1>8 DEF CliStart
  <2> QED
    BY <2>1, <2>2
<1>9. CASE ClaimOwn(w)
  BY <1>9 DEF ClaimOwn
<1>10. CASE ClaimOwnFails(w)
  BY <1>10 DEF ClaimOwnFails
<1> QED
  BY <1>1, <1>2, <1>3, <1>4, <1>5, <1>6, <1>7, <1>8, <1>9, <1>10 DEF CronStep, CliStep

\* A step of a run keeps the types.
LEMMA RunType ==
  ASSUME TypeOK, StoreTypeOK', NEW w \in Workers, LocalInv(w), RunStep(w) \/ RunEvent(w)
  PROVE  TypeOK'
<1> USE DEF TypeOK, reviewVars, localVars, envVars
<1>0. \A step \in RunSteps \cup {"idle", "claim", "requeue", "settle"} :
        Goto(w, step) => pc' \in [Workers -> Steps]
  BY DEF Goto, Steps, RunSteps, CronSteps
<1> USE <1>0 DEF RunSteps
<1>1. CASE Load(w)
  <2>1. pc' \in [Workers -> Steps]
    BY <1>1 DEF Load, Fenced
  <2>2. work' \in [Workers -> SUBSET Submissions]
    BY <1>1 DEF Load, PendingSubmissions
  <2> QED
    BY <1>1, <2>1, <2>2 DEF Load
<1>2. CASE ReportRunning(w)
  BY <1>2 DEF ReportRunning, Fenced
<1>3. CASE ReportOutcome(w)
  <2>1. PICK s \in work[w], o \in OutcomeKinds :
          /\ Fenced(w, Progress(cur[w], {s}, o), "enrich")
          /\ work' = [work EXCEPT ![w] = @ \ {s}]
    BY <1>3 DEF ReportOutcome, Outcomes
  <2>2. pc' \in [Workers -> Steps]
    BY <2>1 DEF Fenced
  <2> QED
    BY <1>3, <2>1, <2>2 DEF ReportOutcome
<1>4. CASE ReportUnanswered(w)
  BY <1>4 DEF ReportUnanswered
<1>5. CASE SaveResult(w)
  <2>1. cur[w] \in JobId
    BY <1>5 DEF SaveResult, LocalInv, HasJob, Running
  <2> QED
    BY <1>5, <2>1 DEF SaveResult
<1>6. CASE EnrichDone(w) \/ BreakerTrips(w) \/ Throw(w)
  BY <1>6 DEF EnrichDone, BreakerTrips, Throw
<1>7. CASE Mark(w) \/ CompleteJob(w)
  BY <1>7 DEF Mark, CompleteJob, Fenced
<1>8. CASE Select(w)
  BY <1>8 DEF Select, VerdictTargets, PendingSubmissions
<1>9. CASE VerdictReject(w) \/ VerdictSkip(w) \/ VerdictDone(w) \/ HideBrand(w)
  BY <1>9 DEF VerdictReject, VerdictSkip, VerdictDone, HideBrand, SubmissionStatus
<1>10. CASE Sweep(w) \/ FinalizeFailed(w) \/ Requeue(w) \/ Settle(w)
  BY <1>10 DEF Sweep, FinalizeFailed, Requeue, Settle
<1>11. CASE Heartbeat(w) \/ SoftDeadline(w) \/ HardCap(w)
  BY <1>11 DEF Heartbeat, SoftDeadline, HardCap
<1>12. CASE Crash(w)
  <2>1. crashes' \in 0..MaxCrashes
    BY <1>12, WorkerAssumption DEF Crash
  <2>2. slot' \in [Workers -> 0..MaxSlots]
    BY <1>12, JobsAssumption DEF Crash
  <2> QED
    BY <1>12, <2>1, <2>2 DEF Crash
<1> QED
  BY <1>1, <1>2, <1>3, <1>4, <1>5, <1>6, <1>7, <1>8, <1>9, <1>10, <1>11, <1>12
  DEF RunStep, RunEvent

\* Every step keeps the types.
LEMMA TypeStep == WorkerInv /\ [Next]_vars => TypeOK'
<1> SUFFICES ASSUME WorkerInv, [Next]_vars PROVE TypeOK'
  OBVIOUS
<1>1. TypeOK /\ StoreTypeOK'
  BY ContractStep, StatementType DEF WorkerInv, TypeOK
<1>2. ASSUME NEW w \in Workers,
             CronStart(w) \/ CliStart(w) \/ WorkerStep(w) \/ RunEvent(w)
      PROVE  TypeOK'
  BY <1>1, <1>2, IdleType, RunType DEF WorkerStep, WorkerInv
<1>3. CASE AdminStep \/ TimeStep
  BY <1>1, <1>3, OutsideType
<1>4. CASE UNCHANGED vars
  BY <1>1, <1>4 DEF vars, TypeOK
<1> QED
  BY <1>2, <1>3, <1>4 DEF Next

-----------------------------------------------------------------------------
(* What a step leaves to the others *)

\* A job keeps its holder, its status and its targets, or it is cancelled.
LeftTo(j) ==
  \/ status'[j] = "cancelled"
  \/ status'[j] = status[j] /\ token'[j] = token[j] /\ tgt'[j] = tgt[j]

\* A neutral statement leaves a running or cancelled job to its process.
LEMMA NeutralLeaves ==
  ASSUME StoreInv, Neutral, NEW j \in JobId, status[j] \in {"running", "cancelled"}
  PROVE  LeftTo(j)
<1> USE DEF LeftTo, StoreInv, LeaseInv, StoreTypeOK
<1>1. CASE Cancels
  <2>1. PICK J : Cancel(J)
    BY <1>1 DEF Cancels
  <2> QED
    BY <2>1, CancelOne
<1>2. ASSUME NEW i \in JobId, Inserts(i) PROVE LeftTo(j)
  <2>1. i # j
    BY <1>2, InsertOne DEF Exists
  <2>2. /\ status' = [status EXCEPT ![i] = "pending"] /\ token' = token
        /\ tgt' = [tgt EXCEPT ![i] = tgt'[i]]
    BY <1>2 DEF Inserts, Insert
  <2> QED
    BY <2>1, <2>2
<1>3. ASSUME NEW i \in JobId, Ages(i) PROVE LeftTo(j)
  BY <1>3 DEF Ages
<1>4. ASSUME NEW i \in JobId, MarkDispatched(i) \/ RecordDispatchFailure(i)
      PROVE  LeftTo(j)
  BY <1>4 DEF MarkDispatched, RecordDispatchFailure
<1>5. ASSUME NEW i \in JobId, NEW w \in Workers, Claim(i, w) PROVE LeftTo(j)
  BY <1>5 DEF Claim, Claimable
<1>6. CASE UNCHANGED storeVars
  BY <1>6 DEF storeVars
<1> QED
  BY <1>1, <1>2, <1>3, <1>4, <1>5, <1>6 DEF Neutral

\* What a worker does to its own job leaves the others alone.
LEMMA OwnLeaves ==
  ASSUME StoreInv, NEW w \in Workers, OnOwnJob(w), cur[w] \in JobId,
         NEW j \in JobId, j # cur[w]
  PROVE  LeftTo(j)
<1> USE DEF LeftTo, StoreInv, LeaseInv, StoreTypeOK
<1>1. CASE Reports(cur[w])
  BY <1>1 DEF Reports, Progress
<1>2. CASE Finalizes(cur[w])
  BY <1>2 DEF Finalizes, Finalize
<1>3. CASE Sweeps(cur[w])
  BY <1>3 DEF Sweeps, SweepTargets
<1> QED
  BY <1>1, <1>2, <1>3 DEF OnOwnJob

\* A job that is there stays there, with its targets.
LEMMA TargetsStay ==
  ASSUME StoreInv, [Statement]_storeVars, NEW j \in JobId, Exists(j)
  PROVE  TargetsOf(j)' = TargetsOf(j)
<1>1. status'[j] # "absent"
  <2> USE DEF StoreInv, LeaseInv, StoreTypeOK, Exists
  <2>1. CASE Cancels
    <3>1. PICK J : Cancel(J)
      BY <2>1 DEF Cancels
    <3> QED
      BY <3>1, CancelOne
  <2>2. ASSUME NEW i \in JobId, Inserts(i) PROVE status'[j] # "absent"
    BY <2>2, InsertOne
  <2>3. ASSUME NEW i \in JobId,
               Reports(i) \/ Finalizes(i) \/ Sweeps(i) \/ Ages(i)
        PROVE  status'[j] # "absent"
    BY <2>3 DEF Reports, Progress, Finalizes, Finalize, Sweeps, SweepTargets, Ages
  <2>4. ASSUME NEW i \in JobId, MarkDispatched(i) \/ RecordDispatchFailure(i)
        PROVE  status'[j] # "absent"
    BY <2>4 DEF MarkDispatched, RecordDispatchFailure
  <2>5. ASSUME NEW i \in JobId, NEW w \in Workers, Claim(i, w)
        PROVE  status'[j] # "absent"
    BY <2>5 DEF Claim
  <2>6. CASE UNCHANGED storeVars
    BY <2>6 DEF storeVars
  <2> QED
    BY <2>1, <2>2, <2>3, <2>4, <2>5, <2>6 DEF Statement
<1> QED
  BY <1>1, RequestStep DEF Exists

\* What a process is about to retry stays failed.
LEMMA TodoStay ==
  ASSUME WorkerInv, [Statement]_storeVars, NEW w \in Workers, NEW j \in todo[w]
  PROVE  status'[j] = "failed"
<1>1. j \in JobId /\ status[j] = "failed"
  BY DEF WorkerInv, TypeOK, LocalInv, Retries
<1> QED
  BY <1>1, EndedStep DEF WorkerInv, Ended

\* A process that does not move, and whose job is left to it, may count on
\* what it could before.
LEMMA Stays ==
  ASSUME WorkerInv, [Statement]_storeVars, NEW w \in Workers,
         pc'[w] = pc[w], cur'[w] = cur[w], work'[w] = work[w], todo'[w] = todo[w],
         Running(w) => LeftTo(cur[w])
  PROVE  LocalInv(w)'
<1>0. WorkerInv /\ LocalInv(w)
  BY DEF WorkerInv
<1>1. HasJob(w)'
  BY <1>0 DEF LocalInv, HasJob, Running
<1>2. ASSUME Running(w)
      PROVE  /\ cur[w] \in JobId
             /\ Owns(cur[w], w)' \/ status'[cur[w]] = "cancelled"
             /\ Owns(cur[w], w)' => Owns(cur[w], w) /\ tgt'[cur[w]] = tgt[cur[w]]
             /\ TargetsOf(cur[w])' = TargetsOf(cur[w])
  <2>1. cur[w] \in JobId /\ Exists(cur[w])
    BY <1>0, <1>2 DEF LocalInv, HasJob, Held, Owns, Exists
  <2>2. LeftTo(cur[w])
    BY <1>2
  <2>3. TargetsOf(cur[w])' = TargetsOf(cur[w])
    BY <1>0, <2>1, TargetsStay DEF WorkerInv
  <2> QED
    BY <1>0, <1>2, <2>1, <2>2, <2>3 DEF LeftTo, Owns, LocalInv, Held
<1>3. Held(w)'
  BY <1>2 DEF Held, Running, Owns
<1>4. InHand(w)'
  BY <1>0, <1>2 DEF LocalInv, InHand, Running
<1>5. Progressed(w)'
  BY <1>0, <1>2 DEF LocalInv, Progressed, Running, TargetsOf, OpenTargets, Owns
<1>6. Retries(w)'
  <2>1. pc[w] = "requeue" => status'[cur[w]] = "failed"
    BY <1>0, EndedStep DEF WorkerInv, LocalInv, HasJob, Retries, Ended
  <2> QED
    BY <2>1, TodoStay DEF Retries
<1> QED
  BY <1>1, <1>3, <1>4, <1>5, <1>6 DEF LocalInv

-----------------------------------------------------------------------------
(* What a step leaves to the process that takes it *)

\* A step within a run.
LEMMA RunOn ==
  ASSUME WorkerInv, [Statement]_storeVars, NEW w \in Workers,
         Running(w), Running(w)', pc'[w] # "load",
         cur'[w] = cur[w], todo'[w] = todo[w], status' = status, token' = token,
         work'[w] \subseteq TargetsOf(cur[w]),
         Owns(cur[w], w) /\ pc'[w] \in {"select", "verdict", "complete"} =>
           OpenTargets(cur[w])' = {}
  PROVE  LocalInv(w)'
<1>0. LocalInv(w) /\ StoreInv
  BY DEF WorkerInv
<1>1. cur[w] \in JobId /\ Exists(cur[w])
  BY <1>0 DEF LocalInv, HasJob, Held, Owns, Exists
<1>2. TargetsOf(cur[w])' = TargetsOf(cur[w])
  BY <1>0, <1>1, TargetsStay
<1>3. pc[w] \in RunSteps /\ pc'[w] \in RunSteps
  BY DEF Running
<1>4. HasJob(w)' /\ Held(w)'
  BY <1>0, <1>1 DEF LocalInv, HasJob, Held, Owns
<1>5. InHand(w)'
  BY <1>2, <1>3 DEF InHand, RunSteps
<1>6. Progressed(w)'
  BY DEF Progressed, Owns, OpenTargets
<1>7. Retries(w)'
  BY <1>3, TodoStay DEF Retries, RunSteps
<1> QED
  BY <1>4, <1>5, <1>6, <1>7 DEF LocalInv

\* A step after which the process runs nothing, retries nothing new and has no
\* submission in hand where a run could start.
LEMMA IdleOn ==
  ASSUME WorkerInv, [Statement]_storeVars, NEW w \in Workers,
         ~Running(w)', pc'[w] \notin {"requeue", "settle"},
         pc'[w] = "claimOwn" => cur'[w] \in JobId,
         pc'[w] \in {"idle", "claim", "claimOwn"} => work'[w] = {},
         todo'[w] \subseteq todo[w]
  PROVE  LocalInv(w)'
<1>1. \A j \in todo'[w] : status'[j] = "failed"
  BY TodoStay
<1> QED
  BY <1>1 DEF LocalInv, HasJob, Held, InHand, Progressed, Retries

\* A claim starts a run.
LEMMA ClaimOn ==
  ASSUME WorkerInv, [Statement]_storeVars, NEW w \in Workers, NEW j \in JobId,
         Claim(j, w), cur'[w] = j, pc'[w] = "load", work[w] = {},
         work'[w] = work[w], todo'[w] = todo[w]
  PROVE  LocalInv(w)'
<1>1. status[j] = "pending" /\ status'[j] = "running" /\ token'[j] = w /\ tgt' = tgt
  BY DEF Claim, Claimable, WorkerInv, TypeOK, StoreTypeOK
<1>2. TargetsOf(j)' \subseteq OpenTargets(j)'
  BY <1>1 DEF WorkerInv, StoreInv, Untouched, TargetsOf, OpenTargets, Open
<1>3. HasJob(w)' /\ Held(w)' /\ InHand(w)'
  BY <1>1 DEF HasJob, Held, Owns, InHand
<1>4. Progressed(w)'
  BY <1>2 DEF Progressed, TargetsOf, OpenTargets
<1>5. Retries(w)'
  BY TodoStay DEF Retries
<1> QED
  BY <1>3, <1>4, <1>5 DEF LocalInv

\* Between its runs.
LEMMA IdleLocal ==
  ASSUME WorkerInv, [Statement]_storeVars, NEW w \in Workers,
         CronStart(w) \/ CliStart(w) \/ CronStep(w) \/ CliStep(w)
  PROVE  LocalInv(w)'
<1> USE DEF WorkerInv, TypeOK, localVars
<1>0. LocalInv(w)
  OBVIOUS
<1>1. \A step \in Steps : Goto(w, step) => pc'[w] = step /\ (Running(w)' <=> step \in RunSteps)
  BY DEF Goto, Running
<1>2. CASE CronStart(w) \/ RecoverStale(w) \/ RetriesDone(w) \/ ScanPending(w)
  BY <1>1, <1>2, IdleOn
  DEF CronStart, RecoverStale, RetriesDone, ScanPending, Steps, CronSteps, RunSteps
<1>3. CASE ReadFailed(w)
  <2>1. \A j \in AwaitingRetry : j \in JobId /\ status[j] = "failed"
    BY DEF AwaitingRetry
  <2>2. \A j \in AwaitingRetry : status'[j] = "failed"
    BY <2>1, EndedStep DEF Ended
  <2>3. pc'[w] = "retry" /\ todo'[w] = AwaitingRetry
    BY <1>1, <1>3 DEF ReadFailed, Steps, CronSteps
  <2> QED
    BY <2>2, <2>3
    DEF LocalInv, HasJob, Held, InHand, Progressed, Retries, Running, RunSteps
<1>4. CASE RetryOne(w)
  <2>1. pc[w] = "retry" /\ pc'[w] = pc[w] /\ todo'[w] \subseteq todo[w]
    BY <1>4 DEF RetryOne
  <2> QED
    BY <2>1, IdleOn DEF Running, RunSteps
<1>5. CASE EnqueueScheduled(w)
  BY <1>1, <1>5, IdleOn DEF EnqueueScheduled, Steps, CronSteps, RunSteps
<1>6. CASE ClaimNext(w)
  <2>1. PICK j \in JobId : Claim(j, w) /\ cur' = [cur EXCEPT ![w] = j]
    BY <1>6 DEF ClaimNext
  <2>2. pc[w] = "claim" /\ pc'[w] = "load" /\ cur'[w] = j
    BY <1>1, <1>6, <2>1 DEF ClaimNext, Steps, RunSteps
  <2> QED
    BY <1>0, <1>6, <2>1, <2>2, ClaimOn DEF ClaimNext, LocalInv, InHand
<1>7. CASE ClaimNothing(w) \/ ClaimOwnFails(w)
  BY <1>0, <1>1, <1>7, IdleOn
  DEF ClaimNothing, ClaimOwnFails, Steps, RunSteps, LocalInv, InHand
<1>8. CASE CliStart(w)
  <2>1. PICK j \in JobId : cur' = [cur EXCEPT ![w] = j]
    BY <1>8 DEF CliStart
  <2> QED
    BY <1>0, <1>1, <1>8, <2>1, IdleOn DEF CliStart, Steps, RunSteps, LocalInv, InHand
<1>9. CASE ClaimOwn(w)
  <2>1. pc[w] = "claimOwn" /\ pc'[w] = "load" /\ cur[w] \in JobId /\ work[w] = {}
    BY <1>0, <1>1, <1>9 DEF ClaimOwn, Steps, RunSteps, LocalInv, HasJob, InHand
  <2> QED
    BY <1>9, <2>1, ClaimOn DEF ClaimOwn
<1> QED
  BY <1>2, <1>3, <1>4, <1>5, <1>6, <1>7, <1>8, <1>9 DEF CronStep, CliStep

\* The end of a run.
LEMMA SettleOn ==
  ASSUME WorkerInv, [Statement]_storeVars, NEW w \in Workers,
         pc'[w] \in {"requeue", "settle"}, cur[w] \in JobId, cur'[w] = cur[w],
         pc'[w] = "requeue" => status'[cur[w]] = "failed",
         todo'[w] = todo[w]
  PROVE  LocalInv(w)'
<1>1. \A j \in todo'[w] : status'[j] = "failed"
  BY TodoStay
<1>2. ~Running(w)'
  BY DEF Running, RunSteps
<1> QED
  BY <1>1, <1>2 DEF LocalInv, HasJob, Held, InHand, Progressed, Retries

\* A fenced report changes neither the status nor the holder of a job.
LEMMA ReportHolds ==
  ASSUME NEW j, NEW T, NEW st, NEW w, NEW next,
         Fenced(w, Progress(j, T, st), next) \/ Progress(j, T, st) \/ UNCHANGED storeVars
  PROVE  status' = status /\ token' = token
BY DEF Fenced, Progress, storeVars

\* Within a run.
LEMMA RunLocal ==
  ASSUME WorkerInv, [Statement]_storeVars, NEW w \in Workers, RunStep(w) \/ RunEvent(w)
  PROVE  LocalInv(w)'
<1> USE DEF WorkerInv, TypeOK, localVars
<1>0. LocalInv(w) /\ (Running(w) => cur[w] \in JobId)
  BY DEF LocalInv, HasJob
<1>1. \A step \in Steps : Goto(w, step) => pc'[w] = step
  BY DEF Goto
<1>2. Running(w) => work[w] \subseteq TargetsOf(cur[w])
  BY <1>0 DEF LocalInv, InHand
<1>3. CASE Load(w)
  <2>1. status' = status /\ token' = token
    BY <1>3, ReportHolds DEF Load, Fenced, Progress, storeVars
  <2>2. pc[w] = "load" /\ pc'[w] \in {"mark", "enrich", "fail"}
    BY <1>1, <1>3 DEF Load, Fenced, Steps, RunSteps
  <2>3. work'[w] \subseteq TargetsOf(cur[w])
    BY <1>3 DEF Load
  <2> QED
    BY <1>3, <2>1, <2>2, <2>3, RunOn DEF Load, Running, RunSteps
<1>4. CASE ReportRunning(w) \/ ReportOutcome(w) \/ ReportUnanswered(w)
  <2>1. status' = status /\ token' = token
    BY <1>4 DEF ReportRunning, ReportOutcome, ReportUnanswered, Fenced, Progress, storeVars
  <2>2. /\ pc[w] \in {"enrich", "fail"} /\ pc'[w] \in {"enrich", "fail"}
        /\ work'[w] \subseteq work[w] /\ cur'[w] = cur[w] /\ todo'[w] = todo[w]
    BY <1>1, <1>4
    DEF ReportRunning, ReportOutcome, ReportUnanswered, Fenced, Steps, RunSteps
  <2> QED
    BY <1>2, <2>1, <2>2, RunOn DEF Running, RunSteps
<1>5. CASE EnrichDone(w) \/ Throw(w) \/ VerdictReject(w) \/ VerdictSkip(w)
  <2>1. status' = status /\ token' = token /\ OpenTargets(cur[w])' = OpenTargets(cur[w])
    BY <1>5 DEF EnrichDone, Throw, VerdictReject, VerdictSkip, storeVars, OpenTargets
  <2>2. /\ pc[w] \in RunSteps /\ work'[w] \subseteq work[w]
        /\ cur'[w] = cur[w] /\ todo'[w] = todo[w]
        /\ \/ pc'[w] \in {"mark", "fail"}
           \/ pc[w] = "verdict" /\ pc'[w] = "verdict"
    BY <1>1, <1>5 DEF EnrichDone, Throw, VerdictReject, VerdictSkip, Steps, RunSteps
  <2>3. pc[w] = "verdict" /\ Owns(cur[w], w) => OpenTargets(cur[w]) = {}
    BY <1>0 DEF LocalInv, Progressed, Running, RunSteps
  <2> QED
    BY <1>2, <2>1, <2>2, <2>3, RunOn DEF Running, RunSteps
<1>6. CASE BreakerTrips(w) \/ Sweep(w)
  <2>1. status' = status /\ token' = token
    BY <1>6 DEF BreakerTrips, Sweep, SweepTargets, storeVars
  <2>2. /\ pc[w] \in RunSteps /\ pc'[w] \in {"sweep", "fail"}
        /\ work'[w] \subseteq work[w] /\ cur'[w] = cur[w] /\ todo'[w] = todo[w]
    BY <1>1, <1>6 DEF BreakerTrips, Sweep, Steps, RunSteps
  <2> QED
    BY <1>2, <2>1, <2>2, RunOn DEF Running, RunSteps
<1>7. CASE Mark(w)
  <2> DEFINE j == cur[w]
  <2>1. status' = status /\ token' = token
    BY <1>7 DEF Mark, MarkUnreported, Fenced, Progress, storeVars
  <2>2. pc[w] = "mark" /\ pc'[w] \in {"select", "fail"}
    BY <1>1, <1>7 DEF Mark, Fenced, Steps, RunSteps
  <2>3. j \in JobId
    BY <1>0, <2>2 DEF Running, RunSteps
  <2>4. ASSUME Owns(j, w) PROVE OpenTargets(cur[w])' = {}
    <3>1. tgt' = [tgt EXCEPT ![j] =
                    [s \in Submissions |-> IF s \in OpenTargets(j) THEN "skipped" ELSE tgt[j][s]]]
      BY <1>7, <2>4 DEF Mark, MarkUnreported, Fenced, Progress
    <3>2. \A s \in Submissions : tgt'[j][s] \notin Open
      BY <2>3, <3>1 DEF OpenTargets, Open, StoreTypeOK
    <3>3. cur' = cur
      BY <1>7 DEF Mark
    <3> QED
      BY <3>2, <3>3 DEF OpenTargets
  <2> QED
    BY <1>2, <1>7, <2>1, <2>2, <2>4, RunOn DEF Mark, Running, RunSteps
<1>8. CASE Select(w) \/ VerdictDone(w)
  <2>1. status' = status /\ token' = token /\ OpenTargets(cur[w])' = OpenTargets(cur[w])
    BY <1>8 DEF Select, VerdictDone, storeVars, OpenTargets
  <2>2. /\ pc[w] \in {"select", "verdict"} /\ pc'[w] \in {"fail", "verdict", "complete"}
        /\ cur'[w] = cur[w] /\ todo'[w] = todo[w]
    BY <1>1, <1>8 DEF Select, VerdictDone, Steps, RunSteps
  <2>3. Owns(cur[w], w) => OpenTargets(cur[w]) = {}
    BY <1>0, <2>2 DEF LocalInv, Progressed, Running, RunSteps
  <2>4. VerdictTargets(cur[w]) \subseteq TargetsOf(cur[w])
    BY DEF VerdictTargets, PendingSubmissions, TargetsOf
  <2>5. work'[w] \subseteq TargetsOf(cur[w])
    <3>1. Running(w)
      BY <2>2 DEF Running, RunSteps
    <3>2. work'[w] \subseteq work[w] \cup VerdictTargets(cur[w])
      BY <1>8 DEF Select, VerdictDone
    <3> QED
      BY <1>2, <2>4, <3>1, <3>2
  <2> QED
    BY <2>1, <2>2, <2>3, <2>5, RunOn DEF Running, RunSteps
<1>9. CASE CompleteJob(w)
  <2>1. /\ pc[w] = "complete" /\ cur[w] \in JobId
        /\ cur'[w] = cur[w] /\ todo'[w] = todo[w] /\ work'[w] = work[w]
    BY <1>0, <1>9 DEF CompleteJob, Running, RunSteps
  <2>2. CASE Owns(cur[w], w) /\ Goto(w, "settle")
    BY <1>1, <2>1, <2>2, SettleOn DEF Steps
  <2>3. CASE UNCHANGED storeVars /\ Goto(w, "fail")
    <3>1. status' = status /\ token' = token /\ pc'[w] = "fail"
      BY <1>1, <2>3 DEF storeVars, Steps, RunSteps
    <3> QED
      BY <1>2, <2>1, <3>1, RunOn DEF Running, RunSteps
  <2> QED
    BY <1>9, <2>2, <2>3 DEF CompleteJob, Fenced
<1>10. CASE FinalizeFailed(w)
  <2>1. /\ pc[w] = "fail" /\ cur[w] \in JobId
        /\ cur'[w] = cur[w] /\ todo'[w] = todo[w]
    BY <1>0, <1>10 DEF FinalizeFailed, Running, RunSteps
  <2>2. \/ pc'[w] = "settle"
        \/ pc'[w] = "requeue" /\ Finalize(cur[w], "failed", counts[cur[w]])
    BY <1>1, <1>10 DEF FinalizeFailed, Steps
  <2>3. pc'[w] = "requeue" => status'[cur[w]] = "failed"
    BY <2>1, <2>2 DEF Finalize, StoreTypeOK
  <2> QED
    BY <2>1, <2>2, <2>3, SettleOn
<1>11. CASE Requeue(w)
  <2>1. pc'[w] = "settle" /\ cur'[w] = cur[w] /\ todo'[w] = todo[w] /\ cur[w] \in JobId
    BY <1>0, <1>1, <1>11 DEF Requeue, Steps, LocalInv, HasJob
  <2> QED
    BY <2>1, SettleOn
<1>12. CASE Settle(w) \/ Crash(w)
  <2>1. pc'[w] \in {"claim", "idle"} /\ work'[w] = {} /\ todo'[w] \subseteq todo[w]
    BY <1>1, <1>12 DEF Settle, Crash, Steps, CronSteps
  <2> QED
    BY <2>1, IdleOn DEF Running, RunSteps
<1>13. CASE Heartbeat(w) \/ SaveResult(w) \/ HideBrand(w) \/ SoftDeadline(w)
  <2>1. status' = status /\ token' = token /\ tgt' = tgt
    BY <1>13 DEF Heartbeat, Beat, SaveResult, HideBrand, SoftDeadline, storeVars
  <2>2. pc'[w] = pc[w] /\ cur'[w] = cur[w] /\ work'[w] = work[w] /\ todo'[w] = todo[w]
    BY <1>13 DEF Heartbeat, SaveResult, HideBrand, SoftDeadline
  <2> QED
    BY <2>1, <2>2, Stays DEF LeftTo
<1>14. CASE HardCap(w)
  <2>1. pc'[w] = pc[w] /\ cur'[w] = cur[w] /\ work'[w] = work[w] /\ todo'[w] = todo[w]
    BY <1>14 DEF HardCap
  <2>2. Running(w) => LeftTo(cur[w])
    BY <1>0, <1>14, CancelOne DEF HardCap, LeftTo
  <2> QED
    BY <2>1, <2>2, Stays
<1> QED
  BY <1>3, <1>4, <1>5, <1>6, <1>7, <1>8, <1>9, <1>10, <1>11, <1>12, <1>13, <1>14
  DEF RunStep, RunEvent

-----------------------------------------------------------------------------
(* The invariant *)

\* A worker moves itself only.
LEMMA OthersStand ==
  ASSUME TypeOK, NEW w \in Workers, NEW v \in Workers \ {w},
         CronStart(w) \/ CliStart(w) \/ WorkerStep(w) \/ RunEvent(w)
  PROVE  pc'[v] = pc[v] /\ cur'[v] = cur[v] /\ work'[v] = work[v] /\ todo'[v] = todo[v]
<1> USE DEF TypeOK, localVars, Goto, Fenced
<1>1. CASE CronStart(w) \/ CronStep(w)
  BY <1>1
  DEF CronStart, CronStep, RecoverStale, ReadFailed, RetryOne, RetriesDone,
      ScanPending, EnqueueScheduled, ClaimNext, ClaimNothing
<1>2. CASE CliStart(w) \/ CliStep(w)
  BY <1>2 DEF CliStart, CliStep, ClaimOwn, ClaimOwnFails
<1>3. CASE RunStep(w)
  BY <1>3
  DEF RunStep, Load, ReportOutcome, EnrichDone, Mark, Select, VerdictReject,
      VerdictSkip, VerdictDone, CompleteJob, Sweep, FinalizeFailed, Requeue, Settle
<1>4. CASE RunEvent(w)
  BY <1>4
  DEF RunEvent, Heartbeat, ReportRunning, SaveResult, ReportUnanswered,
      BreakerTrips, Throw, HideBrand, SoftDeadline, HardCap, Crash
<1> QED
  BY <1>1, <1>2, <1>3, <1>4 DEF WorkerStep

\* A worker that runs a job ran it before, or has just claimed it.
LEMMA Enters ==
  ASSUME TypeOK, NEW w \in Workers, Running(w)',
         CronStart(w) \/ CliStart(w) \/ WorkerStep(w) \/ RunEvent(w)
  PROVE  \/ Running(w) /\ cur'[w] = cur[w]
         \/ status[cur'[w]] = "pending"
<1> USE DEF TypeOK, localVars, Goto, Fenced, Running, RunSteps
<1>1. CASE ClaimNext(w) \/ ClaimOwn(w)
  BY <1>1 DEF ClaimNext, ClaimOwn, Claim, Claimable
<1>2. CASE CronStart(w) \/ (CronStep(w) /\ ~ClaimNext(w))
  BY <1>2
  DEF CronStart, CronStep, RecoverStale, ReadFailed, RetryOne, RetriesDone,
      ScanPending, EnqueueScheduled, ClaimNothing
<1>3. CASE CliStart(w) \/ ClaimOwnFails(w)
  BY <1>3 DEF CliStart, ClaimOwnFails
<1>4. CASE RunStep(w)
  BY <1>4
  DEF RunStep, Load, ReportOutcome, EnrichDone, Mark, Select, VerdictReject,
      VerdictSkip, VerdictDone, CompleteJob, Sweep, FinalizeFailed, Requeue, Settle
<1>5. CASE RunEvent(w)
  BY <1>5
  DEF RunEvent, Heartbeat, ReportRunning, SaveResult, ReportUnanswered,
      BreakerTrips, Throw, HideBrand, SoftDeadline, HardCap, Crash
<1> QED
  BY <1>1, <1>2, <1>3, <1>4, <1>5 DEF WorkerStep, CliStep, CronStep

\* Every step of a worker keeps what every worker may count on.
LEMMA LocalStep ==
  ASSUME WorkerInv, [Statement]_storeVars, NEW w \in Workers, NEW v \in Workers,
         CronStart(w) \/ CliStart(w) \/ WorkerStep(w) \/ RunEvent(w)
  PROVE  LocalInv(v)'
<1>1. CASE v = w
  BY <1>1, IdleLocal, RunLocal DEF WorkerStep
<1>2. CASE v # w
  <2>1. pc'[v] = pc[v] /\ cur'[v] = cur[v] /\ work'[v] = work[v] /\ todo'[v] = todo[v]
    BY <1>2, OthersStand DEF WorkerInv
  <2>2. ASSUME Running(v) PROVE LeftTo(cur[v])
    <3>1. StoreInv /\ cur[v] \in JobId /\ status[cur[v]] \in {"running", "cancelled"}
      BY <2>2 DEF WorkerInv, LocalInv, HasJob, Held, Owns
    <3>2. Neutral \/ OnOwnJob(w)
      BY CronContract, CliContract, RunContract DEF WorkerStep
    <3>3. CASE Neutral
      BY <3>1, <3>3, NeutralLeaves
    <3>4. CASE OnOwnJob(w)
      <4>1. cur[w] \in JobId /\ cur[v] # cur[w]
        BY <1>2, <2>2, <3>4 DEF OnOwnJob, WorkerInv, Sole, LocalInv, HasJob
      <4> QED
        BY <3>1, <3>4, <4>1, OwnLeaves
    <3> QED
      BY <3>2, <3>3, <3>4
  <2> QED
    BY <2>1, <2>2, Stays
<1> QED
  BY <1>1, <1>2

\* A claim takes a job that nobody runs.
LEMMA SoleStep ==
  ASSUME WorkerInv, NEW w \in Workers,
         CronStart(w) \/ CliStart(w) \/ WorkerStep(w) \/ RunEvent(w)
  PROVE  Sole'
<1> SUFFICES ASSUME NEW u \in Workers, NEW v \in Workers, u # v,
                    Running(u)', Running(v)', cur'[u] = cur'[v]
             PROVE  FALSE
  BY DEF Sole
<1>1. \A x \in Workers \ {w} : (Running(x)' <=> Running(x)) /\ cur'[x] = cur[x]
  BY OthersStand DEF WorkerInv, Running
<1>2. \A x \in Workers : Running(x) => status[cur[x]] # "pending"
  BY DEF WorkerInv, LocalInv, Held, Owns
<1>3. Running(w)' => (Running(w) /\ cur'[w] = cur[w]) \/ status[cur'[w]] = "pending"
  BY Enters DEF WorkerInv
<1> QED
  BY <1>1, <1>2, <1>3 DEF WorkerInv, Sole

\* Every step keeps the invariant.
LEMMA WorkerInvStep == WorkerInv /\ [Next]_vars => WorkerInv'
<1> SUFFICES ASSUME WorkerInv, [Next]_vars PROVE Sole' /\ \A v \in Workers : LocalInv(v)'
  BY TypeStep, ContractStep, StoreStep DEF WorkerInv
<1>1. [Statement]_storeVars
  BY ContractStep
<1>2. ASSUME NEW w \in Workers,
             CronStart(w) \/ CliStart(w) \/ WorkerStep(w) \/ RunEvent(w)
      PROVE  Sole' /\ \A v \in Workers : LocalInv(v)'
  BY <1>1, <1>2, SoleStep, LocalStep
<1>3. CASE AdminStep \/ TimeStep \/ UNCHANGED vars
  <2>1. UNCHANGED <<pc, cur, work, todo>>
    BY <1>3
    DEF AdminStep, TimeStep, AdminEnqueue, AdminRecover, Redispatch, DispatchAccepted,
        DispatchRefused, AdminCancel, Approve, ApplyRefresh, AdminReject, NextSlot, Lapse, BecomeDue,
        localVars, vars
  <2>2. Neutral
    BY <1>3, OutsideContract DEF Neutral, vars, storeVars
  <2>3. \A v \in Workers : Running(v) => LeftTo(cur[v])
    BY <2>2, NeutralLeaves DEF WorkerInv, LocalInv, HasJob, Held, Owns
  <2>4. \A v \in Workers : LocalInv(v)'
    BY <1>1, <2>1, <2>3, Stays
  <2> QED
    BY <2>1, <2>4 DEF WorkerInv, Sole, Running
<1> QED
  BY <1>2, <1>3 DEF Next

\* No process has a job at first.
LEMMA WorkerInvInit == Init => WorkerInv
<1> SUFFICES ASSUME Init PROVE WorkerInv
  OBVIOUS
<1>1. StoreInv /\ StoreTypeOK
  BY StoreInitInv DEF Init, StoreInv, LeaseInv
<1>2. TypeOK
  <2>1. 0 \in 0..MaxSlots /\ 0 \in 0..MaxCrashes /\ 1 \in 1..MaxSlots
    BY JobsAssumption, WorkerAssumption
  <2> QED
    BY <1>1, <2>1 DEF Init, TypeOK, Steps, SubmissionStatus
<1>3. \A w \in Workers : LocalInv(w) /\ ~Running(w)
  BY DEF Init, LocalInv, HasJob, Held, InHand, Progressed, Retries, Running, RunSteps
<1> QED
  BY <1>1, <1>2, <1>3 DEF WorkerInv, Sole

\* The invariant holds of every run.
LEMMA WorkerInvariant == Spec => []WorkerInv
BY WorkerInvInit, WorkerInvStep, PTL DEF Spec

-----------------------------------------------------------------------------
(* Theorems *)

\* The tables and the processes are always well typed.
THEOREM TypeCorrect == Spec => []TypeOK
BY WorkerInvariant, PTL DEF WorkerInv

\* Whatever the processes interleave, they keep the contract of the tables.
THEOREM ContractKept == Spec => KeepsContract
<1>1. Init => StoreInit
  BY DEF Init
<1> QED
  BY <1>1, WorkerInvariant, ContractStep, PTL DEF Spec, KeepsContract, StoreSpec

\* Two processes never run the same job, and nobody but an operator's or a
\* recovery's cancel takes a job from the process that runs it.
THEOREM RunsAreExclusive == Spec => []ExclusiveRun
<1>1. WorkerInv => ExclusiveRun
  BY DEF WorkerInv, Sole, LocalInv, HasJob, Held, ExclusiveRun, JobId, NoJob
<1> QED
  BY <1>1, WorkerInvariant, PTL

\* With crashes, cancels, stale recoveries and refused dispatches, at most one
\* job is running, and exactly it has a holder.
THEOREM SystemOneLease == Spec => []OneLease
BY ContractKept, AlwaysOneLease, PTL DEF KeepsContract

\* What has ended in success or by a cancel has no open target.
THEOREM SystemSettled == Spec => []EndedIsSettled
BY ContractKept, AlwaysSettled, PTL DEF KeepsContract

\* The runner's catch and any number of cron executions retry a job once, and
\* only what it left open.
THEOREM SystemContinues == Spec => []RetryContinues
BY ContractKept, AlwaysContinues, PTL DEF KeepsContract

\* Any number of cron executions schedule one job per slot.
THEOREM SystemOnePerSlot == Spec => []OneJobPerSlot
BY ContractKept, AlwaysOnePerSlot, PTL DEF KeepsContract

\* No late report and no unfenced sweep touches a job that has ended.
THEOREM SystemFrozen == Spec => FrozenTargets
BY ContractKept, AlwaysFrozen, PTL DEF KeepsContract

\* No process brings a job back that has ended.
THEOREM SystemFinal == Spec => EndedIsFinal
BY ContractKept, AlwaysFinal, PTL DEF KeepsContract

\* No process reopens an outcome, or turns it into another but failed.
THEOREM SystemOutcome == Spec => OutcomeIsFinal
BY ContractKept, AlwaysOutcome, PTL DEF KeepsContract

-----------------------------------------------------------------------------
(* Results *)

\* Only a worker within a run writes results, and no table with them.
LEMMA SavedStep ==
  ASSUME [Next]_vars, saved' # saved
  PROVE  UNCHANGED storeVars /\ \E w \in Workers : SaveResult(w)
<1> USE DEF reviewVars, storeVars
<1>1. ASSUME NEW w \in Workers, CronStart(w) \/ CronStep(w) \/ CliStart(w) \/ CliStep(w)
      PROVE  FALSE
  BY <1>1
  DEF CronStart, CronStep, RecoverStale, ReadFailed, RetryOne, RetriesDone, ScanPending,
      EnqueueScheduled, ClaimNext, ClaimNothing, CliStart, CliStep, ClaimOwn, ClaimOwnFails
<1>2. ASSUME NEW w \in Workers, RunStep(w) PROVE FALSE
  BY <1>2
  DEF RunStep, Load, ReportOutcome, EnrichDone, Mark, Select, VerdictReject,
      VerdictSkip, VerdictDone, CompleteJob, Sweep, FinalizeFailed, Requeue, Settle
<1>3. ASSUME NEW w \in Workers, RunEvent(w), ~SaveResult(w) PROVE FALSE
  BY <1>3
  DEF RunEvent, Heartbeat, ReportRunning, ReportUnanswered, BreakerTrips, Throw,
      HideBrand, SoftDeadline, HardCap, Crash
<1>4. CASE AdminStep \/ TimeStep \/ UNCHANGED vars
  BY <1>4
  DEF AdminStep, TimeStep, AdminEnqueue, AdminRecover, Redispatch, DispatchAccepted,
      DispatchRefused, AdminCancel, Approve, ApplyRefresh, AdminReject, NextSlot, Lapse, BecomeDue, vars
<1>5. ASSUME NEW w \in Workers, SaveResult(w) PROVE UNCHANGED storeVars
  BY <1>5 DEF SaveResult
<1> QED
  BY <1>1, <1>2, <1>3, <1>4, <1>5 DEF Next, WorkerStep

\* A result is written to a submission nobody has reviewed, by the process
\* that holds the job, although the RPC that writes it checks no token.
THEOREM ResultsFenced == Spec => ResultsAreFenced
<1>1. WorkerInv /\ [Next]_vars =>
        [\A j \in JobId, s \in Submissions : <<j, s>> \in saved' \ saved =>
           /\ \E w \in Workers : cur[w] = j /\ Owns(j, w)
           /\ sub[s] = "pending"]_vars
  <2> SUFFICES ASSUME WorkerInv, [Next]_vars,
                      NEW j \in JobId, NEW s \in Submissions, <<j, s>> \in saved' \ saved
               PROVE  /\ \E w \in Workers : cur[w] = j /\ Owns(j, w)
                      /\ sub[s] = "pending"
    OBVIOUS
  <2>1. PICK w \in Workers : SaveResult(w)
    BY SavedStep
  <2>2. PICK r \in work[w] : /\ status[cur[w]] = "running" /\ sub[r] = "pending"
                             /\ saved' = saved \cup {<<cur[w], r>>}
    BY <2>1 DEF SaveResult, ResultAccepted
  <2>3. cur[w] = j /\ r = s
    BY <2>2
  <2>4. Owns(cur[w], w)
    BY <2>1, <2>2 DEF SaveResult, WorkerInv, LocalInv, Held, Running, RunSteps
  <2> QED
    BY <2>2, <2>3, <2>4
<1> QED
  BY <1>1, WorkerInvariant, PTL DEF Spec, ResultsAreFenced

-----------------------------------------------------------------------------
(* The queue *)

\* What the queue sees of a job.
QueueSame(j) ==
  Phase(j)' = Phase(j) /\ token'[j] = token[j] /\ OpenTargets(j)' = OpenTargets(j)

\* Where no job changes for the queue, it stutters.
LEMMA QueueStutter ==
  ASSUME StoreTypeOK, StoreTypeOK', saved' = saved, \A j \in JobId : QueueSame(j)
  PROVE  UNCHANGED Queue!queueVars
BY DEF Queue!queueVars, QueueSame, StoreTypeOK

\* What the queue sees when one job is added, leased, worked on or closed.
QueueMove(j) ==
  \/ Phase(j) = "absent" /\ Phase(j)' = "queued" /\ token'[j] = token[j]
  \/ /\ Phase(j) = "queued" /\ Phase(j)' = "leased"
     /\ \A i \in JobId : Phase(i) # "leased"
     /\ token'[j] \in Workers
     /\ OpenTargets(j)' = OpenTargets(j)
  \/ /\ Phase(j) = "leased" /\ Phase(j)' = "leased" /\ token'[j] = token[j]
     /\ OpenTargets(j)' \subseteq OpenTargets(j)
  \/ /\ Phase(j) \in {"queued", "leased"} /\ Phase(j)' = "closed" /\ token'[j] = NoWorker
     /\ OpenTargets(j)' \subseteq OpenTargets(j)

\* A move of one job while the others stand still is a step of the queue.
LEMMA QueueOne ==
  ASSUME StoreTypeOK, StoreTypeOK', saved' = saved, NEW j \in JobId,
         \A i \in JobId \ {j} : QueueSame(i), QueueMove(j)
  PROVE  Queue!QueueNext
<1> DEFINE phases == [i \in JobId |-> Phase(i)]
           lefts  == [i \in JobId |-> OpenTargets(i)]
<1>1. phases' = [phases EXCEPT ![j] = Phase(j)']
  BY DEF QueueSame
<1>2. lefts' = [lefts EXCEPT ![j] = OpenTargets(j)']
  BY DEF QueueSame
<1>3. token' = [token EXCEPT ![j] = token'[j]]
  BY DEF QueueSame, StoreTypeOK
<1>4. lefts[j] = OpenTargets(j) /\ phases[j] = Phase(j)
  OBVIOUS
<1>5. OpenTargets(j)' \in SUBSET Submissions
  BY DEF OpenTargets
<1>6. \A i \in JobId : phases[i] = Phase(i)
  OBVIOUS
<1>7. token'[j] = token[j] => token' = token
  BY <1>3 DEF StoreTypeOK
<1>8. OpenTargets(j)' = OpenTargets(j) => lefts' = lefts
  BY <1>2
<1>9. Phase(j)' = Phase(j) => phases' = phases
  BY <1>1
<1> HIDE DEF phases, lefts
<1> USE DEF Queue!Add, Queue!Lease, Queue!Resolve, Queue!Close
<1>a. CASE Phase(j) = "absent" /\ Phase(j)' = "queued" /\ token'[j] = token[j]
  <2>1. Queue!Add(j)
    BY <1>1, <1>2, <1>4, <1>5, <1>7, <1>a DEF phases, lefts
  <2> QED
    BY <2>1 DEF Queue!QueueNext
<1>b. CASE /\ Phase(j) = "queued" /\ Phase(j)' = "leased"
           /\ \A i \in JobId : Phase(i) # "leased"
           /\ token'[j] \in Workers
           /\ OpenTargets(j)' = OpenTargets(j)
  <2>1. Queue!Lease(j, token'[j])
    BY <1>1, <1>3, <1>4, <1>6, <1>8, <1>b DEF phases, lefts
  <2> QED
    BY <1>b, <2>1 DEF Queue!QueueNext
<1>c. CASE /\ Phase(j) = "leased" /\ Phase(j)' = "leased" /\ token'[j] = token[j]
           /\ OpenTargets(j)' \subseteq OpenTargets(j)
  <2>1. Queue!Resolve(j)
    BY <1>2, <1>4, <1>7, <1>9, <1>c DEF phases, lefts
  <2> QED
    BY <2>1 DEF Queue!QueueNext
<1>d. CASE /\ Phase(j) \in {"queued", "leased"} /\ Phase(j)' = "closed" /\ token'[j] = NoWorker
           /\ OpenTargets(j)' \subseteq OpenTargets(j)
  <2>1. Queue!Close(j)
    BY <1>1, <1>2, <1>3, <1>4, <1>d DEF phases, lefts
  <2> QED
    BY <2>1 DEF Queue!QueueNext
<1> QED
  BY <1>a, <1>b, <1>c, <1>d DEF QueueMove

\* A statement changes nothing for the queue, or moves one job.
LEMMA QueueStatement ==
  ASSUME StoreInv, [Statement]_storeVars
  PROVE  \/ \A i \in JobId : QueueSame(i)
         \/ \E j \in JobId : QueueMove(j) /\ \A i \in JobId \ {j} : QueueSame(i)
<1> DEFINE Moves == \E j \in JobId : QueueMove(j) /\ \A i \in JobId \ {j} : QueueSame(i)
           Still == \A i \in JobId : QueueSame(i)
<1> USE DEF StoreInv, LeaseInv, StoreTypeOK
<1>0. \A i \in JobId : status'[i] = status[i] /\ token'[i] = token[i] /\ tgt'[i] = tgt[i]
                         => QueueSame(i)
  BY DEF QueueSame, Phase, OpenTargets
<1>1. ASSUME NEW J, Cancel(J), NEW j \in JobId, j \in J, status[j] \in Active,
             \A i \in JobId \ {j} : status[i] \notin Active \/ i \notin J
      PROVE  Moves
  <2>1. \A i \in JobId \ {j} : QueueSame(i)
    BY <1>0, <1>1, CancelOne
  <2>2. status'[j] = "cancelled" /\ token'[j] = NoWorker /\ tgt'[j] = CancelledRow(tgt[j])
    BY <1>1, CancelOne
  <2>3. OpenTargets(j)' = {}
    BY <2>2 DEF OpenTargets, CancelledRow, Open
  <2>4. Phase(j) \in {"queued", "leased"} /\ Phase(j)' = "closed"
    BY <1>1, <2>2 DEF Phase, Active
  <2> QED
    BY <2>1, <2>2, <2>3, <2>4 DEF QueueMove
<1>2. ASSUME NEW J, Cancel(J), \A i \in JobId : status[i] \notin Active \/ i \notin J
      PROVE  Still
  BY <1>0, <1>2, CancelOne
<1>3. CASE Cancels
  <2>1. ASSUME NEW j \in JobId, Cancel({j}) PROVE Moves \/ Still
    BY <1>1, <1>2, <2>1
  <2>2. CASE Cancel(StaleJobs)
    <3>1. \A i, j \in StaleJobs : i = j
      BY DEF StaleJobs, OneLease
    <3>2. StaleJobs \subseteq JobId
      BY DEF StaleJobs
    <3> QED
      BY <1>1, <1>2, <2>2, <3>1, <3>2
  <2> QED
    BY <1>3, <2>1, <2>2 DEF Cancels
<1>4. ASSUME NEW j \in JobId, Inserts(j) PROVE Moves
  <2>1. status[j] = "absent" /\ status' = [status EXCEPT ![j] = "pending"] /\ token' = token
    BY <1>4 DEF Inserts, Insert, IsNext
  <2>2. \A i \in JobId \ {j} : QueueSame(i)
    BY <1>0, <1>4, <2>1, InsertOne
  <2> QED
    BY <2>1, <2>2 DEF QueueMove, Phase
<1>5. ASSUME NEW j \in JobId, Reports(j) PROVE Moves
  <2>1. PICK T \in SUBSET TargetsOf(j), st \in Settled \cup {"running"} :
          /\ st # "failed" => T \subseteq OpenTargets(j)
          /\ Progress(j, T, st)
    BY <1>5 DEF Reports
  <2>2. /\ status' = status /\ token' = token
        /\ tgt' = [tgt EXCEPT ![j] =
                     [s \in Submissions |-> IF s \in T THEN st ELSE tgt[j][s]]]
    BY <2>1 DEF Progress
  <2>3. OpenTargets(j)' \subseteq OpenTargets(j)
    BY <2>1, <2>2 DEF OpenTargets, Open
  <2>4. \A i \in JobId \ {j} : QueueSame(i)
    BY <1>0, <2>2
  <2> QED
    BY <1>5, <2>2, <2>3, <2>4 DEF QueueMove, Phase, Reports
<1>6. ASSUME NEW j \in JobId, Finalizes(j) PROVE Moves
  <2>1. /\ status[j] = "running" /\ tgt' = tgt
        /\ status' \in {[status EXCEPT ![j] = "failed"], [status EXCEPT ![j] = "completed"]}
        /\ token' = [token EXCEPT ![j] = NoWorker]
    BY <1>6 DEF Finalizes, Finalize
  <2>2. \A i \in JobId \ {j} : QueueSame(i)
    BY <1>0, <2>1
  <2> QED
    BY <2>1, <2>2 DEF QueueMove, Phase, OpenTargets
<1>7. ASSUME NEW j \in JobId, Sweeps(j) PROVE Moves \/ Still
  <2>1. status' = status /\ token' = token /\ tgt' = [tgt EXCEPT ![j] = CancelledRow(@)]
    BY <1>7 DEF Sweeps, SweepTargets
  <2>2. OpenTargets(j)' = {}
    BY <2>1 DEF OpenTargets, CancelledRow, Open
  <2>3. \A i \in JobId \ {j} : QueueSame(i)
    BY <1>0, <2>1
  <2>4. CASE status[j] = "running"
    BY <2>1, <2>2, <2>3, <2>4 DEF QueueMove, Phase
  <2>5. CASE status[j] = "cancelled"
    <3>1. OpenTargets(j) = {}
      BY <2>5 DEF EndedIsSettled
    <3> QED
      BY <2>1, <2>2, <2>3, <3>1 DEF QueueSame, Phase
  <2> QED
    BY <1>7, <2>4, <2>5 DEF Sweeps
<1>8. ASSUME NEW j \in JobId, Ages(j) \/ MarkDispatched(j) PROVE Still
  BY <1>0, <1>8 DEF Ages, MarkDispatched
<1>9. ASSUME NEW j \in JobId, RecordDispatchFailure(j) PROVE Moves \/ Still
  <2>1. CASE status[j] # "pending"
    BY <1>0, <1>9, <2>1 DEF RecordDispatchFailure
  <2>2. CASE status[j] = "pending"
    <3>1. /\ status' = [status EXCEPT ![j] = "failed"] /\ token' = token /\ tgt' = tgt
          /\ token[j] = NoWorker
      BY <1>9, <2>2 DEF RecordDispatchFailure, OneLease
    <3>2. \A i \in JobId \ {j} : QueueSame(i)
      BY <1>0, <3>1
    <3> QED
      BY <2>2, <3>1, <3>2 DEF QueueMove, Phase, OpenTargets
  <2> QED
    BY <2>1, <2>2
<1>10. ASSUME NEW j \in JobId, NEW w \in Workers, Claim(j, w) PROVE Moves
  <2>1. /\ status[j] = "pending" /\ \A i \in JobId : status[i] # "running"
        /\ status' = [status EXCEPT ![j] = "running"]
        /\ token' = [token EXCEPT ![j] = w] /\ tgt' = tgt
    BY <1>10 DEF Claim, Claimable, NothingRunning
  <2>2. \A i \in JobId \ {j} : QueueSame(i)
    BY <1>0, <2>1
  <2> QED
    BY <2>1, <2>2 DEF QueueMove, Phase, OpenTargets, JobStatus
<1>11. CASE UNCHANGED storeVars
  BY <1>0, <1>11 DEF storeVars
<1> QED
  BY <1>3, <1>4, <1>5, <1>6, <1>7, <1>8, <1>9, <1>10, <1>11 DEF Statement

\* The job tables and the processes around them implement a queue of leased
\* jobs, for any number of processes, jobs, submissions and attempts.
THEOREM QueueImplemented == Spec => ImplementsQueue
<1>1. Init => Queue!QueueInit
  BY DEF Init, StoreInit, Queue!QueueInit, Phase, OpenTargets, NoRow, Open
<1>2. WorkerInv /\ [Next]_vars => [Queue!QueueNext]_Queue!queueVars
  <2> SUFFICES ASSUME WorkerInv, [Next]_vars
               PROVE  Queue!QueueNext \/ UNCHANGED Queue!queueVars
    OBVIOUS
  <2>1. StoreInv /\ StoreTypeOK /\ StoreTypeOK' /\ [Statement]_storeVars
    BY ContractStep, StatementType DEF WorkerInv, StoreInv, LeaseInv
  <2>2. CASE saved' = saved
    BY <2>1, <2>2, QueueStatement, QueueOne, QueueStutter
  <2>3. CASE saved' # saved
    <3>1. UNCHANGED storeVars
      BY <2>3, SavedStep
    <3>2. PICK w \in Workers : SaveResult(w)
      BY <2>3, SavedStep
    <3>3. PICK s \in work[w] : /\ status[cur[w]] = "running"
                               /\ saved' = saved \cup {<<cur[w], s>>}
      BY <3>2 DEF SaveResult, ResultAccepted
    <3>4. cur[w] \in JobId /\ s \in Submissions
      BY <3>2 DEF SaveResult, WorkerInv, TypeOK, LocalInv, HasJob, Running, RunSteps
    <3>5. Queue!Commit(cur[w])
      BY <3>1, <3>3, <3>4 DEF Queue!Commit, Phase, OpenTargets, storeVars
    <3> QED
      BY <3>4, <3>5 DEF Queue!QueueNext
  <2> QED
    BY <2>2, <2>3
<1> QED
  BY <1>1, <1>2, WorkerInvariant, PTL DEF Spec, ImplementsQueue, Queue!QueueSpec
=============================================================================
