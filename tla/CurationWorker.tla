--------------------------- MODULE CurationWorker ---------------------------
(***************************************************************************)
(* The processes around the job queue: the cron worker that recovers,      *)
(* retries, schedules and drains (runScheduledCuration), the scripts that  *)
(* claim one job in their own process, the job runner (runJob), the admin  *)
(* actions and the review of submissions.  Any of them may interleave      *)
(* between two statements, and a process may die at any point.             *)
(***************************************************************************)
EXTENDS CurationJobs

CONSTANTS
  CronWorkers,    \* executions of the Railway cron service
  CliWorkers,     \* operator scripts: refresh.ts, rerun-submission-curation.ts
  Refresh,        \* the submissions with intent = 'refresh'
  AdminOps,       \* bound: which of its operations the admin uses
  OutcomeKinds,   \* bound: which outcomes a run reports
  DryRuns,        \* bound: values of dry_run an admin asks for
  BreakerLimit,   \* LLM_BREAKER_CONSECUTIVE_LIMIT, 3 in the code
  MaxRequests,    \* bound: jobs asked for by an admin or a script
  MaxCrashes      \* bound: processes that die

ASSUME WorkerAssumption ==
  /\ CronWorkers \cup CliWorkers = Workers
  /\ CronWorkers \cap CliWorkers = {}
  /\ Refresh \subseteq Submissions
  /\ AdminOps \subseteq {"enqueue", "rerun", "resume", "phase", "dispatch",
                       "cancel", "approve", "reject"}
  /\ OutcomeKinds \subseteq {"succeeded", "failed", "skipped", "noop", "nochannel"}
  /\ DryRuns \subseteq BOOLEAN
  /\ MaxSlots # 0
  /\ BreakerLimit \in Nat
  /\ MaxRequests \in Nat
  /\ MaxCrashes \in Nat

VARIABLES
  sub,          \* brand_submissions.status; "delisted" = rejected by the verdict pass
  complete,     \* submissions whose enrichment is complete
  saved,        \* <<j, s>>: job j committed an enrichment result of s
  hidden,       \* submissions whose live brand the verdict pass has hidden
  pc,           \* where a process is
  cur,          \* the job it runs, NoJob if none
  lost,         \* leaseLost
  todo,         \* jobs that ensureAutomaticRetries read and has not handled
  work,         \* submissions a loop of the process has not handled
  stopping,     \* the drain loop will not claim again
  slot,         \* the slot a cron execution started in
  dispatching,  \* jobs whose dispatch request is in flight
  clock,        \* the current six-hour slot
  crashes       \* how many processes have died

reviewVars == <<sub, complete, saved, hidden>>
localVars == <<pc, cur, lost, todo, work, stopping, slot>>
envVars == <<dispatching, clock, crashes>>
vars == <<status, meta, dispatch, token, fresh, due, tgt, counts,
          sub, complete, saved, hidden,
          pc, cur, lost, todo, work, stopping, slot,
          dispatching, clock, crashes>>

-----------------------------------------------------------------------------
CronSteps == {"recover", "readFailed", "retry", "scan", "schedule", "claim"}
RunSteps == {"load", "enrich", "mark", "select", "verdict", "complete",
             "sweep", "fail"}
Steps == CronSteps \cup RunSteps \cup {"idle", "claimOwn", "requeue", "settle"}

SubmissionStatus == {"pending", "approved", "rejected", "delisted"}

TypeOK ==
  /\ StoreTypeOK
  /\ sub \in [Submissions -> SubmissionStatus]
  /\ complete \in SUBSET Submissions
  /\ saved \in SUBSET (JobId \X Submissions)
  /\ hidden \in SUBSET Submissions
  /\ pc \in [Workers -> Steps]
  /\ cur \in [Workers -> JobId \cup {NoJob}]
  /\ lost \in [Workers -> BOOLEAN]
  /\ todo \in [Workers -> SUBSET JobId]
  /\ work \in [Workers -> SUBSET Submissions]
  /\ stopping \in [Workers -> BOOLEAN]
  /\ dispatching \in SUBSET JobId
  /\ slot \in [Workers -> 0..MaxSlots]
  /\ clock \in 1..MaxSlots
  /\ crashes \in 0..MaxCrashes

Init ==
  /\ StoreInit
  /\ sub = [s \in Submissions |-> "pending"]
  /\ complete = {}
  /\ saved = {}
  /\ hidden = {}
  /\ pc = [w \in Workers |-> "idle"]
  /\ cur = [w \in Workers |-> NoJob]
  /\ lost = [w \in Workers |-> FALSE]
  /\ todo = [w \in Workers |-> {}]
  /\ work = [w \in Workers |-> {}]
  /\ stopping = [w \in Workers |-> FALSE]
  /\ slot = [w \in Workers |-> 0]
  /\ dispatching = {}
  /\ clock = 1
  /\ crashes = 0

Goto(w, step) == pc' = [pc EXCEPT ![w] = step]

PendingSubmissions == {s \in Submissions : sub[s] = "pending"}
Incomplete == Submissions \ (complete \cup Refresh)

\* The process is between the claim of cur[w] and the end of runJob.
Running(w) == pc[w] \in RunSteps

\* Bound: an admin or a script asks for at most MaxRequests jobs.
MayRequest ==
  Cardinality({j \in JobId : Exists(j) /\ meta[j].trigger \in {"admin", "manual_rerun"}})
    < MaxRequests

-----------------------------------------------------------------------------
(* runScheduledCuration: recover, retry, schedule, then drain the queue *)

CronStart(w) ==
  /\ w \in CronWorkers
  /\ pc[w] = "idle"
  /\ slot' = [slot EXCEPT ![w] = clock]
  /\ Goto(w, "recover")
  /\ UNCHANGED <<storeVars, reviewVars, cur, lost, todo, work, stopping, envVars>>

\* recoverStaleJobs
RecoverStale(w) ==
  /\ pc[w] = "recover"
  /\ Cancel(StaleJobs)
  /\ Goto(w, "readFailed")
  /\ UNCHANGED <<reviewVars, cur, lost, todo, work, stopping, slot, envVars>>

\* ensureAutomaticRetries: one SELECT, then an enqueue per job it returned
ReadFailed(w) ==
  /\ pc[w] = "readFailed"
  /\ todo' = [todo EXCEPT ![w] = AwaitingRetry]
  /\ Goto(w, "retry")
  /\ UNCHANGED <<storeVars, reviewVars, cur, lost, work, stopping, slot, envVars>>

RetryOne(w) ==
  /\ pc[w] = "retry"
  /\ \E j \in todo[w] :
       /\ EnqueueRetry(j)
       /\ todo' = [todo EXCEPT ![w] = @ \ {j}]
  /\ UNCHANGED <<reviewVars, pc, cur, lost, work, stopping, slot, envVars>>

RetriesDone(w) ==
  /\ pc[w] = "retry"
  /\ todo[w] = {}
  /\ Goto(w, "scan")
  /\ UNCHANGED <<storeVars, reviewVars, cur, lost, todo, work, stopping, slot, envVars>>

\* enqueueScheduledSubmissionJob reads the eligible submissions, then enqueues.
ScanPending(w) ==
  /\ pc[w] = "scan"
  /\ work' = [work EXCEPT ![w] =
                {s \in PendingSubmissions :
                   ScheduledEligible(s, s \in Refresh, s \in complete)}]
  /\ Goto(w, "schedule")
  /\ UNCHANGED <<storeVars, reviewVars, cur, lost, todo, stopping, slot, envVars>>

SlotMeta(n) ==
  [trigger |-> "cron", attempt |-> 1, parent |-> NoJob, dry |-> FALSE, slot |-> n]

EnqueueScheduled(w) ==
  /\ pc[w] = "schedule"
  /\ Enqueue(SlotMeta(slot[w]), TRUE, work[w])
  /\ work' = [work EXCEPT ![w] = {}]
  /\ slot' = [slot EXCEPT ![w] = 0]
  /\ Goto(w, "claim")
  /\ UNCHANGED <<reviewVars, cur, lost, todo, stopping, envVars>>

ClaimNext(w) ==
  /\ pc[w] = "claim"
  /\ \E j \in JobId :
       /\ FirstClaimable(j)
       /\ Claim(j, w)
       /\ cur' = [cur EXCEPT ![w] = j]
  /\ lost' = [lost EXCEPT ![w] = FALSE]
  /\ Goto(w, "load")
  /\ UNCHANGED <<reviewVars, todo, work, stopping, slot, envVars>>

\* pg_try_advisory_xact_lock fails while another claim is in progress.
Contended(w) == \E v \in Workers \ {w} : pc[v] \in {"claim", "claimOwn"}

\* No row came back: nothing to claim, a job is running, or the lock is taken.
ClaimNothing(w) ==
  /\ pc[w] = "claim"
  /\ \/ \A j \in JobId : ~Claimable(j)
     \/ ~NothingRunning
     \/ Contended(w)
  /\ Goto(w, "idle")
  /\ UNCHANGED <<storeVars, reviewVars, cur, lost, todo, work, stopping, slot, envVars>>

-----------------------------------------------------------------------------
(* The scripts: enqueue a job without dispatching it, claim that very job *)

AdminMeta(dry) ==
  [trigger |-> "admin", attempt |-> 1, parent |-> NoJob, dry |-> dry, slot |-> 0]

CliStart(w) ==
  /\ w \in CliWorkers
  /\ pc[w] = "idle"
  /\ MayRequest
  /\ \E T \in SUBSET PendingSubmissions \ {{}}, j \in JobId :
       /\ Insert(j, AdminMeta(FALSE), TRUE, T)
       /\ cur' = [cur EXCEPT ![w] = j]
  /\ Goto(w, "claimOwn")
  /\ UNCHANGED <<reviewVars, lost, todo, work, stopping, slot, envVars>>

ClaimOwn(w) ==
  /\ pc[w] = "claimOwn"
  /\ Claim(cur[w], w)
  /\ lost' = [lost EXCEPT ![w] = FALSE]
  /\ Goto(w, "load")
  /\ UNCHANGED <<reviewVars, cur, todo, work, stopping, slot, envVars>>

\* "Could not claim job": the script ends, its job stays in the queue.
ClaimOwnFails(w) ==
  /\ pc[w] = "claimOwn"
  /\ ~Claimable(cur[w]) \/ ~NothingRunning \/ Contended(w)
  /\ Goto(w, "idle")
  /\ cur' = [cur EXCEPT ![w] = NoJob]
  /\ UNCHANGED <<storeVars, reviewVars, lost, todo, work, stopping, slot, envVars>>

-----------------------------------------------------------------------------
(* runJob: the run itself *)

\* The heartbeat interval of runJob, at any point of the run.
Heartbeat(w) ==
  /\ Running(w)
  /\ \/ /\ Owns(cur[w], w)
        /\ Beat(cur[w])
        /\ UNCHANGED lost
     \/ /\ ~Owns(cur[w], w)
        /\ lost' = [lost EXCEPT ![w] = TRUE]
        /\ UNCHANGED storeVars
  /\ UNCHANGED <<reviewVars, pc, cur, todo, work, stopping, slot, envVars>>

\* Mutant: the answer of the fenced statement is ignored and it has no fence.
FencedNot(w, effect, next) == effect /\ Goto(w, next)

\* A fenced statement: its effect if the lease is held, else the run throws.
Fenced(w, effect, next) ==
  \/ Owns(cur[w], w) /\ effect /\ Goto(w, next)
  \/ ~Owns(cur[w], w) /\ UNCHANGED storeVars /\ Goto(w, "fail")

\* filterManualRerunTargets reports the targets of a manual rerun that are no
\* longer pending; the runner then selects the submissions still pending.
Load(w) ==
  LET j == cur[w]
      gone == IF meta[j].trigger = "manual_rerun"
                THEN TargetsOf(j) \ PendingSubmissions ELSE {}
      kept == TargetsOf(j) \ gone
  IN
  /\ pc[w] = "load"
  /\ \/ /\ gone # {}
        /\ Fenced(w, Progress(j, gone, "skipped"),
                  IF kept = {} THEN "mark" ELSE "enrich")
     \/ /\ gone = {}
        /\ UNCHANGED storeVars
        /\ Goto(w, IF kept = {} THEN "mark" ELSE "enrich")
  /\ work' = [work EXCEPT ![w] = kept \cap PendingSubmissions]
  /\ UNCHANGED <<reviewVars, cur, lost, todo, stopping, slot, envVars>>

\* Mutants: a running event is written by the job id alone; a target with an
\* outcome is picked up again by a later phase.
ReportRunningUnfenced(w) ==
  /\ pc[w] = "enrich"
  /\ \E s \in work[w] : Progress(cur[w], {s}, "running")
  /\ UNCHANGED <<reviewVars, localVars, envVars>>

ReportRunningAgain(w) ==
  /\ pc[w] = "enrich"
  /\ \E s \in TargetsOf(cur[w]) : Fenced(w, Progress(cur[w], {s}, "running"), "enrich")
  /\ UNCHANGED <<reviewVars, cur, lost, todo, work, stopping, slot, envVars>>

\* A progress event with status running: queued, flushed and fenced.
ReportRunning(w) ==
  /\ pc[w] = "enrich"
  /\ \E s \in work[w] :
       /\ tgt[cur[w]][s] \in Open
       /\ Fenced(w, Progress(cur[w], {s}, "running"), "enrich")
  /\ UNCHANGED <<reviewVars, cur, lost, todo, work, stopping, slot, envVars>>

\* Mutant: the RPC does not check that the job is running.
ResultAcceptedAnyJob(j, s, checkpointed) ==
  (checkpointed => tgt[j][s] \in Open) /\ sub[s] = "pending"

\* apply_submission_enrichment_result accepts the result of s: the job is
\* running, the row is still open if checkpoints are consumed, and the
\* submission is still pending.
ResultAccepted(j, s, checkpointed) ==
  /\ status[j] = "running"
  /\ checkpointed => tgt[j][s] \in Open
  /\ sub[s] = "pending"

\* A target that is in flight when another one makes the run throw still
\* writes its result, so a result may also arrive while the run fails.
SaveResult(w) ==
  /\ pc[w] \in {"enrich", "fail"}
  /\ ~meta[cur[w]].dry
  /\ \E s \in work[w], checkpointed \in BOOLEAN :
       /\ ResultAccepted(cur[w], s, checkpointed)
       /\ saved' = saved \cup {<<cur[w], s>>}
       /\ \/ complete' = complete \cup {s}
          \/ complete' = complete
  /\ UNCHANGED <<storeVars, sub, hidden, localVars, envVars>>

\* The outcomes recordOutcome may report for s: a success only after the
\* result was written, or in a dry run, which writes none.
Outcomes(j, s) ==
  {o \in OutcomeKinds :
     /\ o = "succeeded" => <<j, s>> \in saved \/ meta[j].dry
     /\ o \in {"noop", "nochannel"} => <<j, s>> \notin saved}

\* recordOutcome.  After a terminal report whose answer was lost, failBrand
\* reports the target again, as failed.
ReportOutcome(w) ==
  /\ pc[w] = "enrich"
  /\ \E s \in work[w] : \E o \in Outcomes(cur[w], s) :
       /\ tgt[cur[w]][s] \in Open \/ o = "failed"
       /\ Fenced(w, Progress(cur[w], {s}, o), "enrich")
       /\ work' = [work EXCEPT ![w] = @ \ {s}]
  /\ UNCHANGED <<reviewVars, cur, lost, todo, stopping, slot, envVars>>

\* A report from a target still in flight while the run fails, or one that
\* commits while its answer is lost: the target stays to be reported.
ReportUnanswered(w) ==
  /\ pc[w] \in {"enrich", "fail"}
  /\ Owns(cur[w], w)
  /\ \E s \in work[w] : \E o \in Outcomes(cur[w], s) \cup {"running"} :
       /\ tgt[cur[w]][s] \in Open \/ o = "failed"
       /\ Progress(cur[w], {s}, o)
  /\ UNCHANGED <<reviewVars, localVars, envVars>>

EnrichDone(w) ==
  /\ pc[w] = "enrich"
  /\ work[w] = {}
  /\ Goto(w, "mark")
  /\ UNCHANGED <<storeVars, reviewVars, cur, lost, todo, work, stopping, slot, envVars>>

\* Consecutive provider failures raise the flag; the error is thrown once the
\* chunk has drained, so no target is between its result and its report.
BreakerTrips(w) ==
  /\ pc[w] = "enrich"
  /\ Cardinality({s \in Submissions : tgt[cur[w]][s] = "failed"}) >= BreakerLimit
  /\ \A s \in work[w] : <<cur[w], s>> \notin saved
  /\ stopping' = [stopping EXCEPT ![w] = TRUE]
  /\ work' = [work EXCEPT ![w] = {}]
  /\ Goto(w, "sweep")
  /\ UNCHANGED <<storeVars, reviewVars, cur, lost, todo, slot, envVars>>

\* Any other error: a statement that fails, a bad row, a lost connection.
Throw(w) ==
  /\ pc[w] \in {"load", "enrich", "mark", "select", "complete"}
  /\ Goto(w, "fail")
  /\ UNCHANGED <<storeVars, reviewVars, cur, lost, todo, work, stopping, slot, envVars>>

-----------------------------------------------------------------------------
(* finalizeSuccessfulJob *)

Mark(w) ==
  /\ pc[w] = "mark"
  /\ Fenced(w, MarkUnreported(cur[w]), "select")
  /\ UNCHANGED <<reviewVars, cur, lost, todo, work, stopping, slot, envVars>>

\* Mutant: an inconclusive skip is taken for a verdict.
VerdictTargetsInconclusive(j) ==
  {s \in PendingSubmissions : tgt[j][s] \in {"skipped", "nochannel"}}

\* selectVerdictTargets: skipped for want of a channel, and still pending
VerdictTargets(j) ==
  {s \in PendingSubmissions : tgt[j][s] = "nochannel"}

\* Mutant: a dry run reaches the verdict pass.
SelectDry(w) ==
  /\ pc[w] = "select"
  /\ \/ lost[w] /\ Goto(w, "fail") /\ UNCHANGED work
     \/ ~lost[w] /\ Goto(w, "verdict") /\ work' = [work EXCEPT ![w] = VerdictTargets(cur[w])]
  /\ UNCHANGED <<storeVars, reviewVars, cur, lost, todo, stopping, slot, envVars>>

\* The lease flag is read before the verdict pass, never during it.
Select(w) ==
  LET j == cur[w] IN
  /\ pc[w] = "select"
  /\ \/ lost[w] /\ Goto(w, "fail") /\ UNCHANGED work
     \/ ~lost[w] /\ meta[j].dry /\ Goto(w, "complete") /\ UNCHANGED work
     \/ /\ ~lost[w] /\ ~meta[j].dry
        /\ Goto(w, "verdict")
        /\ work' = [work EXCEPT ![w] = VerdictTargets(j)]
  /\ UNCHANGED <<storeVars, reviewVars, cur, lost, todo, stopping, slot, envVars>>

\* A refresh: the live brand is hidden, then the submission is rejected.
HideBrand(w) ==
  /\ pc[w] = "verdict"
  /\ \E s \in work[w] \cap Refresh : hidden' = hidden \cup {s}
  /\ UNCHANGED <<storeVars, sub, complete, saved, localVars, envVars>>

\* reject_submission: no lease, but the row must be pending and not active.
MayReject(s) == sub[s] = "pending" /\ ~StillActive(s)

VerdictReject(w) ==
  /\ pc[w] = "verdict"
  /\ \E s \in work[w] :
       /\ s \in Refresh => s \in hidden
       /\ MayReject(s)
       /\ sub' = [sub EXCEPT ![s] = "delisted"]
       /\ work' = [work EXCEPT ![w] = @ \ {s}]
  /\ UNCHANGED <<storeVars, complete, saved, hidden, pc, cur, lost, todo,
                 stopping, slot, envVars>>

\* A hide or a reject that fails costs its own target only.
VerdictSkip(w) ==
  /\ pc[w] = "verdict"
  /\ \E s \in work[w] : work' = [work EXCEPT ![w] = @ \ {s}]
  /\ UNCHANGED <<storeVars, reviewVars, pc, cur, lost, todo, stopping, slot, envVars>>

VerdictDone(w) ==
  /\ pc[w] = "verdict"
  /\ work[w] = {}
  /\ Goto(w, "complete")
  /\ UNCHANGED <<storeVars, reviewVars, cur, lost, todo, work, stopping, slot, envVars>>

\* The targets are listed and counted; finalize does not set cancelled_count.
CompleteJob(w) ==
  LET j == cur[w] IN
  /\ pc[w] = "complete"
  /\ Fenced(w, Finalize(j, "completed",
                        [Tally(tgt[j]) EXCEPT !.cancelled = counts[j].cancelled]),
            "settle")
  /\ UNCHANGED <<reviewVars, cur, lost, todo, work, stopping, slot, envVars>>

-----------------------------------------------------------------------------
(* The catch of runJob, and the end of one job *)

\* A failure of the sweep is logged, never thrown again.
Sweep(w) ==
  /\ pc[w] = "sweep"
  /\ SweepTargets(cur[w]) \/ UNCHANGED storeVars
  /\ Goto(w, "fail")
  /\ UNCHANGED <<reviewVars, cur, lost, todo, work, stopping, slot, envVars>>

FinalizeFailed(w) ==
  LET j == cur[w]
      first == meta[j].trigger # "automatic_retry" /\ meta[j].attempt = 1
  IN
  /\ pc[w] = "fail"
  /\ \/ /\ Owns(j, w)
        /\ Finalize(j, "failed", counts[j])
        /\ Goto(w, IF first THEN "requeue" ELSE "settle")
     \/ /\ ~Owns(j, w)
        /\ UNCHANGED storeVars
        /\ Goto(w, "settle")
  /\ UNCHANGED <<reviewVars, cur, lost, todo, work, stopping, slot, envVars>>

Requeue(w) ==
  /\ pc[w] = "requeue"
  /\ EnqueueRetry(cur[w])
  /\ Goto(w, "settle")
  /\ UNCHANGED <<reviewVars, cur, lost, todo, work, stopping, slot, envVars>>

\* onJobSettled, then the drain loop or the end of the process
Settle(w) ==
  LET again == w \in CronWorkers /\ ~stopping[w] IN
  /\ pc[w] = "settle"
  /\ Goto(w, IF again THEN "claim" ELSE "idle")
  /\ cur' = [cur EXCEPT ![w] = NoJob]
  /\ lost' = [lost EXCEPT ![w] = FALSE]
  /\ work' = [work EXCEPT ![w] = {}]
  /\ stopping' = [stopping EXCEPT ![w] = FALSE]
  /\ UNCHANGED <<storeVars, reviewVars, todo, slot, envVars>>

\* The soft deadline of the drain loop, four hours in: never before the first
\* claim, which comes seconds after the start.
SoftDeadline(w) ==
  /\ w \in CronWorkers
  /\ Running(w)
  /\ stopping' = [stopping EXCEPT ![w] = TRUE]
  /\ UNCHANGED <<storeVars, reviewVars, pc, cur, lost, todo, work, slot, envVars>>

\* onHardCap: the job in flight is cancelled while the drain loop still runs;
\* the process.exit that follows is Crash.
HardCap(w) ==
  /\ w \in CronWorkers
  /\ Running(w) \/ pc[w] \in {"requeue", "settle"}
  /\ stopping[w]
  /\ Cancel({cur[w]})
  /\ UNCHANGED <<reviewVars, localVars, envVars>>

Crash(w) ==
  /\ pc[w] # "idle"
  /\ crashes < MaxCrashes
  /\ crashes' = crashes + 1
  /\ Goto(w, "idle")
  /\ cur' = [cur EXCEPT ![w] = NoJob]
  /\ lost' = [lost EXCEPT ![w] = FALSE]
  /\ todo' = [todo EXCEPT ![w] = {}]
  /\ work' = [work EXCEPT ![w] = {}]
  /\ stopping' = [stopping EXCEPT ![w] = FALSE]
  /\ slot' = [slot EXCEPT ![w] = 0]
  /\ UNCHANGED <<storeVars, reviewVars, dispatching, clock>>

-----------------------------------------------------------------------------
(* The admin actions and the review of submissions *)

Dispatching(j) == dispatching' = dispatching \cup {j}

\* startCurationJobAction: resolve the targets, enqueue, start the dispatch
AdminEnqueue ==
  /\ "enqueue" \in AdminOps
  /\ MayRequest
  /\ \E T \in SUBSET PendingSubmissions \ {{}}, j \in JobId, dry \in DryRuns :
       /\ Insert(j, AdminMeta(dry), TRUE, T)
       /\ Dispatching(j)
  /\ UNCHANGED <<reviewVars, localVars, clock, crashes>>

\* rerunCurationJobAction, resumeCurationJobAction, retryPhaseAction
AdminRecover ==
  /\ MayRequest
  /\ \E src, j \in JobId, T \in SUBSET Submissions,
        kind \in AdminOps \cap {"rerun", "resume", "phase"} :
       /\ Exists(src)
       /\ T # {}
       /\ \/ kind = "phase" /\ \E s \in TargetsOf(src) \cap PendingSubmissions : T = {s}
          \/ kind # "phase" /\ T = RecoveryTargets(src, kind, PendingSubmissions, Incomplete)
       /\ Insert(j, [trigger |-> "manual_rerun", attempt |-> 1, parent |-> src,
                     dry |-> meta[src].dry, slot |-> 0], TRUE, T)
       /\ Dispatching(j)
  /\ UNCHANGED <<reviewVars, localVars, clock, crashes>>

\* dispatchCurationJobAction on a pending job
Redispatch(j) ==
  /\ "dispatch" \in AdminOps
  /\ status[j] = "pending"
  /\ Dispatching(j)
  /\ UNCHANGED <<storeVars, reviewVars, localVars, clock, crashes>>

\* The request was accepted; recording that may itself fail and is only logged.
DispatchAccepted(j) ==
  /\ j \in dispatching
  /\ MarkDispatched(j) \/ UNCHANGED storeVars
  /\ dispatching' = dispatching \ {j}
  /\ UNCHANGED <<reviewVars, localVars, clock, crashes>>

DispatchRefused(j) ==
  /\ j \in dispatching
  /\ RecordDispatchFailure(j) \/ UNCHANGED storeVars
  /\ dispatching' = dispatching \ {j}
  /\ UNCHANGED <<reviewVars, localVars, clock, crashes>>

\* cancelCurationJobAction
AdminCancel(j) ==
  /\ "cancel" \in AdminOps
  /\ status[j] \in Active
  /\ Cancel({j})
  /\ UNCHANGED <<reviewVars, localVars, envVars>>

\* approve_submission: a new submission that is complete, and whose newest row
\* that is not a no-op succeeded.
Approve(s) ==
  /\ "approve" \in AdminOps
  /\ sub[s] = "pending"
  /\ s \in complete \ Refresh
  /\ LatestRow(s) = "succeeded"
  /\ sub' = [sub EXCEPT ![s] = "approved"]
  /\ UNCHANGED <<storeVars, complete, saved, hidden, localVars, envVars>>

\* apply_brand_refresh_with_protected_location_gate: a refresh, by the same row;
\* what it lacks the brand already has.
ApplyRefresh(s) ==
  /\ "approve" \in AdminOps
  /\ sub[s] = "pending"
  /\ s \in Refresh
  /\ LatestRow(s) = "succeeded"
  /\ sub' = [sub EXCEPT ![s] = "approved"]
  /\ UNCHANGED <<storeVars, complete, saved, hidden, localVars, envVars>>

AdminReject(s) ==
  /\ "reject" \in AdminOps
  /\ MayReject(s)
  /\ sub' = [sub EXCEPT ![s] = "rejected"]
  /\ UNCHANGED <<storeVars, complete, saved, hidden, localVars, envVars>>

-----------------------------------------------------------------------------
(* Time *)

\* Ten minutes without a heartbeat: the process is dead, or alive and cut off.
Lapse(j) ==
  /\ status[j] = "running"
  /\ fresh[j]
  /\ fresh' = [fresh EXCEPT ![j] = FALSE]
  /\ UNCHANGED <<status, meta, dispatch, token, due, tgt, counts,
                 reviewVars, localVars, envVars>>

BecomeDue(j) ==
  /\ Exists(j)
  /\ ~due[j]
  /\ due' = [due EXCEPT ![j] = TRUE]
  /\ UNCHANGED <<status, meta, dispatch, token, fresh, tgt, counts,
                 reviewVars, localVars, envVars>>

NextSlot ==
  /\ clock < MaxSlots
  /\ clock' = clock + 1
  /\ UNCHANGED <<storeVars, reviewVars, localVars, dispatching, crashes>>

-----------------------------------------------------------------------------
CronStep(w) ==
  \/ RecoverStale(w) \/ ReadFailed(w) \/ RetryOne(w) \/ RetriesDone(w)
  \/ ScanPending(w) \/ EnqueueScheduled(w) \/ ClaimNext(w) \/ ClaimNothing(w)

CliStep(w) == ClaimOwn(w) \/ ClaimOwnFails(w)

RunStep(w) ==
  \/ Load(w) \/ ReportOutcome(w) \/ EnrichDone(w)
  \/ Mark(w) \/ Select(w) \/ VerdictReject(w) \/ VerdictSkip(w) \/ VerdictDone(w)
  \/ CompleteJob(w) \/ Sweep(w) \/ FinalizeFailed(w) \/ Requeue(w) \/ Settle(w)

\* What may happen to a run but need not.
RunEvent(w) ==
  \/ Heartbeat(w) \/ ReportRunning(w) \/ SaveResult(w) \/ ReportUnanswered(w)
  \/ BreakerTrips(w) \/ Throw(w) \/ HideBrand(w) \/ SoftDeadline(w) \/ HardCap(w) \/ Crash(w)

WorkerStep(w) == CronStep(w) \/ CliStep(w) \/ RunStep(w)

AdminStep ==
  \/ AdminEnqueue
  \/ AdminRecover
  \/ \E j \in JobId : \/ Redispatch(j) \/ DispatchAccepted(j)
                        \/ DispatchRefused(j) \/ AdminCancel(j)
  \/ \E s \in Submissions : Approve(s) \/ ApplyRefresh(s) \/ AdminReject(s)

TimeStep == NextSlot \/ \E j \in JobId : Lapse(j) \/ BecomeDue(j)

Next ==
  \/ \E w \in Workers : CronStart(w) \/ CliStart(w) \/ WorkerStep(w) \/ RunEvent(w)
  \/ AdminStep
  \/ TimeStep

Spec == Init /\ [][Next]_vars

\* Railway starts the cron service again and again; a live process is never
\* held up for ever; time passes.  A process may die, an admin may do nothing,
\* and a heartbeat, a result or an error need never come.
Fairness ==
  /\ \A w \in Workers : WF_vars(WorkerStep(w)) /\ WF_vars(CronStart(w))
  /\ \A j \in JobId : /\ WF_vars(BecomeDue(j))
                       /\ WF_vars((\A w \in Workers : cur[w] # j) /\ Lapse(j))

FairSpec == Spec /\ Fairness

-----------------------------------------------------------------------------
(* What is always true *)

\* Two processes never run the same job, and the job a process runs is either
\* still its own or was cancelled under it: nobody else completes or fails it.
ExclusiveRun ==
  \A w \in Workers : Running(w) =>
    /\ cur[w] # NoJob
    /\ Owns(cur[w], w) \/ status[cur[w]] = "cancelled"
    /\ \A v \in Workers \ {w} : Running(v) => cur[v] # cur[w]

\* The counters of a completed job, which two different code paths compute
\* (the progress RPC in SQL, summaryFromTargets in the runner), agree with its
\* target rows, and so do those of a cancelled job.
CountsMatch ==
  \A j \in JobId : status[j] \in {"completed", "cancelled"} => counts[j] = Tally(tgt[j])

\* An automatic rejection rests on a run that could write: some job that was
\* not a dry run reported the submission as having no purchase channel.
VerdictJustified ==
  \A s \in Submissions : sub[s] = "delisted" =>
    \E j \in JobId : ~meta[j].dry /\ tgt[j][s] = "nochannel"

-----------------------------------------------------------------------------
(* What a step may never do *)

\* An enrichment result is written only by the holder of the job's lease,
\* although the RPC that writes it checks no token, and only to a submission
\* nobody has reviewed yet.
ResultsAreFenced ==
  [][\A j \in JobId, s \in Submissions : <<j, s>> \in saved' \ saved =>
       /\ \E w \in Workers : cur[w] = j /\ Owns(j, w)
       /\ sub[s] = "pending"]_vars

-----------------------------------------------------------------------------
(* What must eventually happen *)

\* Every job that waits or runs ends: no failed job, retry, refused dispatch or
\* crash leaves it in the queue for ever, and if its process dies at any point
\* the heartbeat grows stale and a cron execution cancels it.
QueueDrains == \A j \in JobId : status[j] \in Active ~> status[j] \in Ended

\* A failed job with attempts and open targets left is continued by an
\* automatic retry, even if the process died before it could enqueue it.
FailuresRetried ==
  \A j \in JobId :
    status[j] = "failed" /\ Retriable(j) ~>
      \E k \in JobId : /\ Exists(k)
                       /\ meta[k].trigger = "automatic_retry"
                       /\ meta[k].parent = j

-----------------------------------------------------------------------------
(* The queue as its users see it *)

Phase(j) ==
  CASE status[j] = "absent"  -> "absent"
    [] status[j] = "pending" -> "queued"
    [] status[j] = "running" -> "leased"
    [] OTHER                 -> "closed"

Queue == INSTANCE LeaseQueue WITH
  Job <- JobId, Item <- Submissions, Holder <- Workers, Nobody <- NoWorker,
  phase <- [j \in JobId |-> Phase(j)], holder <- token,
  left <- [j \in JobId |-> OpenTargets(j)], committed <- saved

\* The job tables and the processes around them implement a queue of leased
\* jobs: one lease at a time, outcomes and results only under the lease, a
\* claimed job never handed out again, and closed work left as it was.
ImplementsQueue == Queue!QueueSpec

\* Every step of every process, whatever it interleaves with, is a statement
\* that the contract of the job tables allows, or leaves the tables alone.
KeepsContract == StoreSpec

-----------------------------------------------------------------------------
(* What the documentation says and the code does not do *)

\* "canonical brand/submission writes are fenced so provider work that returns
\* after cancellation cannot become canonical": a submission is rejected by the
\* verdict pass only while a job that found no channel for it is not cancelled.
NoVerdictAfterCancel ==
  [][\A s \in Submissions : sub[s] = "pending" /\ sub'[s] = "delisted" =>
       \E j \in JobId : status[j] # "cancelled" /\ tgt[j][s] = "nochannel"]_vars
=============================================================================
