---------------------------- MODULE CurationJobs ----------------------------
(***************************************************************************)
(* The durable queue of enrichment jobs: the tables curation_jobs and      *)
(* curation_job_targets, and what each statement the code sends to them    *)
(* does, as one action predicate per statement or RPC.  Postgres runs each *)
(* of them as one transaction, so each is one atomic change here.  Who     *)
(* sends them, and in which order, is module CurationWorker.               *)
(***************************************************************************)
EXTENDS Naturals, FiniteSets

CONSTANTS
  Submissions,    \* ids of brand_submissions rows
  Workers,        \* processes that may claim a job
  NoWorker,       \* worker_token is null
  MaxJobs,        \* bound: rows of curation_jobs
  MaxSlots,       \* bound: six-hour schedule slots
  RetryAttempts   \* RETRY_ATTEMPTS, 3 in the code

ASSUME JobsAssumption ==
  /\ IsFiniteSet(Submissions)
  /\ NoWorker \notin Workers
  /\ MaxJobs \in Nat
  /\ MaxSlots \in Nat
  /\ RetryAttempts \in Nat \ {0}

VARIABLES
  status,    \* curation_jobs.status, "absent" before the row is inserted
  meta,      \* trigger, attempt, parent_job_id, dry_run, dedupe_key
  dispatch,  \* curation_jobs.dispatch_status
  token,     \* curation_jobs.worker_token
  fresh,     \* heartbeat_at is younger than JOB_STALE_AFTER_MS
  due,       \* run_after has passed
  tgt,       \* curation_job_targets.status, per job and submission
  counts     \* the *_count columns of curation_jobs

storeVars == <<status, meta, dispatch, token, fresh, due, tgt, counts>>

-----------------------------------------------------------------------------
\* Jobs are numbered in the order of (created_at, id).
JobId == 1..MaxJobs
NoJob == 0

JobStatus == {"absent", "pending", "running", "completed", "failed", "cancelled"}
Active == {"pending", "running"}
Ended == {"completed", "failed", "cancelled"}

Trigger == {"admin", "cron", "automatic_retry", "manual_rerun"}
Meta == [trigger: Trigger, attempt: 1..RetryAttempts, parent: 0..MaxJobs,
         dry: BOOLEAN, slot: 0..MaxSlots]

DispatchStatus == {"pending", "dispatched", "failed"}

\* A skipped row is told apart by what later readers look at: "noop" has
\* no_op = true, "nochannel" carries a conclusive no_purchase_channel error.
Open == {"pending", "running"}
Skips == {"skipped", "noop", "nochannel"}
Settled == Skips \cup {"succeeded", "failed", "cancelled"}
TargetStatus == {"none"} \cup Open \cup Settled

NoRow == [s \in Submissions |-> "none"]
BlankMeta == [trigger |-> "admin", attempt |-> 1, parent |-> NoJob,
              dry |-> FALSE, slot |-> 0]

Tally(row) ==
  [succeeded |-> Cardinality({s \in Submissions : row[s] = "succeeded"}),
   skipped   |-> Cardinality({s \in Submissions : row[s] \in Skips}),
   failed    |-> Cardinality({s \in Submissions : row[s] = "failed"}),
   cancelled |-> Cardinality({s \in Submissions : row[s] = "cancelled"})]

ZeroTally == [succeeded |-> 0, skipped |-> 0, failed |-> 0, cancelled |-> 0]
Tallies == [succeeded: Nat, skipped: Nat, failed: Nat, cancelled: Nat]

Exists(j) == status[j] # "absent"
TargetsOf(j) == {s \in Submissions : tgt[j][s] # "none"}
OpenTargets(j) == {s \in Submissions : tgt[j][s] \in Open}

StoreTypeOK ==
  /\ status \in [JobId -> JobStatus]
  /\ meta \in [JobId -> Meta]
  /\ dispatch \in [JobId -> DispatchStatus]
  /\ token \in [JobId -> Workers \cup {NoWorker}]
  /\ fresh \in [JobId -> BOOLEAN]
  /\ due \in [JobId -> BOOLEAN]
  /\ tgt \in [JobId -> [Submissions -> TargetStatus]]
  /\ counts \in [JobId -> Tallies]

StoreInit ==
  /\ status = [j \in JobId |-> "absent"]
  /\ meta = [j \in JobId |-> BlankMeta]
  /\ dispatch = [j \in JobId |-> "pending"]
  /\ token = [j \in JobId |-> NoWorker]
  /\ fresh = [j \in JobId |-> FALSE]
  /\ due = [j \in JobId |-> FALSE]
  /\ tgt = [j \in JobId |-> NoRow]
  /\ counts = [j \in JobId |-> ZeroTally]

-----------------------------------------------------------------------------
(* enqueue_curation_job *)

IsNext(j) == status[j] = "absent" /\ \A i \in JobId : i < j => Exists(i)

\* Mutants: one of the two unique indexes is missing.
SameSlotOnly(k, m) == Exists(k) /\ m.slot # 0 /\ meta[k].slot = m.slot

SameRetryOnly(k, m) ==
  /\ Exists(k)
  /\ m.trigger = "automatic_retry" /\ meta[k].trigger = "automatic_retry"
  /\ meta[k].parent = m.parent

\* The row that a unique index would make the insert collide with: the same
\* dedupe_key, or the automatic retry of the same parent.
SameRequest(k, m) ==
  /\ Exists(k)
  /\ \/ m.slot # 0 /\ meta[k].slot = m.slot
     \/ /\ m.trigger = "automatic_retry"
        /\ meta[k].trigger = "automatic_retry"
        /\ meta[k].parent = m.parent

Insert(j, m, ready, T) ==
  /\ IsNext(j)
  /\ status' = [status EXCEPT ![j] = "pending"]
  /\ meta' = [meta EXCEPT ![j] = m]
  /\ due' = [due EXCEPT ![j] = ready]
  /\ tgt' = [tgt EXCEPT ![j] =
               [s \in Submissions |-> IF s \in T THEN "pending" ELSE "none"]]
  /\ UNCHANGED <<dispatch, token, fresh, counts>>

\* ON CONFLICT DO NOTHING, then the id of the row that was already there.
Enqueue(m, ready, T) ==
  \/ /\ \E k \in JobId : SameRequest(k, m)
     /\ UNCHANGED storeVars
  \/ /\ ~ \E k \in JobId : SameRequest(k, m)
     /\ \E j \in JobId : Insert(j, m, ready, T)

-----------------------------------------------------------------------------
(* claim_next_curation_job, claim_curation_job, and the dispatch columns *)

\* Mutants: a failed job may be claimed again; a claim waits for the dispatch.
ClaimableAgain(j) ==
  status[j] \in {"pending", "failed"} /\ dispatch[j] # "failed" /\ due[j]
ClaimableDispatched(j) == status[j] = "pending" /\ dispatch[j] = "dispatched" /\ due[j]

Claimable(j) == status[j] = "pending" /\ dispatch[j] # "failed" /\ due[j]

NothingRunning == \A k \in JobId : status[k] # "running"

\* ORDER BY created_at, id LIMIT 1
FirstClaimable(j) ==
  Claimable(j) /\ \A i \in JobId : i < j => ~Claimable(i)

\* Mutant: the claim does not look for a running job.
ClaimUnguarded(j, w) ==
  /\ Claimable(j)
  /\ status' = [status EXCEPT ![j] = "running"]
  /\ token' = [token EXCEPT ![j] = w]
  /\ fresh' = [fresh EXCEPT ![j] = TRUE]
  /\ dispatch' = [dispatch EXCEPT ![j] = "dispatched"]
  /\ UNCHANGED <<meta, due, tgt, counts>>

Claim(j, w) ==
  /\ Claimable(j)
  /\ NothingRunning
  /\ status' = [status EXCEPT ![j] = "running"]
  /\ token' = [token EXCEPT ![j] = w]
  /\ fresh' = [fresh EXCEPT ![j] = TRUE]
  /\ dispatch' = [dispatch EXCEPT ![j] = "dispatched"]
  /\ UNCHANGED <<meta, due, tgt, counts>>

\* markCurationJobDispatched: only a pending or running row is updated.
MarkDispatched(j) ==
  /\ dispatch' = [dispatch EXCEPT ![j] =
                    IF status[j] \in Active THEN "dispatched" ELSE @]
  /\ UNCHANGED <<status, meta, token, fresh, due, tgt, counts>>

\* Mutant: the refused dispatch of a job already claimed fails it.
RecordDispatchFailureLate(j) ==
  LET hit == status[j] \in Active IN
  /\ status' = [status EXCEPT ![j] = IF hit THEN "failed" ELSE @]
  /\ dispatch' = [dispatch EXCEPT ![j] = IF hit THEN "failed" ELSE @]
  /\ UNCHANGED <<meta, token, fresh, due, tgt, counts>>

\* recordCurationDispatchFailure: only a pending row is updated.
RecordDispatchFailure(j) ==
  LET hit == status[j] = "pending" IN
  /\ status' = [status EXCEPT ![j] = IF hit THEN "failed" ELSE @]
  /\ dispatch' = [dispatch EXCEPT ![j] = IF hit THEN "failed" ELSE @]
  /\ UNCHANGED <<meta, token, fresh, due, tgt, counts>>

-----------------------------------------------------------------------------
(* cancel_curation_job, and recover_stale_curation_jobs which calls it in a *)
(* loop: the rows J that are still active are cancelled with their targets. *)

\* Mutants: a status no reader knows; the target in hand is forgotten.
CancelledRowUnknown(row) ==
  [s \in Submissions |-> IF row[s] \in Open THEN "abandoned" ELSE row[s]]
CancelledRowQueued(row) ==
  [s \in Submissions |-> IF row[s] = "pending" THEN "cancelled" ELSE row[s]]

CancelledRow(row) ==
  [s \in Submissions |-> IF row[s] \in Open THEN "cancelled" ELSE row[s]]

\* Mutant: the counters are not counted again.
CancelUncounted(J) ==
  LET hit == {j \in J : status[j] \in Active} IN
  /\ status' = [j \in JobId |-> IF j \in hit THEN "cancelled" ELSE status[j]]
  /\ token' = [j \in JobId |-> IF j \in hit THEN NoWorker ELSE token[j]]
  /\ tgt' = [j \in JobId |-> IF j \in hit THEN CancelledRow(tgt[j]) ELSE tgt[j]]
  /\ fresh' = [j \in JobId |-> IF j \in hit THEN TRUE ELSE fresh[j]]
  /\ UNCHANGED <<meta, dispatch, due, counts>>

Cancel(J) ==
  LET hit == {j \in J : status[j] \in Active} IN
  /\ status' = [j \in JobId |-> IF j \in hit THEN "cancelled" ELSE status[j]]
  /\ token' = [j \in JobId |-> IF j \in hit THEN NoWorker ELSE token[j]]
  /\ tgt' = [j \in JobId |-> IF j \in hit THEN CancelledRow(tgt[j]) ELSE tgt[j]]
  /\ counts' = [j \in JobId |->
                  IF j \in hit THEN Tally(CancelledRow(tgt[j])) ELSE counts[j]]
  /\ fresh' = [j \in JobId |-> IF j \in hit THEN TRUE ELSE fresh[j]]
  /\ UNCHANGED <<meta, dispatch, due>>

StaleJobs == {j \in JobId : status[j] = "running" /\ ~fresh[j]}

-----------------------------------------------------------------------------
(* The statements a worker sends for the job it runs *)

\* id = p_job_id AND status = 'running' AND worker_token = p_worker_token
Owns(j, w) == status[j] = "running" /\ token[j] = w

Beat(j) ==
  /\ fresh' = [fresh EXCEPT ![j] = TRUE]
  /\ UNCHANGED <<status, meta, dispatch, token, due, tgt, counts>>

\* persist_curation_job_target_progress once the lease is found: the rows of T
\* get the status st, the counters are counted again.
Progress(j, T, st) ==
  LET row == [s \in Submissions |-> IF s \in T THEN st ELSE tgt[j][s]] IN
  /\ tgt' = [tgt EXCEPT ![j] = row]
  /\ counts' = [counts EXCEPT ![j] = Tally(row)]
  /\ fresh' = [fresh EXCEPT ![j] = TRUE]
  /\ UNCHANGED <<status, meta, dispatch, token, due>>

\* mark_unreported_curation_job_targets_skipped once the lease is found
MarkUnreported(j) == Progress(j, OpenTargets(j), "skipped")

\* cancelUnstartedTargets: an update on the job id alone, no lease, no recount
SweepTargets(j) ==
  /\ tgt' = [tgt EXCEPT ![j] = CancelledRow(@)]
  /\ UNCHANGED <<status, meta, dispatch, token, fresh, due, counts>>

\* finalizeCurationJob once the lease is found: worker_token is cleared.
Finalize(j, st, tally) ==
  /\ status' = [status EXCEPT ![j] = st]
  /\ token' = [token EXCEPT ![j] = NoWorker]
  /\ fresh' = [fresh EXCEPT ![j] = TRUE]
  /\ counts' = [counts EXCEPT ![j] = tally]
  /\ UNCHANGED <<meta, dispatch, due, tgt>>

-----------------------------------------------------------------------------
(* Which targets a new job gets *)

\* enqueueAutomaticRetry: the targets the failed job left pending or running
RetryMeta(j) ==
  [trigger |-> "automatic_retry", attempt |-> meta[j].attempt + 1, parent |-> j,
   dry |-> meta[j].dry, slot |-> 0]

Retriable(j) == meta[j].attempt < RetryAttempts /\ OpenTargets(j) # {}

\* Mutant: the targets the circuit breaker swept are retried too.
EnqueueRetrySwept(j) ==
  LET T == OpenTargets(j) \cup {s \in Submissions : tgt[j][s] = "cancelled"} IN
  \/ meta[j].attempt < RetryAttempts /\ T # {} /\ Enqueue(RetryMeta(j), FALSE, T)
  \/ (meta[j].attempt >= RetryAttempts \/ T = {}) /\ UNCHANGED storeVars

EnqueueRetry(j) ==
  \/ Retriable(j) /\ Enqueue(RetryMeta(j), FALSE, OpenTargets(j))
  \/ ~Retriable(j) /\ UNCHANGED storeVars

\* Mutant: only jobs that failed to dispatch are looked at.
AwaitingRetryRefused ==
  {j \in JobId : /\ status[j] = "failed"
                 /\ dispatch[j] = "failed"
                 /\ meta[j].attempt < RetryAttempts}

\* ensureAutomaticRetries: status failed, attempt below the cap, and dispatched
\* or failed to dispatch
AwaitingRetry ==
  {j \in JobId : /\ status[j] = "failed"
                 /\ dispatch[j] \in {"dispatched", "failed"}
                 /\ meta[j].attempt < RetryAttempts}

\* resolvePendingSubmissionTargets over one submission: h is the bag of the
\* statuses of its rows, as the set of jobs that have one.
History(s) == {j \in JobId : tgt[j][s] # "none"}

ScheduledEligible(s, isRefresh, complete) ==
  \/ ~isRefresh /\ ~complete /\ History(s) = {}
  \/ isRefresh /\ History(s) = {}
  \/ isRefresh /\ \E j \in JobId : History(s) = {j} /\ tgt[j][s] = "failed"

\* isManualRerunTargetEligible
RerunEligible(j, s, incomplete) ==
  \/ incomplete
  \/ status[j] = "completed" /\ tgt[j][s] \in {"failed"} \cup Skips
  \/ status[j] \in {"failed", "cancelled"} /\ tgt[j][s] \in Open \cup {"failed", "cancelled"}

\* The targets of j that a recovery of the given kind takes over;
\* pending and incomplete are sets of submissions.
RecoveryTargets(j, kind, pending, incomplete) ==
  {s \in TargetsOf(j) \cap pending :
     \/ kind = "resume" /\ tgt[j][s] \in {"failed", "cancelled"}
     \/ kind = "rerun" /\ RerunEligible(j, s, s \in incomplete)}

\* The newest row of s that is not a no-op: what the approve and apply gates read.
LatestRow(s) ==
  LET rows == {j \in History(s) : tgt[j][s] # "noop"} IN
  IF rows = {} THEN "none" ELSE tgt[CHOOSE j \in rows : \A k \in rows : k <= j][s]

\* The gate of reject_submission: an unfinished target in a job that may run.
StillActive(s) ==
  \E j \in JobId : /\ tgt[j][s] \in Open
                   /\ status[j] \in Active
                   /\ dispatch[j] # "failed"

-----------------------------------------------------------------------------
(* The contract: what a caller may send.  A worker reports, finalizes and   *)
(* beats only for a job that runs, takes only open targets in hand, changes *)
(* an outcome only to failed, completes a job only when every target has    *)
(* one, and sweeps only while the job runs or was cancelled.                *)

Inserts(j) ==
  LET m == meta'[j]
      T == {s \in Submissions : tgt'[j][s] # "none"}
  IN
  /\ m \in Meta
  /\ \A k \in JobId : ~SameRequest(k, m)
  /\ m.trigger = "automatic_retry" =>
       /\ m.parent # NoJob
       /\ status[m.parent] = "failed"
       /\ T \subseteq OpenTargets(m.parent)
  /\ due'[j] \in BOOLEAN
  /\ Insert(j, m, due'[j], T)

Reports(j) ==
  /\ status[j] = "running"
  /\ \E T \in SUBSET TargetsOf(j), st \in Settled \cup {"running"} :
       /\ st # "failed" => T \subseteq OpenTargets(j)
       /\ Progress(j, T, st)

Finalizes(j) ==
  /\ status[j] = "running"
  /\ counts'[j] \in Tallies
  /\ \/ Finalize(j, "failed", counts'[j])
     \/ OpenTargets(j) = {} /\ Finalize(j, "completed", counts'[j])

Sweeps(j) == status[j] \in {"running", "cancelled"} /\ SweepTargets(j)

Cancels == \/ \E j \in JobId : Cancel({j})
           \/ Cancel(StaleJobs)

Ages(j) ==
  \/ /\ status[j] = "running"
     /\ \E b \in BOOLEAN : fresh' = [fresh EXCEPT ![j] = b]
     /\ UNCHANGED <<status, meta, dispatch, token, due, tgt, counts>>
  \/ /\ due' = [due EXCEPT ![j] = TRUE]
     /\ UNCHANGED <<status, meta, dispatch, token, fresh, tgt, counts>>

Statement ==
  \/ Cancels
  \/ \E j \in JobId :
       \/ Inserts(j) \/ Reports(j) \/ Finalizes(j) \/ Sweeps(j) \/ Ages(j)
       \/ MarkDispatched(j) \/ RecordDispatchFailure(j)
       \/ \E w \in Workers : Claim(j, w)

StoreSpec == StoreInit /\ [][Statement]_storeVars

-----------------------------------------------------------------------------
(* What holds for every caller that keeps the contract *)

\* At most one job is running, whoever enqueued it, and a job has a worker
\* token exactly while it is running: no path that ends a job (finalize,
\* cancel, stale recovery, a refused dispatch that races a claim) leaves a
\* lease behind, and none is given to a job that is not running.
OneLease ==
  /\ \A i, j \in JobId : status[i] = "running" /\ status[j] = "running" => i = j
  /\ \A j \in JobId : token[j] # NoWorker <=> status[j] = "running"

\* A completed or cancelled job has no target left pending or running: the
\* straggler pass, the cancel and the stale recovery leave nothing behind that
\* would look like work in progress (or block a rejection) for ever.
EndedIsSettled ==
  \A j \in JobId : status[j] \in {"completed", "cancelled"} => OpenTargets(j) = {}

\* An automatic retry continues a job that failed: it is that job's only one
\* although the runner's catch and every cron execution both create it, and it
\* takes no target over that its parent had brought to an end, such as a
\* success or the targets the circuit breaker swept.
RetryContinues ==
  \A j \in JobId : Exists(j) /\ meta[j].trigger = "automatic_retry" =>
    LET p == meta[j].parent IN
    /\ p # NoJob /\ status[p] = "failed"
    /\ TargetsOf(j) \subseteq OpenTargets(p)
    /\ \A k \in JobId \ {j} :
         ~(Exists(k) /\ meta[k].trigger = "automatic_retry" /\ meta[k].parent = p)

\* Two cron executions of the same six-hour slot schedule one job.
OneJobPerSlot ==
  \A i, j \in JobId : meta[i].slot # 0 /\ meta[i].slot = meta[j].slot => i = j

\* Once a job has ended its targets stay as they are: neither the unfenced
\* sweep of the circuit breaker, nor a report that arrives after a cancel,
\* changes a row an automatic retry or a recovery was computed from.
FrozenTargets ==
  [][\A j \in JobId : status[j] \in Ended => tgt'[j] = tgt[j]]_storeVars

\* A job that has ended is never claimed, failed, completed or cancelled again.
EndedIsFinal ==
  [][\A j \in JobId : status[j] \in Ended =>
       status'[j] = status[j] /\ token'[j] = NoWorker]_storeVars

\* A target that reached an outcome is never reopened, and the one correction
\* ever made is to failed.
OutcomeIsFinal ==
  [][\A j \in JobId, s \in Submissions :
       tgt[j][s] \in Settled => tgt'[j][s] \in {tgt[j][s], "failed"}]_storeVars
=============================================================================
