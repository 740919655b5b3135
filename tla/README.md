# Formoria: a specification of its stateful core

Formoria lists Taiwanese brands. Brands arrive as *submissions*, and a
submission is *enriched* (scraped, described, photographed) by background jobs
before an admin approves it or rejects it. The jobs live in two Postgres
tables, are started by a cron service, by scripts and by admins, and can be
cancelled, retried, resumed and lost half way: the **curation system**. Two
agents work beside it: the **ops agent**, which turns Slack messages into
proposals that an operator confirms, and the **health agent**, which turns what
its nightly detectors find into tickets and repair requests. These are the parts
of the repository that keep state across processes and failures, and what these
modules are about. Paths below are relative to the repository (`src/…` of the
checkout).

Contents: [inventory](#1-inventory) · [modules](#2-modules-and-how-they-correspond-to-the-code)
· [abstractions](#3-abstractions-and-why-they-are-sound) · [properties](#4-properties)
· [runs](#5-what-each-run-checks) · [fairness](#6-fairness) · [proofs](#7-proofs)
· [divergences](#8-where-code-and-documentation-differ)
· [not modelled](#9-what-is-not-modelled) · [plan](#10-plan)

To repeat: `tlc -config CronPair.cfg MCCurationWorker`, and likewise each `.cfg` of
section 5 with the module named there; `tlapm` on each `…Proof.tla`.

## 1. Inventory

### Components in the model

| Component | Code | State it keeps | Operations |
|---|---|---|---|
| Job store | `lib/services/curation-jobs.ts`, `supabase/migrations/…` | `curation_jobs`: status, trigger, attempt, parent, dedupe key, dispatch status, worker token, heartbeat, `run_after`, counters. `curation_job_targets`: one status per job and submission | enqueue, claim next / claim own, mark dispatched, record dispatch failure, heartbeat, progress, mark unreported, finalize, cancel, recover stale, retry, sweep |
| Cron worker | `lib/services/curation-worker.ts`, `curation-worker/server.ts` | in process: what it read, `stopping`, the slot | recover → retry → schedule → drain; soft deadline; hard cap; exit |
| Job runner | `lib/services/job-runner.ts` | in process: lease flag, heartbeat timer | load, run, report, finish, fail, requeue |
| Enrichment run | `lib/services/curation-operations.ts` (`runEnrich`), `enrich-blocks/runner.ts`, `_shared/concurrency.ts` | in memory: chunk, block, targets in flight, queued events, chain of writes, consecutive provider failures, summary | take a target, report running, skip, fail, persist, report an outcome, flush, trip the breaker, end a block, a chunk, the run |
| Automatic channel verdicts | `lib/services/channel-verdicts.ts` | submissions still to handle | hide the brand of a refresh, reject the submission |
| Admin job actions and dispatch | `app/admin/operations/actions.ts`, `lib/services/curation-dispatch.ts` | requests in flight to the Railway API | enqueue, rerun, resume, retry a phase, dispatch again, cancel |
| Operator scripts | `scripts/enrichment/run/*.ts` | the job they enqueued | enqueue, claim that job, run it |
| Submission review | `lib/services/submissions.ts`, `approve_submission`, `reject_submission` | `brand_submissions.status` | approve, apply a refresh, reject |
| Phase checkpoints and recovery plans | `enrich-blocks/plan.ts`, `phase-outputs.ts`, `runner.ts`, `phase-satisfaction.ts`, `apply_submission_enrichment_result` | `curation_phase_outputs`: one row per job, submission and phase, with the stamp of the write that merged it; `params.retry`; in memory: what a run took over and what it holds for its write | enqueue a retry, rerun, resume, phase retry; read history; skip, run and record a block; merge |
| Ops agent | `lib/services/ops-agent/*`, `app/api/slack/*`, `e2e-agent/run-binding.ts` | `ops_agent_requests`: status, timestamps, proposal, the slot of the e2e dispatch; in process: handlers, executions, a timer | admit, sweep, propose, confirm, cancel, execute, dispatch, claim, complete, stale check |
| Health agent | `lib/services/health-agent/{run,lifecycle,ports}.ts`, `repair-linear.ts`, the ledger RPCs | `health_agent_run_ledger`: one row per date; `health_fix_queue`: findings with `ticketed_at` and the link of the ticket | admit, enqueue, reconcile, reserve, create a ticket, undo, finalize, ask for repair, complete, fail |

The processes of the curation system interact through their tables only; the
agents through theirs, through Slack and through Linear. The ops agent may enqueue
a curation job (an effect of the proposal it executes), and the health agent hands
findings to the ops agent's repair routine. Nobody holds a lock across two
statements: a claim takes a transaction-level advisory lock, everything else is
guarded by a `WHERE` clause (`status = 'running' AND worker_token = …`). Each
RPC is one transaction; each *sequence* of statements is not, and every process
may interleave with every other one, or die, between two of them.

### What is hard about it

* Two executions of the cron service, a cron execution and a script, or the
  runner's `catch` and the next execution do the same thing at the same time.
* State read before an `await` and used after it: the failed jobs, the eligible
  submissions, the lease flag, the list of verdict targets.
* A process that dies in a run; one that is alive but cut off, is declared
  stale, and goes on writing.
* Requests whose answer is lost: a dispatch, a terminal report.
* A chain of failures and retries with a cap, created from two places.
* Inside a run, callbacks of three targets at once that share one queue of
  events, one chain of writes and one failure count, under a fan-out that cannot
  be cancelled: when one of them throws, the others go on.
* A cancel (by an admin, by stale recovery, by the hard cap) at any moment of a
  run, including between the lease check and the verdicts.
* A queue that must keep moving whatever failed.
* Checkpoints that outlive their job: what may be reused is decided at three
  places (the plan, the runner, the SQL of the write), at three times, while a worker
  that lost its job still saves rows and other writes merge them.
* Buttons pressed twice, late or too soon; messages delivered twice; a handler
  whose answer is lost after it acted; a redeploy that drops scheduled work.
* A cap that is counted after the insert it limits; a lease measured from one
  timestamp and looked up by another.
* A nightly run started twice, on one date or on two; a ticket filed by the
  run and by the routine for one row; a call that failed after it was done.

`PROJECT.json` lists each of these at its line, with the properties that cover it.

### Components outside the model

Listed with their reasons in [section 9](#9-what-is-not-modelled); those with
state of their own are in the [plan](#10-plan).

## 2. Modules and how they correspond to the code

| Module | What it is |
|---|---|
| `CurationJobs` | the tables, and each statement or RPC on them as one action predicate; the *contract* of its callers (`StoreSpec`) and what follows from it |
| `CurationWorker` | extends it with the processes: cron worker, scripts, runner, dispatch, admin, review, time; the properties of the whole and the refinement mapping |
| `LeaseQueue` | the abstract specification: a queue of leased jobs |
| `CurationJobsProof` | theorems about every caller that keeps the contract |
| `CurationWorkerProof` | the processes keep it; theorems about the whole system |
| `WorkerOutcomesProof` | counters and automatic verdicts of the whole system |
| `MCCurationWorker` | the instance for TLC (symmetry of the cron workers) |
| `Checkpoints` | which saved phase outputs a job reuses, redoes and merges, over one submission |
| `CheckpointsProof` | the three decisions agree, nothing is lost, a lineage moves forward |
| `OneVersionProof` | what one write merges was computed from each other |
| `OpsAgent`, `OpsAgentProof` | the life of a request, its execution and the e2e dispatch; their theorems |
| `HealthRun`, `HealthRunProof` | the nightly run over ledger, queue and tickets; its theorems |
| `MCCheckpoints`, `MCOpsAgent`, `MCHealthRun` | their instances for TLC |
| `EnrichRun` | one run from the inside: chunks, blocks, fan-out, chain of writes, breaker |
| `RunReports` | the abstract specification of a run: what it may report and when it may end |
| `EnrichRunProof` | a run counts right, its breaker holds, and it implements `RunReports` |
| `MCEnrichRun` | the instances of `EnrichRun` for TLC: chunks, blocks, symmetry |

`CurationWorker` looks at a run from the job tables; `EnrichRun` looks at one run
from the inside and shows that it reports as `RunReports` says. The same events
are actions of both:

| `RunReports` | `CurationWorker` | code |
|---|---|---|
| `ReportsRunning` | `ReportRunning` | a batch of running events |
| `Commits` | `SaveResult` | `apply_submission_enrichment_result` |
| `Reports` | `ReportOutcome`; `ReportUnanswered` for "failed" over an outcome | a terminal event |
| `LeaseEnds` | a cancel | |
| `Ends` to returned, broke, threw | `EnrichDone`, `BreakerTrips`, `Throw` | how `runEnrich` ends |

What `CurationWorker` takes for granted about a run is therefore what
`ImplementsReports` checks: in particular that a run which ended by the breaker or
returned reports nothing any more, while one that *threw* still may. That is why
`ReportUnanswered` remains possible after `Throw`, with the statuses "running" and
any outcome.

### `CurationJobs`

`status`, `dispatch`, `token`, `counts` and `tgt` are columns. `meta` holds the
columns that never change after the insert. `fresh` says that `heartbeat_at` is
younger than `JOB_STALE_AFTER_MS`, `due` that `run_after` has passed: the only
two things anybody asks of those timestamps. Jobs are numbered in the order of
`(created_at, id)`, which is the order `claim_next_curation_job` claims in.

A target that was skipped is told apart where a later reader does: `noop` has
`no_op = true` (the approval gate looks past it), `nochannel` carries a
conclusive `no_purchase_channel` error (the verdict pass acts on it).

The action predicates are the statements: `Enqueue`/`Insert`
(`enqueue_curation_job` with its two unique indexes and `ON CONFLICT DO
NOTHING`), `Claim` (both claim RPCs; `FirstClaimable` is the `ORDER BY … LIMIT
1`), `MarkDispatched`, `RecordDispatchFailure`, `Cancel(J)` (`cancel_curation_job`;
with `StaleJobs` the loop of `recover_stale_curation_jobs`), `Beat`, `Progress`,
`MarkUnreported`, `SweepTargets`, `Finalize`. The operators after them say which
targets a new job gets.

`Statement` is the contract: the set of changes a caller may make. It is wider
than what today's callers do, and narrower than what the tables accept; a new
caller has only to be compared with it.

### `CurationWorker`

Each process has a program counter; one action lies between two statements.

| `pc` | code |
|---|---|
| `recover`, `readFailed`, `retry`, `scan`, `schedule`, `claim` | `runScheduledCuration`: `recoverStaleJobs`, `ensureAutomaticRetries` (one SELECT, then one enqueue per row), `enqueueScheduledSubmissionJob` (SELECTs, then the enqueue), the drain loop |
| `claimOwn` | the scripts' `claimCurationJob` |
| `load`, `enrich`, `mark`, `select`, `verdict`, `complete` | `runJob` → `runEnrich` → `finalizeSuccessfulJob` |
| `sweep`, `fail`, `requeue` | the `catch` of `runJob` |
| `settle` | `onJobSettled`, then the next claim or the end |

`Fenced` is the shape of every statement a run sends: it takes effect if the
lease is held, otherwise the run throws. `Heartbeat` may come at any point of a
run and only sets `lost`; `Select` reads that flag once, before the verdicts,
as the code does. The admin's and the reviewer's actions are enabled whenever
their guards are; a dispatch is two actions, the request and its answer, with
any number of steps of anybody in between.

`Crash` is the death of a process at any step: its memory is lost, the tables
stay. `process.exit` after the hard cap, and an exception that escapes
`runScheduledCuration`, are the same thing.

### `EnrichRun`

| State | code |
|---|---|
| `chunk`, `block` | `chunkIndex`; the loop of `runBlocks` over `BLOCK_ORDER`, 0 for `initializeContext`, past the end for the last flush |
| `todo`, `hands` | the items `mapWithConcurrency` has not handed out, its workers that have not died of a rejection |
| `at[t]` | where the callback of a target waits: before or after a running event (`work`, `busy`), for that event (`mark`), after the result RPC (`kept`, `spent`), for its outcome (`tell`) or for that of `failBrand` (`give`), after the `try` (`post`), rejecting (`dead`) |
| `said`, `chain`, `pending` | the last event of a target, `targetProgressBatchWrite`, `pendingTargetProgress` |
| `completed`, `fails`, `tripped`, `updated`, `skipped` | `ctx.completed`, `consecutiveLlmProviderFailures`, `llmBreakerTripped`, the summary |
| `row`, `saved`, `lease` | the target rows of the job, committed results, the job's lease |

JavaScript runs one callback at a time, so an action is what runs between two
awaits. `RecordOutcome` and `FailBrand` are shared by the actions that call
them. An event joins `chain` when it is emitted and is written when it is the
head: `WriteRunning` keeps it in the queue or flushes the queue (the size and age
thresholds are a free choice), an outcome first flushes the queue
(`FlushBeforeOutcome`), then is sent (`WriteOutcome`). A write that rejects
(`Reject`) throws into the callback: from the `try` body into `failBrand`, from
`failBrand` out of the callback, whose worker is lost while its siblings go on
(`CallbackThrows`). `Unanswered` is a write that commits and then rejects.

### `Checkpoints`

`CurationWorker` says who may write; `Checkpoints` says what. It follows the jobs over
one submission, phase by phase.

| State | code |
|---|---|
| `status`, `target`, `parent`, `kind`, `plan` | the job, its row for the submission, `parent_job_id`, `trigger`, `params.retry` |
| `lineage` | the job and its ancestors, as the recursive query of the RPC and `loadLineage` collect them |
| `outs[j][p]` | the row of job `j` and phase `p`: when it was created, when a write merged it (`persisted_at`), whether its job had ended when it was saved, and which outputs it was computed from |
| `block`, `saved`, `history`, `results`, `checkpoints` | in the run: the place in `BLOCK_ORDER`, `savedOutputs`, the satisfaction history, `phase_results`, `ctx.checkpoints` |
| `data` | whose output of each phase `enriched_data` holds |

`Reusable` and `ResumePlan` are `enqueueCurationRecovery` with `buildRecoveryPlan`,
`Seen` and `Newest` the choice `runBlocks` makes of the rows it reads, `Satisfied` is
`checkPhaseSatisfaction`, `TakeReused` the ownership test before a reused row
becomes a checkpoint of the run, `Eligible` the checks in
`apply_submission_enrichment_result`. A version is named by the job that saved it, and
`created_at` by the order of creation. `Cancel` leaves the run going or ends it: a run
whose job ended goes on saving (`Late`) until something it calls refuses.

### `OpsAgent`

One row per Slack message. `run[r]` is where `runOpsAgent` is, `click[c]` the
handler of a button with the row *as it read it*, `exec[r]` the execution that a
confirmation schedules, `timer[r]` the stale check of a dispatch, `agent[a]` a run
of the e2e agent with the list of dispatches it has still to try. Each statement is
one action; `Moved` is `UPDATE … WHERE id = … AND status IN …`. `acts[r]` counts the
effects outside the table (a job queued, a routine started, a run dispatched) and
`notice[r]` that the requester was told the run did not start: both are there for
the properties. `Faults` chooses which failures may happen: a statement that fails
(`db`), an answer that is lost (`lost`), a redeploy (`restart`).

A tick is minutes: `Prompt` keeps the few statements of one press, execution or claim
within one tick, since each has a time limit of seconds, and lets any other
step of anybody fall between them. `Never` stands for a null timestamp.

### `HealthRun`

`status` and `owner` are the ledger row of a date (`claim_health_agent_run` with its
`ON CONFLICT … WHERE`); `rows[f]` counts the queue rows of a fingerprint, the newest
of which may be active (`open`); `at` and `link` are `ticketed_at` and the ticket
of a row, `tickets` the days on which a ticket of it became known. A run is a
program counter, what it observed, the ledger as it read it (`was`, `wasLink`,
`clock`), the finding it files (`cur`) and what became of its repair request (`hand`).
Filing is three statements and a call: reserve, create in Linear, then finalize, or
undo if the call threw. `RecordTickets` is the routine's report through the relay. `Crash`
is the death of a run at any step.

Three variables only record what happened: `tickets`, `missed` (for each run, the findings for
which a call of its failed, or the undo of another run took back a reservation it may have
read) and `stranded` (rows that a run left reserved without a ticket, because it died
while it filed or could not undo). `ticketed_at` alone does not mean that there is a ticket:
`Reserve` sets it before the call to Linear.

### `LeaseQueue`

Four variables and five actions: a job is added with items, leased to one holder
at a time, its items are resolved and results committed only under the lease,
and it is closed for good. The mapping (`Queue` in `CurationWorker`) reads
`phase` off `status`, `left` off the open targets, `committed` off the results
that were saved; retries, dispatch, heartbeats and processes disappear.

## 3. Abstractions, and why they are sound

* **The token is the worker.** The code draws a fresh UUID per process run; a job
  is claimed at most once because nothing returns a row to `pending`
  (`EndedIsFinal`, `Claim`'s guard), so one name per process tells as much.
* **Merged reads.** A read and the RPC after it are one action only where what
  was read cannot change in between or does not matter: the open targets of a
  *failed* job in `enqueueAutomaticRetry` (frozen, which `FrozenTargets` checks and
  `SystemFrozen` proves), the targets listed before `finalize` (only the holder
  changes them while the job runs; after a cancel the finalize is refused
  anyway), the filter of a manual rerun, and an admin's choice of targets (an
  admin may always have been slower or faster). Where it does matter (failed
  jobs, eligible submissions, lease flag, verdict targets) read and use are
  separate actions.
* **`Contended`**: a claim may find the advisory lock taken whenever another
  process is at a claim, and then returns nothing.
* **`ReportUnanswered`**: a report of a target still in flight after the run
  failed, and a report that commits while its answer is lost. In the second case
  `failBrand` reports the target again, as failed.
* **In `EnrichRun`**: what a phase finds is a free choice among the ways its block
  can end, those of a target whose checkpoints already satisfy the block included.
  A callback emits *running* at most once before its outcome (the code: once or
  more per phase; a second one changes no status). The announcement of `detect`
  is one statement with the flush before it, both of *running* events. An
  `inputError` of `names` is treated like an error in a callback of `names`. `gather`
  is left out: it reports nothing. The `isBreaker` branch of `runBrandBlock` is left
  out: no block throws that error.
* **`BreakerTrips`** is enabled after `BreakerLimit` failures of the job, in any
  order: the code counts *consecutive* provider failures, so the model trips at
  every point where the code can, and at some where it cannot.
* **`Throw`** stands for any exception out of a statement of the run.
* **Outcomes** are chosen freely among what the result allows (`Outcomes`): a
  success needs a saved result or a dry run.
* **Ids, names, errors, images and prompts** are left out.
* **In `Checkpoints`**: a root job covers all phases (a job with explicit phases,
  `overwrite` or legacy steps is left out, and so are dry runs, which save no
  rows). Whether an incomplete submission makes a rerun eligible is left open. Only rows
  of successful phases are kept, as every reader skips the others; results are kept
  where somebody reads them again, at a failed target. A target that is skipped
  counts as done; a review may come whenever its gate allows it, read with that. A run that
  turns its target down after acquire (no usable input) or in the editorial block (listing
  rejected) reports first and saves the rows of that block afterwards; `RunBlock` saves them
  and `EndEarly` reports, so the model has a state in between that the code has not. Where
  an instance has no block after the editorial one, `EndEarly` leaves the rejected listing
  out: there the target would end in the place of the write. Equal
  timestamps and skewed clocks
  are left out: rows are created one after the other.
* **In `OpsAgent`**: the model graph and its tools are a free choice of how it ends;
  a brand refresh, a rerun and an editorial run are one kind of proposal, which differs from
  the e2e workflow; the authorization of editorial proposals guards only who may press. The
  durations are scaled down, in their order. One day passes at most, so the cap is
  counted over all requests. Completion of a thread, read only by replies, and the merged
  `result` column are left out; the queries' limit of ten rows is not reached.
* **In `HealthRun`**: what detectors see is a free choice, and so are the sources that
  completed, at `Reconcile`. Findings that cannot be ticketed or repaired (signal-only,
  acknowledged) differ in nothing the properties see. A day does not end while a
  ticket is being filed. A create whose answer is lost is a create that failed: the
  code cannot tell, and the ticket that may exist is one the agent does not know
  of. A second start with the *same* run id cannot happen (ids are fresh).
  The table starts empty: rows that a migration backfilled with `ticketed_at` and no
  identifier behave like `stranded` ones.

Bounds, all named: `MaxJobs`, `MaxSlots`, `MaxRequests`, `MaxCrashes`, and the
admin's operations (`AdminOps`), outcomes (`OutcomeKinds`) and `DryRuns` a run is
given. They are constants, so the proofs cover every value of them.
`RETRY_ATTEMPTS` and `LLM_BREAKER_CONSECUTIVE_LIMIT` are constants too. In every
configuration `MaxJobs >= RetryAttempts * (MaxRequests + MaxSlots)`: each request
and each slot starts one chain of at most `RetryAttempts` jobs, so an insert is
never refused for want of room. `Checkpoints` bounds the jobs over the submission
(`MaxJobs`), those that wait at once (`MaxPending`) and the workers that go on after
their job ended (`MaxLate`); `OpsAgent` the clock (`MaxTime`); `HealthRun` the calendar
(`MaxDay`) and the rows of a finding (`MaxRows`).

## 4. Properties

Each is stated, with its comment, where it is defined.

| Property | Kind | What would break it |
|---|---|---|
| `OneLease` | invariant | two claims at once; an end that leaves a token; a refused dispatch after a claim |
| `EndedIsSettled` | invariant | a completed or cancelled job with targets that look in progress for ever |
| `RetryContinues` | invariant | two retries of one failure; a retry that redoes what was done or swept |
| `OneJobPerSlot` | invariant | overlapping executions that each schedule |
| `ExclusiveRun` | invariant | two runs of one job; a job completed or failed by another process than its own |
| `CountsMatch` | invariant | two code paths that count differently, a missing recount |
| `VerdictJustified` | invariant | a rejection from a dry run, or from a skip that proves nothing |
| `FrozenTargets` | action | a late report or an unfenced sweep that rewrites an ended job |
| `OutcomeIsFinal` | action | a late "running" that reopens a target |
| `ResultsAreFenced` | action | a result written by a worker that lost its job, or over a review |
| `ImplementsQueue` | refinement | any of the above seen from outside |
| `KeepsContract` | refinement | a statement outside the contract the theorems rest on |
| `ImplementsReports` | refinement | a "running" that overtakes an outcome; a success before its result; a breaker that does not wait for the targets in flight |
| `SummaryAgrees` | invariant | a lost answer that counts a target twice, or loses it |
| `Overshoot` | invariant | callbacks that start after the trip |
| `CallbacksEnd`, `RunEnds`, `TripEndsRun` | liveness | a rejected write that blocks those behind it; a flush that never empties the queue; a success that makes the run forget the trip |
| `QueueDrains`, `FailuresRetried` | liveness | a dead process, refused dispatch or lost retry that stops the queue |
| `RpcAgrees` | invariant | a runner that hands the RPC a row of another lineage, of an unselected phase, or one that was merged meanwhile: the whole write is refused |
| `OneVersion` | invariant | a description computed from one scrape beside the links of another in a single write |
| `MovesForward` | action | a recovery that reuses what its source had replaced |
| `NothingLost` | action | a phase skipped because it was done, whose output nobody ever writes |
| `ActsOnce` | invariant | two confirmations, a confirmation and a sweep, a redelivered message, a retry after a lost answer |
| `NoMeansNo` | invariant | a stale read that executes what was cancelled, expired or refused |
| `CapHolds` | invariant | messages that are counted at once, each after its own insert |
| `OneOwner` | invariant | two agents, or one that retries its claim, on one dispatch |
| `NoticeIsTrue` | invariant | a stale check that gives up a dispatch an agent is just claiming |
| `RunningEnds`, `ConfirmedEnds` | liveness | a handler that leaves its request running; an execution that ends without a status |
| `OneRunPerDay` | invariant | an upsert that takes a live run's date; a completion by a run that lost it |
| `TicketsApart` | invariant | a stale ledger, an undo over a newer reservation, a report of the routine beside the run's own |
| `LinkKept` | action | an undo of a follow-up that clears the first ticket |
| `NoneForgotten` | invariant | a loop that ends early, a request that is dropped with findings it carried, a failed create that leaves its reservation and is counted as ticketed |

`ResultsAreFenced` deserves a word: `apply_submission_enrichment_result` checks
that the *job* is running and no token. That is enough only because a job is
claimed once; the property, and its proof, show the argument holds over the
whole system.

`EndedIsFinal` (an ended job keeps its status, `CurationWorker`) and `FinalStays` (an
ended request keeps its own, `OpsAgent`) are proved only: they serve as
lemmas in the arguments of the text, and `ImplementsQueue`, `ActsOnce` and
`NoMeansNo` fail with them.

`OneVersion` leaves out rows saved late, `MovesForward` compares along one
lineage, and both ask that the lineage was worked off in order (`InOrder`: its later
jobs saved their rows later, and what was merged was reported done by a job that
came no earlier). `OneVersion` also asks that no write of it reached back behind rows saved
since (`Settled`: what was merged of the jobs up to one that is done was merged before a
later job saved a row). No restriction is decoration: without it there is a
counterexample, described in [section 8](#8-where-code-and-documentation-differ).
(With three jobs the two properties hold without either; they need the order
from four on, and `Settled` in a case with six.)

## 5. What each run checks

| Run | Instance | Shows |
|---|---|---|
| `CronPair` | two cron executions, one submission, two slots, one attempt, cancel | one job per slot, although an execution may carry the slot it started in across the boundary; contract and refinement under full overlap |
| `Review` | a new submission and a refresh, two attempts, breaker, hard cap, cancel, approve | results, outcomes and verdicts against the reviewer; what a retry takes over when targets were swept, failed and left open; counters |
| `Recovery` | cron + script + admin: a real or dry run, dispatched, refused or dispatched again, rerun, resumed or retried from a phase, cancelled | one lease; refused, lost and repeated dispatches against claims; ended jobs stay as they were while recoveries run; no verdict from a dry run |
| `Drains` | dispatches that are accepted, refused or lost, cancel, reject, two attempts, one crash, fairness | a failure is continued even if its process died first; no job waits for ever |
| `RunFanout` (`MCEnrichRun`) | three targets in a chunk, two at once, detect, names, editorial, persist, breaker at one | reports, results, outcomes, summary and breaker under every interleaving, rejection and cancel |
| `RunDrains` (`MCEnrichRun`) | three targets in two chunks, acquire and persist, breaker at one, fairness | everything that starts ends, across the change of chunks |
| `Recover` (`MCCheckpoints`) | three jobs over `acquire` and `descriptions`, every admin action, one late worker, lost answers, review | plans, reuse and the write agree, and lose nothing |
| `Ops` (`MCOpsAgent`) | two requests above a cap of one, two presses, two e2e agents, all faults | a request acts once, never against its operator; cap, dispatch, notice |
| `OpsEnds` (`MCOpsAgent`) | a person's and another agent's request, lost answers, fairness | requests and executions end |
| `Health` (`MCHealthRun`) | two starts, three dates, a finding of the ticket route and one of the repair route, all faults | ledger, tickets, links, nothing forgotten |
| `VerdictRace` (`MCCurationWorker`), `OpsLease` (`MCOpsAgent`) | | the divergences of [section 8](#8-where-code-and-documentation-differ) |

Why the instances are enough. Two processes suffice for a race on a claim, an
enqueue or a schedule; each of those races is between two statements. One
submission per job suffices for everything that treats targets alike; `Review`
has two, so that a refresh and a new submission meet and the breaker sweeps one
target after another has failed. Two attempts, in `Review` and `Drains`, give every
race about one retry within a process and after its death. Two slots *and* two attempts with
two executions are beyond TLC, so `CronPair` has the two slots; the pair with one slot, two
attempts and a crash was run once and passes too, and that a chain of any length among
any number of processes keeps `RetryContinues` is proved. (`Review`, which checks it in TLC,
has one worker; that two executions cannot both continue a job is what the theorem adds.) One crash reaches every
"died between two statements"; the process that starts afterwards is the same worker,
again idle. Crashes, requests and slots are what bounds
the length of a behaviour: with a larger value the same situations recur. Deadlock
is checked in all runs of `MCCurationWorker`: a cron execution can always be
started again. An enrichment run is meant to stop, so it is not in those of
`MCEnrichRun`, where `CallbacksEnd` and `RunEnds` say that it stops well.

The runs of `EnrichRun` have two callbacks at once (three in the code): one that
fails and one that goes on make every race between two of them; the third target
is the one that a worker takes after the other died, and the one that must not
start once the breaker has tripped. A run needs at most the blocks of a configuration;
each block name appears in one of them except `products`, which ends like `editorial`
without its skip. No run instantiates `DryRun = TRUE`: it only forbids results.

`Recover` has 2.8 million states, `Health` 4.8 million. Two phases, one of which depends on the
other, have every relation a pair can have to a block, a plan, a history and a write;
three jobs are a source, its recovery and a third that comes between them, of the same
lineage or not. That both properties about order along a lineage hold for any number of
jobs and phases is proved. `Ops` has two of everything that races and one place under the cap. The
constants of time are scaled: what matters is their order and that each deadline
can be met and missed. `OpsLease`, whose subject is a sum of minutes, has the code's ratios.
`Health` has two starts, which can meet on a date or overlap across midnight, and three dates,
enough for a ticket, its follow-up and the date between them. Three starts over one
finding were run once and pass too.

Symmetry is used in safety runs only: of cron workers in `CronPair`, of targets in
`RunFanout`, of presses and agents in `Ops`, of starts in `Health`.

## 6. Fairness

`FairSpec` assumes, and the code justifies, exactly this:

* `WF(WorkerStep(w))`: a live process makes its next step, or is ended by its
  wall-clock cap, which is a crash. Reporting `running`, saving a result, a heartbeat, an
  error, the breaker, hiding a brand and death are *not* in it: they may happen
  and need not.
* `WF(CronStart(w))`: Railway starts the service every six hours
  (`railway/curation-worker.json`).
* `WF(BecomeDue(j))`: `run_after` passes.
* `WF(Lapse(j))` for a job that *no live process runs*: only then does nobody
  refresh the heartbeat. (A job may lapse otherwise too, without fairness.)

In `EnrichRun`, `FairSpec` assumes `WF(GoOn(t))` and `WF(Write)` (a callback and a
write go on: provider, browser and database calls have time limits, and a
limit that strikes is an error, which is one way of going on), `WF(Pick(t))` (a
worker of the fan-out takes its next target), weak fairness of the block loop,
and that a flush without the lease throws. That a result is accepted, an LLM call
fails, an answer is lost or the lease ends is not assumed.

In `OpsAgent`, `FairSpec` assumes that a handler that has begun goes on (`RunNext`,
`ExecNext`, `ClickNext`): its calls have time limits. That a message is sent, a button
pressed, an e2e agent booted or the clock moves is not assumed. `OpsEnds` allows lost
answers but no failing statement and no redeploy: nothing in the code retries the status
update of a handler that died (the sweep of the next request does, if there is one).

The admin promises nothing, crashes are at most `MaxCrashes`. The liveness runs
have one cron execution at a time, as the schedule gives (the wall-clock cap ends
an execution before the next slot) unless somebody presses *Run now*; with two,
both could find the advisory lock taken for ever, which no fairness of a single
process excludes.

## 7. Proofs

All proofs hold for every value of the constants under the assumptions of the
modules: `JobsAssumption` and `WorkerAssumption` for the curation system (finitely many
submissions, cron and script workers that partition the workers, at least one
slot and one attempt, and ranges for the rest), `OpsAssumption`, `HealthAssumption` and
`CheckpointAssumption`. TLC evaluates them in every run.

**First module.** `CurationJobsProof` proves of `StoreSpec`, i.e. of *any* caller
that keeps the contract, `StoreTypeCorrect`, `AlwaysOneLease`, `AlwaysSettled`,
`AlwaysContinues`, `AlwaysOnePerSlot`, `AlwaysFrozen`, `AlwaysFinal` and
`AlwaysOutcome`. The inductive invariant `StoreInv` joins the type invariant to
the named parts; `RetryContinues` needs them: that a retry's parent is failed is
kept because a failed job never changes status, that the retry's targets lie
within what the parent left open because an ended job's targets are frozen,
uniqueness because the index refuses a second insert.

**Second module.** `CurationWorkerProof` shows that each action of each process is
a `Statement` or leaves the tables alone (`ContractKept`, a refinement). Several
statements carry no check that would make that evident: the sweep updates by job
id, the result RPC checks no token, the runner's retry assumes its job failed.
Hence the inductive invariant

    WorkerInv == TypeOK /\ StoreInv /\ Sole /\ \A w \in Workers : LocalInv(w)

`LocalInv(w)` says what a process may rely on at its program counter: `HasJob`
(a run has a job), `Held` (that job is still its own or was cancelled), `InHand`
(what it works on are targets of the job), `Progressed` (after the straggler
pass nothing is open while the lease is held), `Retries` (what it read as failed
is still failed); `Sole` that no two processes have one job. It was first
checked by TLC on the safety configurations.

The step proof is a table: one lemma per kind of step says what it does to the
tables (`…Contract`), to the types (`…Type`), to the process itself
(`…Local`, `SettleOn`, …) and to the others (`OthersStand`, `Stays`);
`WorkerInvStep` combines them. From `WorkerInvariant` follow `TypeCorrect`,
`RunsAreExclusive`, `ResultsFenced`, the seven properties of the store for the
whole system (`System…`) and, with the step-by-step simulation `QueueStutter` /
`QueueOne`, **`QueueImplemented`: `Spec => ImplementsQueue`**.

**Outcomes.** `WorkerOutcomesProof` adds two invariants on top of `WorkerInv`. `CountInv`:
a job's counters are the tally of its rows, except once it failed and while its process
is in the `catch`, where the sweep closes rows and does not count again; what is
left to show is that no path leads from there to *completed* (`CountsAgree`).
`VerdictInv`: the verdict pass has only targets of a real run without a channel in hand, and
for each submission rejected automatically some real job has a row that says so
and that no process works on any more. The second half is what makes it inductive: such a
row could otherwise still be reported "failed" by the run that holds it
(`VerdictsJustified`).

**Enrichment run.** `EnrichRunProof` reduces the actions to what they do to one callback
(it records an outcome, fails, dies, is marked or answered, or moves inside its phase),
whichever block it is in, and proves

    Inv == /\ TypeOK /\ Fan /\ Line
           /\ \A t \in Targets : Course(t) /\ RowKept(t) /\ ResultKept(t)
           /\ Breaker /\ Sums /\ Covered

`Fan` bounds the callbacks in flight by the workers that live and keeps a target with an
outcome from being taken again; `Line` says that a callback waits in the chain of
writes once at most; `Course`, `RowKept` and `ResultKept` relate where a callback is to
what was said of its target, to its row and to its result. `Breaker` counts: after the trip
the failures *and* the callbacks that may still fail stay within the bound, which is
why it is not passed (`OvershootBounded`). `Sums` and `Covered` give
`SummaryCorrect`: every outcome that was written was counted once, and a call that returned has an
outcome for every target. **`ReportsImplemented`: `Spec => ImplementsReports`** maps each step to a
step of `RunReports` or to a stutter; that a late "running" never reaches a row with an
outcome is `RowKept`, and that the breaker broke the run for a reason is `Breaker`.

**Ops agent.** `OpsAgentProof` rests on three invariants. `Lives` says, for each
request, which of its handler, its execution and its effects a status admits: an effect
happens only on the way out of *running* or in the one execution that left
*awaiting_confirm*, which is why a stale read, a second press or a sweep can do no
harm (`EffectOnce`, `RefusalHolds`). `Slot` joins what an agent holds to the
columns of the dispatch, and says that a dispatch given up is closed and nobody's
(`DispatchHasOneOwner`, `NoticeHolds`). `CapAlways` is the argument about counting after
the insert: of all who are let in, the last one to count has seen the others, so they
are at most the cap; it needs finite sets and the step lemma `Smaller`.

**Health agent.** `HealthRunProof`: `Leased` (a run that works owns its date,
`OneRun`); `Reserved == Rows /\ Holds /\ Alone` (what `ticketed_at`, the link and the known
tickets of a row have to do with each other and with the run that has
reserved it, and that one run at most has) gives `TicketsStayApart` and
`LinkIsKept`. `Backing` says what stands behind a `ticketed_at` (a ticket, a run that is
filing it, or a stranded row) and behind a link (a ticket), and `Stays` that no step takes
that back, but an undo, which then counts as missed for each run that has read the row.
With them, `Owing` (each finding a run has seen is told, handed over, still to do, or a
call for it failed) and `Opened` give `NoneIsForgotten`.

**Checkpoints.** `CheckpointsProof` first reduces the thirteen actions to what they may
do to a job, to the memory of a run and to a row (`Moves`, `BlockDoes`), and proves by
that the invariant

    Inv == TypeOK /\ RowsBehind /\ Waiting /\ Cleared /\ Opened /\ Single
             /\ OwnLine /\ Memory /\ Kept /\ Fit

`RowsBehind` says that a run saves only behind itself, so that a row is never
saved over a merged one; `Memory` what the run holds of each phase (a saved row of its
lineage, or its own), `Kept` that what it counts as done goes to its write or was merged,
`Fit` that the RPC would take each checkpoint; `Single` is why nobody merges it in
between. `RpcAlwaysAgrees` and `NothingIsLost` follow for every set of phases and any number
of jobs. The invariant was checked by TLC first.

`OwnOutputsFit` speaks of what a job computed itself, whatever the order of the jobs:
it was computed from the very outputs, reused ones included,
that it writes beside it. It needs `Own`: what a run brings to its write is what it holds
of the phase, and what it computed itself was computed from what it holds. A block never
touches a phase of an earlier block, and a phase depends on none of a later one.

For `LineagesMoveForward` it is joined to an invariant about whole lineages:

    OrderInv == Inv /\ Line /\ Follow /\ Fresh /\ LastDone /\ LastRedo
                  /\ Cancelled /\ Reused /\ Merged

A job that would go back to an older output takes it from an ancestor `k`, while the
submission holds that of a later job of the lineage, which was merged. As the lineage was
worked off in order, some job at or after that one is done; what continues a job that
did not fail forces every phase it selects (`Follow`), so after the last such job
(`LastDone`, `LastRedo`) the phase stays forced until a job since has saved it anew
(`Fresh`). The job at hand does not force it, for it reuses `k` (`Reused`), so there is
such a newer row; it is not merged, for then a still later job were done; its job was not
cancelled, for then a still later one forced all; and so it, and not `k`, is the newest
unmerged row, which is the one a run reuses. TLC checked the parts, on three jobs, first.
The core of it is the lemma `Quiet`: where a job finds the row of an ancestor to be the
newest of a phase it need not force, no job of the lineage from that ancestor on is done, was
cancelled or has a merged row, and none after it forces all it selects.

**One version.** `OneVersionProof` proves `OutputsFit`, that is `OneVersion`, for rows a job
reuses as well as for its own. Of two rows one write takes, the one of phase `p` saved by `k`
and the one of a phase `d` it depends on by `x`, three orders are possible. Where `x` comes
after `k`, its row is the newer one and the writer would not have found `p` satisfied. Where
`k` is the writer, `Own` is the answer, where `x` is `k`, `SelfFed`. The hard case is `x` before `k`: why did `k`
compute `p` from the row of `x` and from no other? What the run of `k` held and decided
is gone from the state by then, so the invariant keeps what the rows still tell of it:

    OneInv == OrderInv /\ Own /\ Clocked /\ Made /\ SelfFed /\ Overdue
                /\ Tree /\ SameSelection /\ Owed /\ Sharp /\ Decided /\ Traced /\ Twins

`Sharp` and `Decided` speak of a run at work: its history holds the newest unmerged row
of each phase it selected, but for those late workers saved since, and each phase behind it
was executed because it was forced or not satisfied, or else is held. `Traced` is what
remains of both in a row once saved: it was computed from the newest row there was
when it was saved, or from an output of its own job, and then the phase was forced or not
satisfied at that time, which `Fitting` says without the run, by creation and merge times only.
`Clocked` and `Overdue` are why times tell; `Tree`, `SameSelection` and `Owed` say
how plans continue each other (what was forced stays forced until a row of it exists);
`Twins` that detection and slugs, one call of one block, are never apart.

By `Quiet` nothing from `x` on was merged and nothing after `x` forces all; by `Settled`
what was merged of the jobs before was merged before `k` saved a row. So what was held when `k`
saved its row of `p` is what the writer holds, but for late rows newer than that. Suppose now
that `k` did not use the row of `x` (`Apart`). If it used a row `y` instead, then both were held
at that time, it took the newer one, the writer did too, and so they are one (`ApartFits`). If
it executed `d` and missed it (`ApartSelf`), then `d` was not forced, by `Owed`; and the
phases that made `d` satisfied for the writer, `d` and all it reaches, with the rows the writer
found, are a `Fitting`, for which `Traced` says that `k` had none. `WellFoundedInduction`
is used for the newest row of a set of jobs (`Least`, `NewestThere`), not for an induction.
TLC checked the parts first, on three jobs with two phases and on two with detection and slugs.

**Only model-checked.** Every safety property of a passing run is stated by a theorem. What
stays with TLC are the liveness properties (`QueueDrains`, `FailuresRetried`,
`CallbacksEnd`, `RunEnds`, `TripEndsRun`, `RunningEnds`, `ConfirmedEnds`): fairness and ENABLED
are beyond the prover. Proofs by induction over data and about RECURSIVE operators are too,
and there are none here.

## 8. Where code and documentation differ

* **`VerdictRace` / `NoVerdictAfterCancel`.** `SPEC.md:63` has "canonical
  brand/submission writes are fenced so provider work that returns after
  cancellation cannot become canonical". The verdict pass reads the lease flag
  once before it starts; `reject_submission` asks for no lease. A job cancelled in between
  still rejects its submissions. (The gate of `reject_submission` prevents it as
  soon as *another* job that may run has the submission.)
* **`OpsLease` / `LeaseIsSeen`.** A claimed dispatch holds its lease for 40 minutes
  from `dispatch_claimed_at`; `findInFlightDispatch` lets the database return only
  dispatches of which `dispatched_at` is at most 40 minutes old, and calls that
  window coarse. A dispatch that was claimed *k* minutes after it was recorded is invisible
  in the last *k* minutes of its lease, and a second run may be started beside it.

Seen while modelling, without a run of their own:

* `SPEC.md:63` has "one linked automatic retry"; `ensureAutomaticRetries` re-enqueues
  every failed job below `RETRY_ATTEMPTS` = 3, automatic retries included, so there are
  up to two. (*Each job* has at most one: `RetryContinues`.)
* The error of a tripped breaker names the count of consecutive failures after the chunk
  has drained; a target in flight at the trip that then succeeded has set it to 0. The
  run ends all the same (`TripEndsRun`).
* A checkpoint saved by a worker after its job was cancelled can be reused by a resume of
  that job and become canonical, `SPEC.md:63` notwithstanding: the write is fenced, the
  checkpoint is not. With such a row one write may hold outputs that do not belong
  together, which is why `OneVersion` excepts them.
* A job without a parent (a scheduled one) takes unmerged checkpoints of earlier jobs as
  satisfied history, but does not own them: the phase is skipped and its output never
  merged. `NothingLost` therefore speaks of retries and recoveries.
* A resume of an older job may replace what a job of another branch has written since:
  `MovesForward` compares along a lineage.
* Along one lineage it may happen too, in three ways, which `InOrder` excludes. A second
  recovery of one source (`enqueueCurationRecovery` asks for none before it) reuses an older
  ancestor's row once the first has merged the newer one. A recovery of a job that has
  not run yet may be run before it, so that its rows are older than those of its
  source. And a write that is merged while its answer is lost leaves a failed target: the automatic
  retry copies the plan, and a resume of a resume consults the forced phases of its direct
  source only, so either may take an ancestor's older row that was never merged and put it
  over the newer one. Each takes four jobs. No document claims the contrary.
* Even in a lineage worked off in order, one write may merge outputs that do not belong
  together, when jobs of it overtook each other; this is why `OneVersion` asks for `Settled`.
  It takes six jobs over `detect`, `acquire`, `names` and `products`, each depending on the
  one before: (1) saves detect and acquire and fails; (2), a rerun, saves detect only; (3), a
  resume of it, stays in the queue; (4), a rerun of (3), runs first and saves only names; (5), a
  resume of (4), misses names, because the detect of 2 is newer than the acquire of 1, and
  computes products without it; only now (3) runs and merges the detect of 2. For (6), a
  resume of (5), the history is the detect of 1 again, then acquire of 1 and names of 4, in
  order: it reuses names of 4 beside the products of 5, which were computed
  without them. TLC confirms the trace step by step.
* `run.ts:1029` has the health agent file what the repair routine does not get, "so no
  finding goes without a ticket". A run that dies between the reservation and Linear's
  answer, or whose undo fails, leaves a row with `ticketed_at` and no identifier.
  `isTicketEligible` (`report.ts:97`, which calls it a stranded reservation) never files such a
  row again, and `recordTickets` matches only rows without `ticketed_at`, so a ticket of the
  routine is not recorded either: the finding stays without one until its row is closed.
  `NoneForgotten` names these rows (`stranded`) and excepts them.
* `buildDetectPatch` may fall back from name to slug and so put `slug` into the patch of a
  job whose phases are `detect` alone; merging the outputs then throws. The model has
  it as a run that throws (`RunThrows`).

## 9. What is not modelled

Inside the curation system: what the phases do, and the `gather` block; the contents
that hydration rebuilds from checkpoints, and dry runs and explicit scopes in
`Checkpoints`; staged edits and images of a submission, its deletion and the reopening of a
rejected one (`reopenSubmission`); page revalidation, alerts,
audit rows; how the scripts choose and batch their cohorts.

In the ops agent: the model graph, its tools and its memory; the editorial workflow behind a
proposal; completion of threads. In the health agent: detectors, dry runs, the digest and
the Slack timeline; `releaseClaims`, `claim_health_fixes` and the transitions of fixes, which
only the retired scripts under `scripts/health-agent` use, and those scripts
(`orchestrator.ts`, `workflow-runtime.ts`) themselves.

Small components with state of their own, not modelled: the repair worker (an in-memory
table of jobs with deadlines), newsletter subscription (double opt-in tokens), link
checks (a count of failures per link), promotion of submission images (copy,
record, delete), the rate limiter (a window counter), the retry policy (delays; its cap is
the constant `RetryAttempts`).

Outside it for good: rendering and routing of the web application (stateless
between requests except through the services), search and ranking (numerical),
scrapers and language-model phases (external; their results are the free
outcomes of a target), the editorial producer and the e2e agent's own work (batch processes
around model calls), offline tooling and data.

## 10. Plan

Done, in this order: `CurationJobs`, `CurationWorker`, `LeaseQueue`, runs, their two
proof modules, `EnrichRun` with `RunReports`; then `OpsAgent`, `HealthRun` and `Checkpoints`,
each with its runs and proofs.

Left, in this order:

1. `ImagePromotion`, `Newsletter`, `LinkHealth`, `RepairWorker`: small state machines with a
   failure between two writes.
2. `RetryPolicy`: delays and attempts as operators against their definition.
