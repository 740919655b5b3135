----------------------------- MODULE Checkpoints -----------------------------
(***************************************************************************)
(* The checkpoints of the enrichment phases, over one submission: what a   *)
(* run saves after each block, which saved outputs a later job takes as    *)
(* done, what a recovery plan forces, and what the result RPC merges into  *)
(* the submission.  A job whose lease ended (cancelled by an admin or as   *)
(* stale) may still have a worker that goes on saving: the checkpoint      *)
(* table has no fence.                                                     *)
(***************************************************************************)
EXTENDS Integers, FiniteSets

CONSTANTS
  Phases,      \* the phases this instance keeps
  Actions,     \* what an admin may ask: "root", "rerun", "resume", "phase"
  Results,     \* how a phase may end: "succeeded", "failed", "skipped"
  MaxPending,  \* bound: jobs that wait at once
  MaxLate,     \* bound: workers that go on after their job ended
  MaxJobs      \* bound: jobs over the submission

PhaseDeps ==
  [detect |-> {}, slugs |-> {"detect"}, acquire |-> {"detect"},
   names |-> {"detect", "acquire"}, descriptions |-> {"acquire"},
   stockists |-> {"acquire"}, faq |-> {}, products |-> {"acquire", "names"}]

\* BLOCK_OF_PHASE, a block as its place in BLOCK_ORDER: detect 1, acquire 2,
\* names 3, editorial 4, products 5; persist is 6.
BlockOf ==
  [detect |-> 1, slugs |-> 1, acquire |-> 2, names |-> 3,
   descriptions |-> 4, stockists |-> 4, faq |-> 4, products |-> 5]

Blocks == 1..5
Editorial == 4
Persisting == 6
Ended == 7

\* BLOCK_DEPENDENCIES, up to its transitive closure
Upstream == <<{1}, {1, 2}, {1, 2, 3}, {1, 2, 4}, {1, 2, 3, 5}>>

ASSUME CheckpointAssumption ==
  /\ Phases \subseteq DOMAIN PhaseDeps /\ Phases # {}
  /\ Actions \subseteq {"root", "rerun", "resume", "phase"}
  /\ Results \subseteq {"succeeded", "failed", "skipped"}
  /\ MaxJobs \in Nat /\ MaxPending \in Nat /\ MaxLate \in Nat

VARIABLES
  status, target,   \* of a job; of its row for the submission ("done" is
                    \* succeeded or skipped)
  parent,           \* parent_job_id, 0 for none
  lineage,          \* the job and its ancestors along parent_job_id
  kind,             \* root, retry, recovery
  plan,             \* params.retry: the selected and the forced phases, or NoPlan
  outs,             \* curation_phase_outputs: the row of a job and a phase, kept
                    \* if it succeeded: every reader leaves the others out; its
                    \* created_at, its persisted_at or 0, whether its job was
                    \* over by then, the jobs whose outputs it was computed from
  clock,            \* created_at of the newest row
  block,            \* where the run of a job is
  saved,            \* the run: savedOutputs, then the outputs it holds itself
  history,          \* the run: satisfaction, as the job whose row it stems from
  results,          \* the run: phase_results
  checkpoints,      \* the run: ctx.checkpoints, by phase the job of the row
  pending,          \* the submission awaits its review
  data              \* enriched_data: whose output of each phase it holds

jobVars == <<status, target, parent, lineage, kind, plan>>
runVars == <<block, saved, history, results, checkpoints>>
vars == <<jobVars, outs, clock, runVars, pending, data>>

-----------------------------------------------------------------------------
JobId == 1..MaxJobs
None == 0

Deps(p) == PhaseDeps[p] \cap Phases
PhasesOf(b) == {p \in Phases : BlockOf[p] = b}
\* The next block with phases of this instance, or the persist block.
NextBlock(b) == CHOOSE c \in b + 1..Persisting :
                  /\ c = Persisting \/ PhasesOf(c) # {}
                  /\ \A i \in b + 1..c - 1 : PhasesOf(i) = {}
NoPlan == [selected |-> {}, forced |-> {}]
Nothing == [p \in Phases |-> None]
NoRow == [at |-> 0, merged |-> 0, late |-> FALSE, inputs |-> Nothing]
PhaseResults == {"none", "history", "succeeded", "failed", "skipped"}
NoResults == [p \in Phases |-> "none"]

Free(n) == status[n] = "none" /\ \A i \in 1..n - 1 : status[i] # "none"   \* the next id
Planned(j) == plan[j] # NoPlan
Running(j) == status[j] = "running"
Active(j) == block[j] \in 1..Persisting
Late == {j \in JobId : Active(j) /\ ~Running(j)}
Usable(j, p) == outs[j][p].at # 0

Plans == {q \in [selected : SUBSET Phases, forced : SUBSET Phases] : q.forced \subseteq q.selected}
Rows == [at : Nat, merged : Nat, late : BOOLEAN, inputs : [Phases -> 0..MaxJobs]]

TypeOK ==
  /\ status \in [JobId -> {"none", "pending", "running", "completed", "failed", "cancelled"}]
  /\ target \in [JobId -> {"none", "open", "done", "failed", "cancelled"}]
  /\ parent \in [JobId -> 0..MaxJobs]
  /\ lineage \in [JobId -> SUBSET JobId]
  /\ kind \in [JobId -> {"none", "root", "retry", "recovery"}]
  /\ plan \in [JobId -> Plans]
  /\ outs \in [JobId -> [Phases -> Rows]]
  /\ clock \in Nat
  /\ block \in [JobId -> 0..Ended]
  /\ saved \in [JobId -> [Phases -> 0..MaxJobs]]
  /\ history \in [JobId -> [Phases -> 0..MaxJobs]]
  /\ results \in [JobId -> [Phases -> PhaseResults]]
  /\ checkpoints \in [JobId -> [Phases -> 0..MaxJobs]]
  /\ pending \in BOOLEAN
  /\ data \in [Phases -> 0..MaxJobs]

Init ==
  /\ status = [j \in JobId |-> "none"]
  /\ target = [j \in JobId |-> "none"]
  /\ parent = [j \in JobId |-> None]
  /\ lineage = [j \in JobId |-> {}]
  /\ kind = [j \in JobId |-> "none"]
  /\ plan = [j \in JobId |-> NoPlan]
  /\ outs = [j \in JobId |-> [p \in Phases |-> NoRow]]
  /\ clock = 0
  /\ block = [j \in JobId |-> 0]
  /\ saved = [j \in JobId |-> Nothing]
  /\ history = [j \in JobId |-> Nothing]
  /\ results = [j \in JobId |-> NoResults]
  /\ checkpoints = [j \in JobId |-> Nothing]
  /\ pending = TRUE
  /\ data = Nothing

-----------------------------------------------------------------------------
(* Enqueueing.                                                              *)

Enqueue(n, p, k, newPlan) ==
  /\ Free(n)
  /\ Cardinality({j \in JobId : status[j] = "pending"}) < MaxPending
  /\ status' = [status EXCEPT ![n] = "pending"]
  /\ target' = [target EXCEPT ![n] = "open"]
  /\ parent' = [parent EXCEPT ![n] = p]
  /\ lineage' = [lineage EXCEPT ![n] = {n} \cup (IF p = None THEN {} ELSE lineage[p])]
  /\ kind' = [kind EXCEPT ![n] = k]
  /\ plan' = [plan EXCEPT ![n] = newPlan]
  /\ UNCHANGED <<outs, clock, runVars, pending, data>>

\* A scheduled or requested job over all phases, without a parent.
EnqueueRoot ==
  /\ "root" \in Actions
  /\ pending
  /\ \E n \in JobId : Enqueue(n, None, "root", NoPlan)

\* enqueueAutomaticRetry: once for a failed job, with its parameters.
EnqueueRetry(j) ==
  /\ status[j] = "failed"
  /\ target[j] = "open"
  /\ \A k \in JobId : ~(kind[k] = "retry" /\ parent[k] = j)
  /\ \E n \in JobId : Enqueue(n, j, "retry", plan[j])

\* readTargetPlan
SourcePlan(j) == IF Planned(j) THEN plan[j] ELSE [selected |-> Phases, forced |-> {}]

FailedPhases(j) == {p \in Phases : results[j][p] = "failed"}
Unfinished(j) == {p \in Phases : results[j][p] \in {"none", "failed"}}

\* The phases of which the lineage of source j has a checkpoint that a resume
\* may reuse: one that source forced counts only if it is source's own.
Reusable(j) ==
  {p \in SourcePlan(j).selected \ FailedPhases(j) :
     \E k \in lineage[j] :
       /\ Usable(k, p) /\ outs[k][p].merged = 0
       /\ k = j \/ p \notin SourcePlan(j).forced}

ForceAll(S) == [selected |-> S, forced |-> S]

\* Mutant: what is not reused is forced, selected or not.
ResumePlanWide(j) ==
  LET S == SourcePlan(j).selected
      R == Reusable(j) IN
  IF target[j] = "cancelled" \/ R = {} THEN ForceAll(S)
  ELSE [selected |-> S, forced |-> Phases \ R]

\* buildRecoveryPlan, for resume
ResumePlan(j) ==
  LET S == SourcePlan(j).selected
      R == Reusable(j)
      U == S \cap Unfinished(j) IN
  IF target[j] = "cancelled" THEN ForceAll(S)
  ELSE IF R # {} THEN [selected |-> S, forced |-> S \ R]
  ELSE ForceAll(IF U # {} THEN U ELSE S)

\* forcePhasesForRetry: a block, one phase of the editorial block, or a block
\* with every block above it.
RetryScopes ==
  {PhasesOf(b) : b \in Blocks}
    \cup {{p} : p \in PhasesOf(Editorial)}
    \cup {UNION {PhasesOf(c) : c \in Upstream[b]} : b \in Blocks}

\* enqueueCurationRecovery, of a source in any state.  Whether the submission
\* is incomplete, so that a rerun may take it, is left open.
EnqueueRecovery(j) ==
  /\ status[j] # "none" /\ pending
  /\ \E n \in {m \in JobId : Free(m)} :
       \/ /\ "rerun" \in Actions
          /\ Enqueue(n, j, "recovery", ForceAll(SourcePlan(j).selected))
       \/ /\ "resume" \in Actions
          /\ target[j] \in {"failed", "cancelled"}
          /\ Enqueue(n, j, "recovery", ResumePlan(j))
       \/ /\ "phase" \in Actions
          /\ \E S \in RetryScopes \ {{}} : Enqueue(n, j, "recovery", ForceAll(S))

-----------------------------------------------------------------------------
(* A run.                                                                   *)

HasParent(j) == parent[j] # None
Selected(j) == IF Planned(j) THEN plan[j].selected ELSE Phases
Forced(j) == plan[j].forced

\* The jobs whose usable row of p the run of j takes into account: with a
\* parent those of the lineage, and of a selected phase only what is unmerged.
Seen(j, p) ==
  {k \in JobId :
     /\ Usable(k, p)
     /\ HasParent(j) =>
          k \in lineage[j] /\ (p \in Selected(j) => outs[k][p].merged = 0)}

Newest(S, p) ==
  LET top == {k \in S : \A i \in S : outs[i][p].at <= outs[k][p].at}
  IN  IF top = {} THEN None ELSE CHOOSE k \in top : TRUE

Claim(j) ==
  /\ status[j] = "pending"
  /\ \A k \in JobId : ~Running(k)
  /\ status' = [status EXCEPT ![j] = "running"]

\* The job is claimed and runBlocks reads the checkpoints.
Start(j) ==
  /\ pending
  /\ Claim(j)
  /\ LET latest == [p \in Phases |-> Newest(Seen(j, p), p)] IN
     /\ saved' = [saved EXCEPT ![j] = latest]
     /\ history' = [history EXCEPT ![j] = latest]
  /\ block' = [block EXCEPT ![j] = NextBlock(0)]
  /\ UNCHANGED <<target, parent, lineage, kind, plan, outs, clock, results, checkpoints,
                 pending, data>>

\* The submission was reviewed before the run: its target is skipped.
StartTooLate(j) ==
  /\ ~pending
  /\ status[j] = "pending"
  /\ \A k \in JobId : ~Running(k)
  /\ status' = [status EXCEPT ![j] = "completed"]
  /\ target' = [target EXCEPT ![j] = "done"]
  /\ UNCHANGED <<parent, lineage, kind, plan, outs, clock, runVars, pending, data>>

\* The row the run of j has in its history for p, and when it was created.
Time(j, p) == IF history[j][p] = None THEN 0 ELSE outs[history[j][p]][p].at

\* Mutant: done once is done, however new its dependencies are.
SatisfiedOnce(j, phase) == Time(j, phase) # 0

\* checkPhaseSatisfaction, down the dependencies: S holds the phase and all it
\* reaches.  Dependencies the plan leaves out do not count.
Satisfied(j, phase) ==
  \E S \in SUBSET Phases :
    /\ phase \in S
    /\ \A p \in S :
         /\ Time(j, p) # 0
         /\ \A d \in Deps(p) \cap Selected(j) : d \in S /\ Time(j, d) <= Time(j, p)

\* Mutant: what is satisfied from history is not executed, forced or not.
NotSatisfied(j, p) == ~Satisfied(j, p)

NeedsExecution(j, p) == p \in Forced(j) \/ ~Satisfied(j, p)

Chosen(j) == PhasesOf(block[j]) \cap Selected(j)
Execute(j) == {p \in Chosen(j) : NeedsExecution(j, p)}

\* Mutants: any row of the target is taken; only rows of the job itself are.
OwnedByAny(j, k) == k \in JobId
OwnedAlone(j, k) == k = j

\* isOwnedCheckpoint
Owned(j, k) == k = j \/ (HasParent(j) /\ k \in lineage[j])

\* Phases satisfied from history are hydrated, and owned rows that nobody
\* merged become checkpoints of this run.
TakeReused(j, reused) ==
  [p \in Phases |->
     IF p \in reused /\ saved[j][p] # None /\ outs[saved[j][p]][p].merged = 0 /\ Owned(j, saved[j][p])
     THEN saved[j][p] ELSE checkpoints[j][p]]

\* missingAcquireInputs
InputError(j, exec) ==
  /\ exec \cap {"names", "descriptions", "stockists", "products"} # {}
  /\ "acquire" \in Phases /\ saved[j]["acquire"] = None

\* The run is over; what it held in memory is gone.
Over(j) ==
  /\ block' = [block EXCEPT ![j] = Ended]
  /\ saved' = [saved EXCEPT ![j] = Nothing]
  /\ history' = [history EXCEPT ![j] = Nothing]
  /\ checkpoints' = [checkpoints EXCEPT ![j] = Nothing]

\* The outcome of the target is reported; a report of a job that does not run
\* is refused, and the run ends all the same.  The results that go with it are
\* kept where somebody reads them: at a failed target.
Report(j, outcome, res) ==
  /\ Over(j)
  /\ results' = [results EXCEPT ![j] =
                   IF Running(j) /\ outcome = "failed" THEN res ELSE NoResults]
  /\ IF Running(j)
     THEN /\ target' = [target EXCEPT ![j] = outcome]
          /\ status' = [status EXCEPT ![j] = "completed"]
     ELSE UNCHANGED <<target, status>>
  /\ UNCHANGED <<parent, lineage, kind, plan, pending>>

\* A block of which the run executes nothing.
SkipBlock(j) ==
  /\ block[j] \in Blocks
  /\ Execute(j) = {}
  /\ checkpoints' = [checkpoints EXCEPT ![j] = TakeReused(j, Chosen(j))]
  /\ results' = [results EXCEPT ![j] = [p \in Phases |->
                   IF p \in Chosen(j) THEN "history" ELSE @[p]]]
  /\ block' = [block EXCEPT ![j] = NextBlock(@)]
  /\ UNCHANGED <<jobVars, outs, clock, saved, history, pending, data>>

\* A block that needs what acquire saved and has none: the target fails.
NoInputs(j) ==
  /\ block[j] \in Blocks
  /\ InputError(j, Execute(j))
  /\ Report(j, "failed", [p \in Phases |->
                            IF p \in Execute(j) THEN "failed"
                            ELSE IF p \in Chosen(j) THEN "history" ELSE results[j][p]])
  /\ UNCHANGED <<outs, clock, data>>

\* The rows recordPhaseOutputs saves after a block, whoever has the lease.
Recorded(j, exec, done) ==
  [p \in Phases |->
     IF p \in done
     THEN [at |-> clock + 1, merged |-> 0, late |-> ~Running(j),
           inputs |-> [d \in Phases |-> IF d \notin Deps(p) THEN None
                                        ELSE IF d \in exec THEN j ELSE saved[j][d]]]
     ELSE outs[j][p]]

\* A block runs and applyResult records what its phases produced.  Detection
\* and slugs are one call, which gives both the same status.
RunBlock(j) ==
  /\ block[j] \in Blocks
  /\ Execute(j) # {}
  /\ ~InputError(j, Execute(j))
  /\ \E outcome \in [Execute(j) -> Results] :
       LET exec == Execute(j)
           done == {p \in exec : outcome[p] = "succeeded"} IN
       /\ {"detect", "slugs"} \subseteq exec => outcome["detect"] = outcome["slugs"]
       /\ outs' = [outs EXCEPT ![j] = Recorded(j, exec, done)]
       /\ saved' = [saved EXCEPT ![j] = [p \in Phases |-> IF p \in exec THEN j ELSE @[p]]]
       /\ history' = [history EXCEPT ![j] = [p \in Phases |-> IF p \in done THEN j ELSE @[p]]]
       /\ checkpoints' = [checkpoints EXCEPT ![j] = [p \in Phases |->
                            IF p \in done THEN j ELSE TakeReused(j, Chosen(j) \ exec)[p]]]
       /\ results' = [results EXCEPT ![j] = [p \in Phases |->
                        IF p \in exec THEN outcome[p]
                        ELSE IF p \in Chosen(j) THEN "history" ELSE @[p]]]
       /\ clock' = IF done = {} THEN clock ELSE clock + 1
  /\ block' = [block EXCEPT ![j] = NextBlock(@)]
  /\ UNCHANGED <<jobVars, pending, data>>

\* The block that just ran turned the target down with its rows saved: acquire
\* found nothing to work with, or the editorial block rejected the listing.
TurnedDown(j) ==
  \E p \in Phases \cap {"acquire", "descriptions"} :
    saved[j][p] = j /\ block[j] = NextBlock(BlockOf[p])

\* failBrand, from an error or a gate in any block; not a brand, no purchase
\* channel, turned down: the target is skipped without a write, and the rows it
\* has are left unmerged.  (A rejected listing is left out where the instance
\* has no block after the editorial one.)
EndEarly(j) ==
  /\ Active(j)
  /\ \/ Report(j, "failed", results[j])
     \/ /\ block[j] \in {1, 2} \/ (block[j] \in Blocks /\ TurnedDown(j))
        /\ Report(j, "done", results[j])
  /\ UNCHANGED <<outs, clock, data>>

\* The run throws: the job fails and its target stays open.  The worker of a
\* job that runs no more is refused and stops.
RunThrows(j) ==
  /\ Active(j)
  /\ Over(j)
  /\ status' = IF Running(j) THEN [status EXCEPT ![j] = "failed"] ELSE status
  /\ results' = [results EXCEPT ![j] = NoResults]
  /\ UNCHANGED <<target, parent, lineage, kind, plan, outs, clock, pending, data>>

\* Cancelled by an admin, by the hard cap or as stale: the run ends with its
\* process, or goes on until it notices.
Cancel(j) ==
  /\ status[j] \in {"pending", "running"}
  /\ status' = [status EXCEPT ![j] = "cancelled"]
  /\ target' = [target EXCEPT ![j] = IF @ = "open" THEN "cancelled" ELSE @]
  /\ \/ Active(j) /\ Over(j) /\ results' = [results EXCEPT ![j] = NoResults]
     \/ (Active(j) => Cardinality(Late) < MaxLate) /\ UNCHANGED runVars
  /\ UNCHANGED <<parent, lineage, kind, plan, outs, clock, pending, data>>

-----------------------------------------------------------------------------
(* The write.                                                               *)

Taken(j) == {p \in Phases : checkpoints[j][p] # None}

\* The checks of apply_submission_enrichment_result on the row of job k.
Eligible(j, k, p) ==
  /\ k \in lineage[j]
  /\ Usable(k, p)
  /\ outs[k][p].merged = 0
  /\ Planned(j) => p \in plan[j].selected

Accepted(j) ==
  /\ Running(j) /\ target[j] = "open" /\ pending
  /\ \A p \in Taken(j) : Eligible(j, checkpoints[j][p], p)

\* apply_submission_enrichment_result: merge and stamp, in one transaction.
Merge(j) ==
  /\ data' = [p \in Phases |-> IF p \in Taken(j) THEN checkpoints[j][p] ELSE data[p]]
  /\ outs' = [k \in JobId |-> [p \in Phases |->
                IF p \in Taken(j) /\ checkpoints[j][p] = k
                THEN [outs[k][p] EXCEPT !.merged = clock + 1] ELSE outs[k][p]]]

\* The persist block merges the checkpoints and reports; when the answer of
\* the RPC is lost the target fails or the run throws after the merge.
Persist(j) ==
  /\ block[j] = Persisting
  /\ Taken(j) # {}
  /\ IF Accepted(j)
     THEN Merge(j) /\ \/ \E o \in {"done", "failed"} : Report(j, o, results[j])
                      \/ /\ Over(j)
                         /\ results' = [results EXCEPT ![j] = NoResults]
                         /\ status' = [status EXCEPT ![j] = "failed"]
                         /\ UNCHANGED <<target, parent, lineage, kind, plan, pending>>
     ELSE Report(j, "failed", results[j]) /\ UNCHANGED <<outs, data>>
  /\ UNCHANGED clock

\* Nothing to merge: the target is skipped without a write.
PersistNothing(j) ==
  /\ block[j] = Persisting
  /\ Taken(j) = {}
  /\ Report(j, "done", results[j])
  /\ UNCHANGED <<outs, clock, data>>

\* The gate of approval: the newest row of the submission succeeded.
MayApprove ==
  \E j \in JobId : target[j] = "done" /\ \A k \in JobId : target[k] # "none" => k <= j

\* The gate of reject_submission: no job that may run still has it to do.
MayReject == \A j \in JobId : target[j] = "open" => status[j] \notin {"pending", "running"}

\* The submission is approved or rejected.
Review ==
  /\ pending
  /\ MayApprove \/ MayReject
  /\ pending' = FALSE
  /\ UNCHANGED <<jobVars, outs, clock, runVars, data>>

Next ==
  \/ EnqueueRoot \/ Review
  \/ \E j \in JobId :
       \/ EnqueueRetry(j) \/ EnqueueRecovery(j)
       \/ Start(j) \/ StartTooLate(j) \/ Cancel(j)
       \/ SkipBlock(j) \/ NoInputs(j) \/ RunBlock(j)
       \/ EndEarly(j) \/ RunThrows(j)
       \/ Persist(j) \/ PersistNothing(j)

Spec == Init /\ [][Next]_vars

-----------------------------------------------------------------------------
(* Properties.                                                              *)

\* The checkpoints a run brings to the persist block are ones the result RPC
\* takes: the choice made in TypeScript (runner.ts, isOwnedCheckpoint) and the
\* checks made in SQL agree, and nobody merged them in the meantime.
RpcAgrees ==
  \A j \in JobId : Running(j) /\ block[j] = Persisting /\ pending => Accepted(j)

\* The lineage of j was worked off in its order: later jobs saved later rows,
\* and what was merged of it a job of it reported as done.  Nothing in the code
\* sees to that; a recovery that runs before its source, a second recovery of
\* one source, or a lost answer of the result RPC do break OneVersion and
\* MovesForward.
InOrder(j) ==
  /\ \A i, k \in lineage[j], p, q \in Phases :
       i < k /\ Usable(i, p) /\ Usable(k, q) => outs[i][p].at < outs[k][q].at
  /\ \A i \in lineage[j], p \in Phases :
       outs[i][p].merged # 0 => \E k \in lineage[j] : k >= i /\ target[k] = "done"

\* Whatever was merged of the jobs up to one that reported done was merged
\* before any job after it saved a row: no job of the lineage overtook another
\* so far that a write reached back behind rows saved since.
Settled(j) ==
  \A e, i, k \in lineage[j], p, q \in Phases :
    target[e] = "done" /\ i <= e /\ e < k /\ outs[i][p].merged # 0 /\ Usable(k, q)
      => outs[i][p].merged <= outs[k][q].at

\* One write holds outputs that belong together: where it has a phase and one
\* it depends on, the first was computed from that very output, as long as no
\* row of it was saved by a worker that had lost its job.
OneVersion ==
  \A j \in JobId :
    Running(j) /\ block[j] = Persisting /\ InOrder(j) /\ Settled(j)
      /\ (\A p \in Taken(j) : ~outs[checkpoints[j][p]][p].late)
    => \A p \in Taken(j) : \A d \in Deps(p) \cap Taken(j) :
         outs[checkpoints[j][p]][p].inputs[d] = checkpoints[j][d]

\* Along a lineage worked off in order the submission only moves forward: a job
\* never replaces an output of an ancestor by an older one.
MovesForward ==
  [][\A p \in Phases, j \in JobId :
       /\ data'[p] # data[p] /\ data[p] \in lineage[j]
       /\ Running(j) /\ block[j] = Persisting /\ InOrder(j)
       => outs[data[p]][p].at < outs[data'[p]][p].at]_vars

\* A retry or recovery that went through to its end has merged every phase it
\* reports as done or as satisfied from history.
NothingLost ==
  [][\A j \in JobId :
       /\ HasParent(j) /\ block[j] = Persisting
       /\ target[j] = "open" /\ target'[j] = "done"
       => \A p \in Phases :
            results[j][p] \in {"succeeded", "history"} => outs'[history[j][p]][p].merged # 0]_vars
=============================================================================
