-------------------------- MODULE CheckpointsProof --------------------------
(***************************************************************************)
(* For every set of phases, of actions and of results and every number of  *)
(* jobs: the checkpoints a run brings to its write are ones the result RPC *)
(* takes, a retry that goes through loses no output, and along a lineage   *)
(* that is worked off in order the brand is never set back to an older     *)
(* output of a phase.                                                      *)
(***************************************************************************)
EXTENDS Checkpoints, TLAPS

-----------------------------------------------------------------------------
(* Types *)

LEMMA BlocksOfPhases == \A p \in Phases : BlockOf[p] \in Blocks
<1>1. Phases \subseteq {"detect", "slugs", "acquire", "names", "descriptions",
                        "stockists", "faq", "products"}
  BY CheckpointAssumption DEF PhaseDeps
<1> QED
  BY <1>1 DEF BlockOf, Blocks

\* A run goes to a later block, at the latest to the persist block, and jumps
\* over no phase.
LEMMA NextBlocks ==
  ASSUME NEW b \in 0..5
  PROVE  /\ NextBlock(b) \in b + 1..Persisting
         /\ \A i \in b + 1..NextBlock(b) - 1 : PhasesOf(i) = {}
<1> DEFINE Good(c) == /\ c = Persisting \/ PhasesOf(c) # {}
                      /\ \A i \in b + 1..c - 1 : PhasesOf(i) = {}
<1>1. \E c \in b + 1..Persisting : Good(c)
  <2> DEFINE E(i) == PhasesOf(i) = {}
  <2>1. \A c \in b + 1..Persisting :
          Good(c) <=> (c = Persisting \/ ~E(c)) /\ \A i \in b + 1..c - 1 : E(i)
    OBVIOUS
  <2> HIDE DEF E, Good
  <2>2. CASE b = 5
    BY <2>1, <2>2 DEF Persisting
  <2>3. CASE b = 4
    BY <2>1, <2>3 DEF Persisting
  <2>4. CASE b = 3
    BY <2>1, <2>4 DEF Persisting
  <2>5. CASE b = 2
    BY <2>1, <2>5 DEF Persisting
  <2>6. CASE b = 1
    BY <2>1, <2>6 DEF Persisting
  <2>7. CASE b = 0
    BY <2>1, <2>7 DEF Persisting
  <2> QED
    BY <2>2, <2>3, <2>4, <2>5, <2>6, <2>7
<1>2. NextBlock(b) = CHOOSE c \in b + 1..Persisting : Good(c)
  BY DEF NextBlock
<1>3. NextBlock(b) \in b + 1..Persisting /\ Good(NextBlock(b))
  <2> HIDE DEF Good
  <2> QED
    BY <1>1, <1>2
<1> QED
  BY <1>3

LEMMA ForcedPlans ==
  ASSUME NEW S \in SUBSET Phases
  PROVE  ForceAll(S) \in Plans
BY DEF ForceAll, Plans

LEMMA Tables ==
  ASSUME TypeOK, NEW j \in JobId
  PROVE  /\ plan[j] \in Plans
         /\ plan[j].selected \in SUBSET Phases /\ plan[j].forced \in SUBSET Phases
         /\ SourcePlan(j) \in Plans /\ SourcePlan(j).selected \in SUBSET Phases
         /\ Selected(j) \in SUBSET Phases
         /\ lineage[j] \in SUBSET JobId
BY DEF TypeOK, Plans, SourcePlan, Selected

LEMMA ResumedPlans ==
  ASSUME TypeOK, NEW j \in JobId
  PROVE  ResumePlan(j) \in Plans
<1> DEFINE S == SourcePlan(j).selected
           R == Reusable(j)
<1>1. S \in SUBSET Phases
  BY Tables
<1>2. [selected |-> S, forced |-> S \ R] \in Plans
  BY <1>1 DEF Plans
<1>3. ForceAll(S) \in Plans /\ \A U \in SUBSET S : ForceAll(U) \in Plans
  BY <1>1, ForcedPlans
<1> HIDE DEF S, R
<1>4. ResumePlan(j) \in {ForceAll(S), [selected |-> S, forced |-> S \ R],
                         ForceAll(S \cap Unfinished(j))}
  BY DEF ResumePlan, S, R
<1> QED
  BY <1>2, <1>3, <1>4

\* Which scopes a phase retry may choose: sets of phases.
LEMMA ScopeTypes == \A S \in RetryScopes : S \in SUBSET Phases
<1>1. \A b : PhasesOf(b) \in SUBSET Phases
  BY DEF PhasesOf
<1> QED
  BY <1>1 DEF RetryScopes

LEMMA EnqueueType ==
  ASSUME TypeOK, NEW n \in JobId, NEW p \in 0..MaxJobs,
         NEW k \in {"root", "retry", "recovery"}, NEW new \in Plans,
         Enqueue(n, p, k, new)
  PROVE  TypeOK'
<1>1. p # None => p \in JobId
  BY DEF JobId, None
<1>2. lineage' \in [JobId -> SUBSET JobId]
  BY <1>1 DEF Enqueue, TypeOK
<1>3. status' \in [JobId -> {"none", "pending", "running", "completed", "failed", "cancelled"}]
  BY DEF Enqueue, TypeOK
<1>4. target' \in [JobId -> {"none", "open", "done", "failed", "cancelled"}]
  BY DEF Enqueue, TypeOK
<1>5. parent' \in [JobId -> 0..MaxJobs] /\ kind' \in [JobId -> {"none", "root", "retry", "recovery"}]
  BY DEF Enqueue, TypeOK
<1>6. plan' \in [JobId -> Plans]
  BY DEF Enqueue, TypeOK
<1> QED
  BY <1>2, <1>3, <1>4, <1>5, <1>6 DEF Enqueue, TypeOK, runVars

LEMMA OverType ==
  ASSUME TypeOK, NEW j \in JobId, Over(j)
  PROVE  /\ block' \in [JobId -> 0..Ended]
         /\ saved' \in [JobId -> [Phases -> 0..MaxJobs]]
         /\ history' \in [JobId -> [Phases -> 0..MaxJobs]]
         /\ checkpoints' \in [JobId -> [Phases -> 0..MaxJobs]]
<1>1. Nothing \in [Phases -> 0..MaxJobs]
  BY CheckpointAssumption DEF Nothing, None
<1> QED
  BY <1>1 DEF Over, TypeOK, Ended

LEMMA NoResultsType == NoResults \in [Phases -> PhaseResults]
BY DEF NoResults, PhaseResults

LEMMA ReportType ==
  ASSUME TypeOK, NEW j \in JobId, NEW o \in {"done", "failed"},
         NEW res \in [Phases -> PhaseResults],
         Report(j, o, res)
  PROVE  /\ status' \in [JobId -> {"none", "pending", "running", "completed", "failed", "cancelled"}]
         /\ target' \in [JobId -> {"none", "open", "done", "failed", "cancelled"}]
         /\ block' \in [JobId -> 0..Ended]
         /\ saved' \in [JobId -> [Phases -> 0..MaxJobs]]
         /\ history' \in [JobId -> [Phases -> 0..MaxJobs]]
         /\ results' \in [JobId -> [Phases -> PhaseResults]]
         /\ checkpoints' \in [JobId -> [Phases -> 0..MaxJobs]]
         /\ UNCHANGED <<parent, lineage, kind, plan, pending>>
<1>1. Over(j)
  BY DEF Report
<1>2. results' \in [JobId -> [Phases -> PhaseResults]]
  BY NoResultsType DEF Report, TypeOK
<1>3. status' \in [JobId -> {"none", "pending", "running", "completed", "failed", "cancelled"}]
  BY DEF Report, TypeOK
<1>4. target' \in [JobId -> {"none", "open", "done", "failed", "cancelled"}]
  BY DEF Report, TypeOK
<1> QED
  BY <1>1, <1>2, <1>3, <1>4, OverType DEF Report

\* What a report leaves alone is typed too.
LEMMA ReportedType ==
  ASSUME TypeOK, NEW j \in JobId, NEW o \in {"done", "failed"},
         NEW res \in [Phases -> PhaseResults],
         Report(j, o, res), outs' \in [JobId -> [Phases -> Rows]], clock' \in Nat,
         data' \in [Phases -> 0..MaxJobs]
  PROVE  TypeOK'
<1>1. /\ parent' \in [JobId -> 0..MaxJobs] /\ lineage' \in [JobId -> SUBSET JobId]
      /\ kind' \in [JobId -> {"none", "root", "retry", "recovery"}]
      /\ plan' \in [JobId -> Plans] /\ pending' \in BOOLEAN
  BY ReportType DEF TypeOK
<1> QED
  BY <1>1, ReportType DEF TypeOK

LEMMA Ids ==
  ASSUME NEW j \in JobId
  PROVE  j \in 0..MaxJobs /\ None \in 0..MaxJobs
BY CheckpointAssumption DEF JobId, None

LEMMA Put ==
  ASSUME NEW D, NEW R, NEW f \in [D -> R], NEW d \in D, NEW r \in R
  PROVE  [f EXCEPT ![d] = r] \in [D -> R]
OBVIOUS

\* The rows a block saves.
LEMMA RowTypes ==
  ASSUME TypeOK, NEW j \in JobId, NEW exec \in SUBSET Phases, NEW done \in SUBSET Phases
  PROVE  Recorded(j, exec, done) \in [Phases -> Rows]
<1>1. clock + 1 \in Nat /\ (~Running(j)) \in BOOLEAN /\ outs[j] \in [Phases -> Rows]
  BY DEF TypeOK
<1>2. ASSUME NEW p \in Phases
      PROVE  [d \in Phases |-> IF d \notin Deps(p) THEN None
                               ELSE IF d \in exec THEN j ELSE saved[j][d]]
               \in [Phases -> 0..MaxJobs]
  <2>1. saved[j] \in [Phases -> 0..MaxJobs]
    BY DEF TypeOK
  <2> QED
    BY <2>1, Ids
<1>3. ASSUME NEW p \in Phases PROVE Recorded(j, exec, done)[p] \in Rows
  <2>1. CASE p \in done
    BY <1>1, <1>2, <2>1 DEF Recorded, Rows
  <2>2. CASE p \notin done
    BY <1>1, <2>2 DEF Recorded
  <2> QED
    BY <2>1, <2>2
<1> QED
  BY <1>3 DEF Recorded

LEMMA ReusedTypes ==
  ASSUME TypeOK, NEW j \in JobId, NEW S
  PROVE  TakeReused(j, S) \in [Phases -> 0..MaxJobs]
BY DEF TypeOK, TakeReused

LEMMA NextBlockTypes ==
  ASSUME TypeOK, NEW j \in JobId, block[j] \in Blocks
  PROVE  /\ NextBlock(block[j]) \in block[j] + 1..Persisting
         /\ [block EXCEPT ![j] = NextBlock(@)] \in [JobId -> 0..Ended]
<1>1. NextBlock(block[j]) \in block[j] + 1..Persisting
  BY NextBlocks DEF Blocks
<1>2. NextBlock(block[j]) \in 0..Ended
  BY <1>1 DEF Blocks, Persisting, Ended
<1> QED
  BY <1>1, <1>2 DEF TypeOK

\* What the run of j takes from history is a job, or nothing.
LEMMA NewestSeen ==
  ASSUME NEW S \in SUBSET JobId, NEW p
  PROVE  Newest(S, p) = None \/ Newest(S, p) \in S
<1> DEFINE top == {k \in S : \A i \in S : outs[i][p].at <= outs[k][p].at}
<1>1. top # {} => (CHOOSE k \in top : TRUE) \in top
  OBVIOUS
<1>2. Newest(S, p) = IF top = {} THEN None ELSE CHOOSE k \in top : TRUE
  BY DEF Newest
<1> QED
  BY <1>1, <1>2

LEMMA StartTypes ==
  ASSUME NEW j \in JobId
  PROVE  [p \in Phases |-> Newest(Seen(j, p), p)] \in [Phases -> 0..MaxJobs]
<1>1. \A p \in Phases : Newest(Seen(j, p), p) \in 0..MaxJobs
  BY NewestSeen, CheckpointAssumption DEF Seen, JobId, None
<1> QED
  BY <1>1

LEMMA TypeInit == Init => TypeOK
<1> SUFFICES ASSUME Init PROVE TypeOK
  OBVIOUS
<1>1. Nothing \in [Phases -> 0..MaxJobs]
  BY CheckpointAssumption DEF Nothing, None
<1>2. NoRow \in Rows
  BY <1>1 DEF NoRow, Rows
<1>3. NoPlan \in Plans
  BY DEF NoPlan, Plans
<1> QED
  BY <1>1, <1>2, <1>3, NoResultsType, CheckpointAssumption DEF Init, TypeOK, Ended, None

LEMMA RunBlockType ==
  ASSUME TypeOK, NEW j \in JobId, RunBlock(j)
  PROVE  TypeOK'
<1>1. PICK outcome \in [Execute(j) -> Results] :
        LET exec == Execute(j)
            done == {p \in exec : outcome[p] = "succeeded"} IN
        /\ outs' = [outs EXCEPT ![j] = Recorded(j, exec, done)]
        /\ saved' = [saved EXCEPT ![j] = [p \in Phases |-> IF p \in exec THEN j ELSE @[p]]]
        /\ history' = [history EXCEPT ![j] = [p \in Phases |-> IF p \in done THEN j ELSE @[p]]]
        /\ checkpoints' = [checkpoints EXCEPT ![j] = [p \in Phases |->
                             IF p \in done THEN j ELSE TakeReused(j, Chosen(j) \ exec)[p]]]
        /\ results' = [results EXCEPT ![j] = [p \in Phases |->
                         IF p \in exec THEN outcome[p]
                         ELSE IF p \in Chosen(j) THEN "history" ELSE @[p]]]
        /\ clock' = IF done = {} THEN clock ELSE clock + 1
  BY DEF RunBlock
<1> DEFINE exec == Execute(j)
           done == {p \in exec : outcome[p] = "succeeded"}
<1>2. exec \in SUBSET Phases /\ done \in SUBSET Phases
  BY DEF Execute, Chosen, PhasesOf
<1>3. outs' \in [JobId -> [Phases -> Rows]]
  BY <1>1, <1>2, RowTypes DEF TypeOK
<1>4. saved' \in [JobId -> [Phases -> 0..MaxJobs]]
  BY <1>1 DEF TypeOK, JobId
<1>5. history' \in [JobId -> [Phases -> 0..MaxJobs]]
  <2>1. history[j] \in [Phases -> 0..MaxJobs]
    BY DEF TypeOK
  <2>2. [p \in Phases |-> IF p \in done THEN j ELSE history[j][p]] \in [Phases -> 0..MaxJobs]
    BY <2>1, Ids
  <2> QED
    BY <1>1, <2>2 DEF TypeOK
<1>6. checkpoints' \in [JobId -> [Phases -> 0..MaxJobs]]
  <2>1. TakeReused(j, Chosen(j) \ exec) \in [Phases -> 0..MaxJobs]
    BY ReusedTypes
  <2>2. [p \in Phases |-> IF p \in done THEN j ELSE TakeReused(j, Chosen(j) \ exec)[p]]
          \in [Phases -> 0..MaxJobs]
    BY <2>1, Ids
  <2>3. checkpoints' = [checkpoints EXCEPT ![j] = [p \in Phases |->
          IF p \in done THEN j ELSE TakeReused(j, Chosen(j) \ exec)[p]]]
    BY <1>1
  <2> QED
    BY <2>2, <2>3, Put DEF TypeOK
<1>7. results' \in [JobId -> [Phases -> PhaseResults]]
  <2>1. \A p \in exec : outcome[p] \in PhaseResults
    BY CheckpointAssumption DEF PhaseResults
  <2>2. "history" \in PhaseResults
    BY DEF PhaseResults
  <2> QED
    BY <1>1, <2>1, <2>2 DEF TypeOK
<1>8. clock' \in Nat
  BY <1>1 DEF TypeOK
<1>9. block' \in [JobId -> 0..Ended]
  BY NextBlockTypes DEF RunBlock
<1>10. UNCHANGED <<jobVars, pending, data>>
  BY DEF RunBlock
<1> QED
  BY <1>3, <1>4, <1>5, <1>6, <1>7, <1>8, <1>9, <1>10 DEF TypeOK, jobVars

LEMMA MergeType ==
  ASSUME TypeOK, NEW j \in JobId, Merge(j)
  PROVE  outs' \in [JobId -> [Phases -> Rows]] /\ data' \in [Phases -> 0..MaxJobs]
<1>1. data' \in [Phases -> 0..MaxJobs]
  BY DEF Merge, TypeOK
<1>2. ASSUME NEW k \in JobId, NEW p \in Phases
      PROVE  outs[k][p] \in Rows /\ [outs[k][p] EXCEPT !.merged = clock + 1] \in Rows
  <2>1. outs[k][p] \in Rows /\ clock + 1 \in Nat
    BY DEF TypeOK
  <2> QED
    BY <2>1 DEF Rows
<1> QED
  BY <1>1, <1>2 DEF Merge

LEMMA TypeStep == TypeOK /\ [Next]_vars => TypeOK'
<1> SUFFICES ASSUME TypeOK, [Next]_vars PROVE TypeOK'
  OBVIOUS
<1>1. ASSUME EnqueueRoot PROVE TypeOK'
  <2>1. None \in 0..MaxJobs /\ NoPlan \in Plans
    BY CheckpointAssumption DEF None, NoPlan, Plans
  <2> QED
    BY <1>1, <2>1, EnqueueType DEF EnqueueRoot
<1>2. ASSUME Review PROVE TypeOK'
  BY <1>2 DEF Review, TypeOK, jobVars, runVars
<1>3. ASSUME NEW j \in JobId, EnqueueRetry(j) PROVE TypeOK'
  BY <1>3, Ids, Tables, EnqueueType DEF EnqueueRetry
<1>4. ASSUME NEW j \in JobId, EnqueueRecovery(j) PROVE TypeOK'
  <2>1. ForceAll(SourcePlan(j).selected) \in Plans /\ ResumePlan(j) \in Plans
    BY Tables, ForcedPlans, ResumedPlans
  <2>2. \A S \in RetryScopes \ {{}} : ForceAll(S) \in Plans
    BY ScopeTypes, ForcedPlans
  <2>3. PICK n \in JobId, new \in Plans : Enqueue(n, j, "recovery", new)
    BY <1>4, <2>1, <2>2 DEF EnqueueRecovery
  <2> QED
    BY <2>3, Ids, EnqueueType
<1>5. ASSUME NEW j \in JobId, Start(j) PROVE TypeOK'
  <2>1. [p \in Phases |-> Newest(Seen(j, p), p)] \in [Phases -> 0..MaxJobs]
    BY StartTypes
  <2>2. /\ saved' \in [JobId -> [Phases -> 0..MaxJobs]]
        /\ history' \in [JobId -> [Phases -> 0..MaxJobs]]
    BY <1>5, <2>1 DEF Start, TypeOK
  <2>3. block' \in [JobId -> 0..Ended]
    <3>1. NextBlock(0) \in 0..Ended
      BY NextBlocks DEF Persisting, Ended
    <3> QED
      BY <1>5, <3>1 DEF Start, TypeOK
  <2>4. status' \in [JobId -> {"none", "pending", "running", "completed", "failed", "cancelled"}]
    BY <1>5 DEF Start, Claim, TypeOK
  <2> QED
    BY <1>5, <2>2, <2>3, <2>4 DEF Start, TypeOK
<1>6. ASSUME NEW j \in JobId, StartTooLate(j) PROVE TypeOK'
  BY <1>6 DEF StartTooLate, TypeOK, runVars
<1>7. ASSUME NEW j \in JobId, Cancel(j) PROVE TypeOK'
  <2>1. /\ status' \in [JobId -> {"none", "pending", "running", "completed", "failed", "cancelled"}]
        /\ target' \in [JobId -> {"none", "open", "done", "failed", "cancelled"}]
    BY <1>7 DEF Cancel, TypeOK
  <2>2. CASE Over(j) /\ results' = [results EXCEPT ![j] = NoResults]
    BY <1>7, <2>1, <2>2, OverType, NoResultsType DEF Cancel, TypeOK
  <2>3. CASE UNCHANGED runVars
    BY <1>7, <2>1, <2>3 DEF Cancel, TypeOK, runVars
  <2> QED
    BY <1>7, <2>2, <2>3 DEF Cancel
<1>8. ASSUME NEW j \in JobId, SkipBlock(j) PROVE TypeOK'
  <2>1. checkpoints' \in [JobId -> [Phases -> 0..MaxJobs]]
    BY <1>8, ReusedTypes, Put DEF SkipBlock, TypeOK
  <2>2. results' \in [JobId -> [Phases -> PhaseResults]]
    <3>1. "history" \in PhaseResults
      BY DEF PhaseResults
    <3> QED
      BY <1>8, <3>1 DEF SkipBlock, TypeOK
  <2>3. block' \in [JobId -> 0..Ended]
    BY <1>8, NextBlockTypes DEF SkipBlock
  <2> QED
    BY <1>8, <2>1, <2>2, <2>3 DEF SkipBlock, TypeOK, jobVars
<1>9. ASSUME NEW j \in JobId, NoInputs(j) PROVE TypeOK'
  <2> DEFINE res == [p \in Phases |-> IF p \in Execute(j) THEN "failed"
                                      ELSE IF p \in Chosen(j) THEN "history"
                                      ELSE results[j][p]]
  <2>1. res \in [Phases -> PhaseResults]
    BY DEF TypeOK, PhaseResults
  <2>2. Report(j, "failed", res) /\ UNCHANGED <<outs, clock, data>>
    BY <1>9 DEF NoInputs
  <2> QED
    BY <2>1, <2>2, ReportedType DEF TypeOK
<1>10. ASSUME NEW j \in JobId, RunBlock(j) PROVE TypeOK'
  BY <1>10, RunBlockType
<1>11. ASSUME NEW j \in JobId, EndEarly(j) PROVE TypeOK'
  <2>1. results[j] \in [Phases -> PhaseResults]
    BY DEF TypeOK
  <2>2. PICK o \in {"done", "failed"} : Report(j, o, results[j])
    BY <1>11 DEF EndEarly
  <2>3. UNCHANGED <<outs, clock, data>>
    BY <1>11 DEF EndEarly
  <2> QED
    BY <2>1, <2>2, <2>3, ReportedType DEF TypeOK
<1>12. ASSUME NEW j \in JobId, RunThrows(j) PROVE TypeOK'
  <2>1. status' \in [JobId -> {"none", "pending", "running", "completed", "failed", "cancelled"}]
    BY <1>12 DEF RunThrows, TypeOK
  <2>2. results' \in [JobId -> [Phases -> PhaseResults]]
    BY <1>12, NoResultsType DEF RunThrows, TypeOK
  <2> QED
    BY <1>12, <2>1, <2>2, OverType DEF RunThrows, TypeOK
<1>13. ASSUME NEW j \in JobId, Persist(j) PROVE TypeOK'
  <2>1. results[j] \in [Phases -> PhaseResults]
    BY DEF TypeOK
  <2>2. CASE Accepted(j)
    <3>1. /\ outs' \in [JobId -> [Phases -> Rows]] /\ data' \in [Phases -> 0..MaxJobs]
          /\ clock' \in Nat
      BY <1>13, <2>2, MergeType DEF Persist, TypeOK
    <3>2. ASSUME NEW o \in {"done", "failed"}, Report(j, o, results[j]) PROVE TypeOK'
      BY <2>1, <3>1, <3>2, ReportedType
    <3>3. ASSUME /\ Over(j)
                 /\ results' = [results EXCEPT ![j] = NoResults]
                 /\ status' = [status EXCEPT ![j] = "failed"]
                 /\ UNCHANGED <<target, parent, lineage, kind, plan, pending>>
          PROVE  TypeOK'
      <4>1. status' \in [JobId -> {"none", "pending", "running", "completed", "failed", "cancelled"}]
        BY <3>3 DEF TypeOK
      <4>2. results' \in [JobId -> [Phases -> PhaseResults]]
        BY <3>3, NoResultsType DEF TypeOK
      <4> QED
        BY <3>1, <3>3, <4>1, <4>2, OverType DEF TypeOK
    <3> QED
      BY <1>13, <2>2, <3>2, <3>3 DEF Persist
  <2>3. CASE ~Accepted(j)
    <3>1. Report(j, "failed", results[j]) /\ UNCHANGED <<outs, data, clock>>
      BY <1>13, <2>3 DEF Persist
    <3> QED
      BY <2>1, <3>1, ReportedType DEF TypeOK
  <2> QED
    BY <2>2, <2>3
<1>14. ASSUME NEW j \in JobId, PersistNothing(j) PROVE TypeOK'
  <2>1. results[j] \in [Phases -> PhaseResults]
    BY DEF TypeOK
  <2> QED
    BY <1>14, <2>1, ReportedType DEF PersistNothing, TypeOK
<1>15. ASSUME UNCHANGED vars PROVE TypeOK'
  BY <1>15 DEF vars, TypeOK, jobVars, runVars
<1> QED
  BY <1>1, <1>2, <1>3, <1>4, <1>5, <1>6, <1>7, <1>8, <1>9, <1>10, <1>11, <1>12, <1>13,
     <1>14, <1>15 DEF Next

\* Type correctness of the checkpoint machinery, for every instance; in
\* particular a plan never forces a phase that it does not select.
THEOREM TypeCorrect == Spec => []TypeOK
<1> QED
  BY TypeInit, TypeStep, PTL DEF Spec

-----------------------------------------------------------------------------
(* What a step may do to a job, to the memory of its run and to a row       *)

Joins(j) ==
  /\ status[j] = "none" /\ status'[j] = "pending" /\ target'[j] = "open"
  /\ j \in lineage'[j]

KeepsRow(j) ==
  parent'[j] = parent[j] /\ lineage'[j] = lineage[j] /\ plan'[j] = plan[j]

EndsJob(j) ==
  /\ status[j] \in {"pending", "running"}
  /\ status'[j] \in {"completed", "failed", "cancelled"}

KeepsJob(j) == status'[j] = status[j] /\ target'[j] = target[j]

JobMove(j) == Joins(j) \/ (KeepsRow(j) /\ (KeepsJob(j) \/ Start(j) \/ EndsJob(j)))

KeepsRun(j) ==
  /\ block'[j] = block[j] /\ saved'[j] = saved[j] /\ history'[j] = history[j]
  /\ results'[j] = results[j] /\ checkpoints'[j] = checkpoints[j]

EndsRun(j) == Active(j) /\ block'[j] = Ended /\ checkpoints'[j] = Nothing

RunMove(j) == KeepsRun(j) \/ Start(j) \/ EndsRun(j) \/ SkipBlock(j) \/ RunBlock(j)

KeepsOuts(k, p) == outs'[k][p] = outs[k][p]

\* The block of p saves its row.
SavesRow(k, p) ==
  /\ RunBlock(k) /\ BlockOf[p] = block[k]
  /\ outs'[k][p].at # 0 /\ outs'[k][p].merged = 0

\* A write merges the row.
MergesRow(k, p) ==
  \E j \in JobId :
    /\ Persist(j) /\ Accepted(j) /\ p \in Taken(j) /\ checkpoints[j][p] = k
    /\ outs'[k][p].merged # 0 /\ outs'[k][p].merged = clock + 1
    /\ outs'[k][p].at = outs[k][p].at /\ outs'[k][p].late = outs[k][p].late
    /\ outs'[k][p].inputs = outs[k][p].inputs

OutMove(k, p) == KeepsOuts(k, p) \/ SavesRow(k, p) \/ MergesRow(k, p)

LEMMA EnqueueMoves ==
  ASSUME TypeOK, NEW n \in JobId, NEW p, NEW k, NEW new, Enqueue(n, p, k, new),
         NEW j \in JobId
  PROVE  JobMove(j) /\ KeepsRun(j) /\ \A q \in Phases : KeepsOuts(j, q)
<1>1. KeepsRun(j) /\ \A q \in Phases : KeepsOuts(j, q)
  BY DEF Enqueue, runVars, KeepsRun, KeepsOuts
<1>2. CASE j = n
  <2>1. status[j] = "none" /\ status'[j] = "pending" /\ target'[j] = "open"
    BY <1>2 DEF Enqueue, Free, TypeOK
  <2>2. j \in lineage'[j]
    BY <1>2 DEF Enqueue, TypeOK
  <2> QED
    BY <1>1, <2>1, <2>2 DEF JobMove, Joins
<1>3. CASE j # n
  <2>1. status'[j] = status[j] /\ target'[j] = target[j]
    BY <1>3 DEF Enqueue, TypeOK
  <2>2. parent'[j] = parent[j] /\ lineage'[j] = lineage[j]
    BY <1>3 DEF Enqueue, TypeOK
  <2>3. plan'[j] = plan[j]
    BY <1>3 DEF Enqueue, TypeOK
  <2> QED
    BY <1>1, <2>1, <2>2, <2>3 DEF JobMove, KeepsRow, KeepsJob
<1> QED
  BY <1>1, <1>2, <1>3

LEMMA OverMoves ==
  ASSUME TypeOK, NEW i \in JobId, Over(i), Active(i), NEW r,
         results' = [results EXCEPT ![i] = r], NEW j \in JobId
  PROVE  KeepsRun(j) \/ EndsRun(j)
<1>1. CASE j = i
  BY <1>1 DEF Over, TypeOK, EndsRun
<1>2. CASE j # i
  BY <1>2 DEF Over, TypeOK, KeepsRun
<1> QED
  BY <1>1, <1>2

LEMMA ReportMoves ==
  ASSUME TypeOK, NEW i \in JobId, NEW o, NEW r, Report(i, o, r), Active(i), NEW j \in JobId
  PROVE  JobMove(j) /\ (KeepsRun(j) \/ EndsRun(j))
<1>1. KeepsRun(j) \/ EndsRun(j)
  BY OverMoves DEF Report
<1>2. KeepsRow(j)
  BY DEF Report, KeepsRow
<1>3. KeepsJob(j) \/ EndsJob(j)
  <2>1. CASE j = i /\ Running(i)
    BY <2>1 DEF Report, TypeOK, EndsJob, Running
  <2>2. CASE j # i \/ ~Running(i)
    BY <2>2 DEF Report, TypeOK, KeepsJob
  <2> QED
    BY <2>1, <2>2
<1> QED
  BY <1>1, <1>2, <1>3 DEF JobMove

LEMMA RunBlockRows ==
  ASSUME TypeOK, NEW i \in JobId, RunBlock(i), NEW k \in JobId, NEW p \in Phases
  PROVE  KeepsOuts(k, p) \/ SavesRow(k, p)
<1>1. PICK outcome \in [Execute(i) -> Results] :
        outs' = [outs EXCEPT ![i] =
          Recorded(i, Execute(i), {q \in Execute(i) : outcome[q] = "succeeded"})]
  BY DEF RunBlock
<1> DEFINE done == {q \in Execute(i) : outcome[q] = "succeeded"}
<1>2. CASE k = i /\ p \in done
  <2>1. outs'[k][p] = [at |-> clock + 1, merged |-> 0, late |-> ~Running(i),
                       inputs |-> [d \in Phases |-> IF d \notin Deps(p) THEN None
                                    ELSE IF d \in Execute(i) THEN i ELSE saved[i][d]]]
    BY <1>1, <1>2 DEF TypeOK, Recorded
  <2>2. BlockOf[p] = block[k]
    BY <1>2 DEF Execute, Chosen, PhasesOf
  <2>3. clock + 1 # 0
    BY DEF TypeOK
  <2> QED
    BY <1>2, <2>1, <2>2, <2>3 DEF SavesRow
<1>3. CASE k = i /\ p \notin done
  BY <1>1, <1>3 DEF TypeOK, Recorded, KeepsOuts
<1>4. CASE k # i
  BY <1>1, <1>4 DEF TypeOK, KeepsOuts
<1> QED
  BY <1>2, <1>3, <1>4

LEMMA MergeRows ==
  ASSUME TypeOK, NEW j \in JobId, Persist(j), Accepted(j), NEW k \in JobId, NEW p \in Phases
  PROVE  KeepsOuts(k, p) \/ MergesRow(k, p)
<1>1. outs'[k][p] = IF p \in Taken(j) /\ checkpoints[j][p] = k
                    THEN [outs[k][p] EXCEPT !.merged = clock + 1] ELSE outs[k][p]
  BY DEF Persist, Merge
<1>2. outs[k][p] \in Rows /\ clock + 1 \in Nat /\ clock + 1 # 0
  BY DEF TypeOK
<1>3. CASE p \in Taken(j) /\ checkpoints[j][p] = k
  <2>1. /\ outs'[k][p].at = outs[k][p].at /\ outs'[k][p].merged = clock + 1
        /\ outs'[k][p].late = outs[k][p].late /\ outs'[k][p].inputs = outs[k][p].inputs
    BY <1>1, <1>2, <1>3 DEF Rows
  <2> QED
    BY <1>2, <1>3, <2>1 DEF MergesRow
<1>4. CASE ~(p \in Taken(j) /\ checkpoints[j][p] = k)
  BY <1>1, <1>4 DEF KeepsOuts
<1> QED
  BY <1>3, <1>4

\* A step changes a job, the memory of its run and its rows in these ways only.
LEMMA Moves ==
  ASSUME TypeOK, Next, NEW j \in JobId
  PROVE  JobMove(j) /\ RunMove(j) /\ \A p \in Phases : OutMove(j, p)
<1> USE DEF OutMove, RunMove
<1>0. ASSUME UNCHANGED jobVars PROVE JobMove(j)
  BY <1>0 DEF jobVars, JobMove, KeepsRow, KeepsJob
<1>00. ASSUME UNCHANGED outs PROVE \A p \in Phases : KeepsOuts(j, p)
  BY <1>00 DEF KeepsOuts
<1>1. CASE EnqueueRoot
  BY <1>1, EnqueueMoves DEF EnqueueRoot
<1>2. CASE Review
  BY <1>2, <1>0, <1>00 DEF Review, KeepsRun, runVars
<1>3. ASSUME NEW i \in JobId, EnqueueRetry(i)
      PROVE  JobMove(j) /\ RunMove(j) /\ \A p \in Phases : OutMove(j, p)
  BY <1>3, EnqueueMoves DEF EnqueueRetry
<1>4. ASSUME NEW i \in JobId, EnqueueRecovery(i)
      PROVE  JobMove(j) /\ RunMove(j) /\ \A p \in Phases : OutMove(j, p)
  <2>1. PICK n \in JobId : \E new : Enqueue(n, i, "recovery", new)
    BY <1>4 DEF EnqueueRecovery
  <2> QED
    BY <2>1, EnqueueMoves
<1>5. ASSUME NEW i \in JobId, Start(i)
      PROVE  JobMove(j) /\ RunMove(j) /\ \A p \in Phases : OutMove(j, p)
  <2>1. \A p \in Phases : KeepsOuts(j, p)
    BY <1>5, <1>00 DEF Start
  <2>2. KeepsRow(j)
    BY <1>5 DEF Start, KeepsRow
  <2>3. CASE j = i
    BY <1>5, <2>1, <2>2, <2>3 DEF JobMove
  <2>4. CASE j # i
    <3>1. KeepsRun(j)
      BY <1>5, <2>4 DEF Start, TypeOK, KeepsRun
    <3>2. KeepsJob(j)
      BY <1>5, <2>4 DEF Start, Claim, TypeOK, KeepsJob
    <3> QED
      BY <2>1, <2>2, <3>1, <3>2 DEF JobMove
  <2> QED
    BY <2>3, <2>4
<1>6. ASSUME NEW i \in JobId, StartTooLate(i)
      PROVE  JobMove(j) /\ RunMove(j) /\ \A p \in Phases : OutMove(j, p)
  <2>1. KeepsRun(j) /\ (\A p \in Phases : KeepsOuts(j, p)) /\ KeepsRow(j)
    BY <1>6 DEF StartTooLate, runVars, KeepsRun, KeepsOuts, KeepsRow
  <2>2. KeepsJob(j) \/ EndsJob(j)
    BY <1>6 DEF StartTooLate, TypeOK, KeepsJob, EndsJob
  <2> QED
    BY <2>1, <2>2 DEF JobMove
<1>7. ASSUME NEW i \in JobId, Cancel(i)
      PROVE  JobMove(j) /\ RunMove(j) /\ \A p \in Phases : OutMove(j, p)
  <2>1. (\A p \in Phases : KeepsOuts(j, p)) /\ KeepsRow(j)
    BY <1>7 DEF Cancel, KeepsOuts, KeepsRow
  <2>2. KeepsJob(j) \/ EndsJob(j)
    BY <1>7 DEF Cancel, TypeOK, KeepsJob, EndsJob
  <2>3. KeepsRun(j) \/ EndsRun(j)
    <3>1. CASE Active(i) /\ Over(i) /\ results' = [results EXCEPT ![i] = NoResults]
      BY <3>1, OverMoves
    <3>2. CASE UNCHANGED runVars
      BY <3>2 DEF runVars, KeepsRun
    <3> QED
      BY <1>7, <3>1, <3>2 DEF Cancel
  <2> QED
    BY <2>1, <2>2, <2>3 DEF JobMove
<1>8. ASSUME NEW i \in JobId, SkipBlock(i)
      PROVE  JobMove(j) /\ RunMove(j) /\ \A p \in Phases : OutMove(j, p)
  <2>1. JobMove(j) /\ \A p \in Phases : KeepsOuts(j, p)
    BY <1>8, <1>0, <1>00 DEF SkipBlock
  <2>2. CASE j # i
    BY <1>8, <2>1, <2>2 DEF SkipBlock, TypeOK, KeepsRun
  <2> QED
    BY <1>8, <2>1, <2>2
<1>9. ASSUME NEW i \in JobId, NoInputs(i)
      PROVE  JobMove(j) /\ RunMove(j) /\ \A p \in Phases : OutMove(j, p)
  <2>1. PICK res : Report(i, "failed", res)
    BY <1>9 DEF NoInputs
  <2>2. Active(i) /\ UNCHANGED outs
    BY <1>9 DEF NoInputs, Active, Blocks, Persisting
  <2> QED
    BY <2>1, <2>2, <1>00, ReportMoves
<1>10. ASSUME NEW i \in JobId, RunBlock(i)
      PROVE  JobMove(j) /\ RunMove(j) /\ \A p \in Phases : OutMove(j, p)
  <2>1. JobMove(j)
    BY <1>10, <1>0 DEF RunBlock
  <2>2. \A p \in Phases : OutMove(j, p)
    BY <1>10, RunBlockRows
  <2>3. CASE j # i
    <3>1. KeepsRun(j)
      BY <1>10, <2>3 DEF RunBlock, TypeOK, KeepsRun
    <3> QED
      BY <2>1, <2>2, <3>1
  <2> QED
    BY <1>10, <2>1, <2>2, <2>3
<1>11. ASSUME NEW i \in JobId, EndEarly(i)
      PROVE  JobMove(j) /\ RunMove(j) /\ \A p \in Phases : OutMove(j, p)
  <2>1. PICK o : Report(i, o, results[i])
    BY <1>11 DEF EndEarly
  <2>2. Active(i) /\ UNCHANGED outs
    BY <1>11 DEF EndEarly
  <2> QED
    BY <2>1, <2>2, <1>00, ReportMoves
<1>12. ASSUME NEW i \in JobId, RunThrows(i)
      PROVE  JobMove(j) /\ RunMove(j) /\ \A p \in Phases : OutMove(j, p)
  <2>1. KeepsRun(j) \/ EndsRun(j)
    BY <1>12, OverMoves DEF RunThrows
  <2>2. (\A p \in Phases : KeepsOuts(j, p)) /\ KeepsRow(j)
    BY <1>12 DEF RunThrows, KeepsOuts, KeepsRow
  <2>3. KeepsJob(j) \/ EndsJob(j)
    BY <1>12 DEF RunThrows, TypeOK, KeepsJob, EndsJob, Running
  <2> QED
    BY <2>1, <2>2, <2>3 DEF JobMove
<1>13. ASSUME NEW i \in JobId, Persist(i)
      PROVE  JobMove(j) /\ RunMove(j) /\ \A p \in Phases : OutMove(j, p)
  <2>1. Active(i)
    BY <1>13 DEF Persist, Active, Persisting
  <2>2. CASE Accepted(i)
    <3>1. \A p \in Phases : OutMove(j, p)
      BY <1>13, <2>2, MergeRows
    <3>2. ASSUME NEW o, Report(i, o, results[i]) PROVE JobMove(j) /\ RunMove(j)
      BY <2>1, <3>2, ReportMoves
    <3>3. ASSUME /\ Over(i)
                 /\ results' = [results EXCEPT ![i] = NoResults]
                 /\ status' = [status EXCEPT ![i] = "failed"]
                 /\ UNCHANGED <<target, parent, lineage, kind, plan, pending>>
          PROVE  JobMove(j) /\ RunMove(j)
      <4>1. KeepsRun(j) \/ EndsRun(j)
        BY <2>1, <3>3, OverMoves
      <4>2. KeepsRow(j) /\ (KeepsJob(j) \/ EndsJob(j))
        BY <2>2, <3>3 DEF Accepted, Running, TypeOK, KeepsRow, KeepsJob, EndsJob
      <4> QED
        BY <4>1, <4>2 DEF JobMove
    <3> QED
      BY <1>13, <2>2, <3>1, <3>2, <3>3 DEF Persist
  <2>3. CASE ~Accepted(i)
    <3>1. Report(i, "failed", results[i]) /\ UNCHANGED outs
      BY <1>13, <2>3 DEF Persist
    <3> QED
      BY <2>1, <3>1, <1>00, ReportMoves
  <2> QED
    BY <2>2, <2>3
<1>14. ASSUME NEW i \in JobId, PersistNothing(i)
      PROVE  JobMove(j) /\ RunMove(j) /\ \A p \in Phases : OutMove(j, p)
  <2>1. Active(i) /\ Report(i, "done", results[i]) /\ UNCHANGED outs
    BY <1>14 DEF PersistNothing, Active, Persisting
  <2> QED
    BY <2>1, <1>00, ReportMoves
<1> HIDE DEF OutMove, RunMove
<1> QED
  BY <1>1, <1>2, <1>3, <1>4, <1>5, <1>6, <1>7, <1>8, <1>9, <1>10, <1>11, <1>12, <1>13,
     <1>14 DEF Next

-----------------------------------------------------------------------------
(* The inductive invariant                                                  *)

\* Rows lie behind the run that saved them; only rows are merged.
RowsBehind ==
  \A k \in JobId, p \in Phases :
    /\ Usable(k, p) => BlockOf[p] < block[k]
    /\ outs[k][p].merged # 0 => Usable(k, p)

\* A job that has not started has no run and no results.
Waiting ==
  \A j \in JobId :
    /\ status[j] \in {"none", "pending"} => block[j] = 0
    /\ block[j] = 0 => results[j] = NoResults

Cleared == \A j \in JobId : ~Active(j) => checkpoints[j] = Nothing

Opened ==
  \A j \in JobId : status[j] \in {"pending", "running"} => target[j] = "open"

Single == \A i, j \in JobId : Running(i) /\ Running(j) => i = j

OwnLine == \A j \in JobId : status[j] # "none" => j \in lineage[j]

\* What a run holds of a phase: a saved row, of its lineage if it has a parent,
\* or what it produced itself; unchanged from its history up to its block.
MemoryOf(j, p) ==
  /\ saved[j][p] # None =>
       /\ Usable(saved[j][p], p) \/ (saved[j][p] = j /\ BlockOf[p] < block[j])
       /\ HasParent(j) => saved[j][p] \in lineage[j]
  /\ block[j] <= BlockOf[p] => saved[j][p] = history[j][p]

Memory == \A j \in JobId, p \in Phases : Active(j) => MemoryOf(j, p)

\* What a run with a parent counts as done goes to its write, or is merged.
KeptOf(j, p) ==
  results[j][p] \in {"succeeded", "history"} =>
    /\ history[j][p] # None
    /\ checkpoints[j][p] = history[j][p] \/ outs[history[j][p]][p].merged # 0

Kept == \A j \in JobId, p \in Phases : Active(j) /\ HasParent(j) => KeptOf(j, p)

\* The result RPC would take each checkpoint of a running job.
Fit ==
  \A j \in JobId, p \in Phases :
    Running(j) /\ Active(j) /\ checkpoints[j][p] # None => Eligible(j, checkpoints[j][p], p)

Inv ==
  /\ TypeOK /\ RowsBehind /\ Waiting /\ Cleared /\ Opened /\ Single /\ OwnLine
  /\ Memory /\ Kept /\ Fit

LEMMA InvInit == Init => Inv
<1> SUFFICES ASSUME Init PROVE Inv
  OBVIOUS
<1>1. TypeOK
  BY TypeInit
<1>2. \A j \in JobId : ~Active(j)
  BY DEF Init, Active, Persisting
<1>3. RowsBehind
  BY DEF Init, RowsBehind, Usable, NoRow
<1>4. Waiting /\ Opened /\ Single /\ OwnLine
  BY DEF Init, Waiting, Opened, Single, OwnLine, Running
<1>5. Cleared
  BY DEF Init, Cleared
<1>6. Memory /\ Kept /\ Fit
  BY <1>2 DEF Memory, Kept, Fit
<1> QED
  BY <1>1, <1>3, <1>4, <1>5, <1>6 DEF Inv

\* A run goes on to a later block.
LEMMA BlockMoves ==
  ASSUME TypeOK, NEW j \in JobId
  PROVE  /\ Start(j) => block'[j] \in 1..Persisting
         /\ SkipBlock(j) \/ RunBlock(j) =>
              block[j] \in Blocks /\ block'[j] \in block[j] + 1..Persisting
<1>1. ASSUME Start(j) PROVE block'[j] \in 1..Persisting
  BY <1>1, NextBlocks DEF Start, TypeOK
<1>2. ASSUME SkipBlock(j) \/ RunBlock(j)
      PROVE  block[j] \in Blocks /\ block'[j] \in block[j] + 1..Persisting
  <2>1. block[j] \in Blocks /\ block' = [block EXCEPT ![j] = NextBlock(block[j])]
    BY <1>2 DEF SkipBlock, RunBlock
  <2> QED
    BY <2>1, NextBlockTypes DEF TypeOK
<1> QED
  BY <1>1, <1>2

LEMMA BlockGrows ==
  ASSUME Inv, Next, NEW k \in JobId
  PROVE  block'[k] >= block[k] /\ (RunBlock(k) => block'[k] > block[k])
<1>1. TypeOK /\ Waiting
  BY DEF Inv
<1>2. block[k] \in 0..7 /\ block'[k] \in 0..7
  BY <1>1, TypeStep DEF TypeOK, Ended
<1>3. RunMove(k)
  BY <1>1, Moves
<1>4. ASSUME Start(k) PROVE block[k] = 0
  BY <1>1, <1>4 DEF Start, Claim, Waiting
<1>5. ASSUME RunBlock(k) \/ SkipBlock(k) PROVE block'[k] > block[k]
  BY <1>1, <1>2, <1>5, BlockMoves DEF Blocks, Persisting
<1> QED
  BY <1>2, <1>3, <1>4, <1>5 DEF RunMove, KeepsRun, EndsRun, Ended

LEMMA RowsBehindStep == Inv /\ Next => RowsBehind'
<1> SUFFICES ASSUME Inv, Next, NEW k \in JobId, NEW p \in Phases
             PROVE  /\ Usable(k, p)' => BlockOf[p] < block'[k]
                    /\ outs'[k][p].merged # 0 => Usable(k, p)'
  BY DEF RowsBehind, Usable
<1>1. TypeOK /\ RowsBehind
  BY DEF Inv
<1>2. BlockOf[p] \in 1..5 /\ block[k] \in 0..7 /\ block'[k] \in 0..7
  BY <1>1, BlocksOfPhases, TypeStep DEF Blocks, TypeOK, Ended
<1>3. block'[k] >= block[k] /\ (RunBlock(k) => block'[k] > block[k])
  BY BlockGrows
<1>4. OutMove(k, p)
  BY <1>1, Moves
<1>5. CASE KeepsOuts(k, p)
  BY <1>1, <1>2, <1>3, <1>5 DEF RowsBehind, KeepsOuts, Usable
<1>6. CASE SavesRow(k, p)
  BY <1>2, <1>3, <1>6 DEF SavesRow, Usable
<1>7. CASE MergesRow(k, p)
  <2>1. Usable(k, p) /\ Usable(k, p)'
    BY <1>7 DEF MergesRow, Accepted, Eligible, Usable
  <2> QED
    BY <1>1, <1>2, <1>3, <2>1 DEF RowsBehind
<1> QED
  BY <1>4, <1>5, <1>6, <1>7 DEF OutMove

LEMMA WaitingStep == Inv /\ Next => Waiting'
<1> SUFFICES ASSUME Inv, Next, NEW j \in JobId
             PROVE  /\ status'[j] \in {"none", "pending"} => block'[j] = 0
                    /\ block'[j] = 0 => results'[j] = NoResults
  BY DEF Waiting
<1>1. TypeOK /\ Waiting
  BY DEF Inv
<1>2. JobMove(j) /\ RunMove(j)
  BY <1>1, Moves
<1>3. ASSUME Start(j) PROVE status'[j] = "running" /\ block'[j] # 0
  <2>1. status'[j] = "running"
    BY <1>1, <1>3 DEF Start, Claim, TypeOK
  <2>2. block'[j] # 0
    BY <1>1, <1>3, BlockMoves DEF Persisting
  <2> QED
    BY <2>1, <2>2
<1>4. status'[j] \in {"none", "pending"} => status[j] \in {"none", "pending"}
  BY <1>2, <1>3 DEF JobMove, Joins, KeepsJob, EndsJob
<1>5. ASSUME EndsRun(j) \/ SkipBlock(j) \/ RunBlock(j)
      PROVE  block[j] # 0 /\ block'[j] # 0
  <2>1. CASE EndsRun(j)
    BY <2>1 DEF EndsRun, Active, Ended
  <2>2. CASE SkipBlock(j) \/ RunBlock(j)
    BY <1>1, <2>2, BlockMoves DEF Blocks, Persisting
  <2> QED
    BY <1>5, <2>1, <2>2
<1> QED
  BY <1>1, <1>2, <1>3, <1>4, <1>5 DEF Waiting, RunMove, KeepsRun

LEMMA ClearedStep == Inv /\ Next => Cleared'
<1> SUFFICES ASSUME Inv, Next, NEW j \in JobId, ~(block'[j] \in 1..Persisting)
             PROVE  checkpoints'[j] = Nothing
  BY DEF Cleared, Active
<1>1. TypeOK /\ Cleared
  BY DEF Inv
<1>2. RunMove(j)
  BY <1>1, Moves
<1>3. ~Start(j) /\ ~SkipBlock(j) /\ ~RunBlock(j)
  BY <1>1, BlockMoves DEF Blocks, Persisting
<1> QED
  BY <1>1, <1>2, <1>3 DEF RunMove, KeepsRun, EndsRun, Cleared, Active

LEMMA OpenedStep == Inv /\ Next => Opened'
<1> SUFFICES ASSUME Inv, Next, NEW j \in JobId, status'[j] \in {"pending", "running"}
             PROVE  target'[j] = "open"
  BY DEF Opened
<1>1. TypeOK /\ Opened
  BY DEF Inv
<1>2. JobMove(j)
  BY <1>1, Moves
<1>3. ASSUME Start(j) PROVE status[j] = "pending" /\ target'[j] = target[j]
  BY <1>3 DEF Start, Claim
<1> QED
  BY <1>1, <1>2, <1>3 DEF JobMove, Joins, KeepsJob, EndsJob, Opened

LEMMA SingleStep == Inv /\ Next => Single'
<1> SUFFICES ASSUME Inv, Next, NEW i \in JobId, NEW j \in JobId,
                    status'[i] = "running", status'[j] = "running"
             PROVE  i = j
  BY DEF Single, Running
<1>1. TypeOK /\ Single
  BY DEF Inv
<1>2. \A k \in JobId : status'[k] = "running" => Running(k) \/ Start(k)
  BY <1>1, Moves DEF JobMove, Joins, KeepsJob, EndsJob, Running
<1>3. ASSUME NEW k \in JobId, Start(k)
      PROVE  \A m \in JobId : ~Running(m) /\ (m # k => status'[m] = status[m])
  BY <1>1, <1>3 DEF Start, Claim, TypeOK
<1> QED
  BY <1>1, <1>2, <1>3 DEF Single, Running

LEMMA OwnLineStep == Inv /\ Next => OwnLine'
<1> SUFFICES ASSUME Inv, Next, NEW j \in JobId, status'[j] # "none"
             PROVE  j \in lineage'[j]
  BY DEF OwnLine
<1>1. TypeOK /\ OwnLine
  BY DEF Inv
<1>2. JobMove(j)
  BY <1>1, Moves
<1>3. ASSUME Start(j) PROVE status[j] = "pending"
  BY <1>3 DEF Start, Claim
<1> QED
  BY <1>1, <1>2, <1>3 DEF JobMove, Joins, KeepsRow, KeepsJob, EndsJob, OwnLine

\* A row stays, and stays merged.
LEMMA RowsStay ==
  ASSUME Inv, Next, NEW k \in JobId, NEW p \in Phases
  PROVE  /\ Usable(k, p) => Usable(k, p)'
         /\ outs[k][p].merged # 0 => outs'[k][p].merged # 0
<1>1. OutMove(k, p) /\ RowsBehind
  BY Moves DEF Inv
<1>2. CASE KeepsOuts(k, p)
  BY <1>2 DEF KeepsOuts, Usable
<1>3. CASE SavesRow(k, p)
  <2>1. ~Usable(k, p)
    <3>1. BlockOf[p] = block[k] /\ BlockOf[p] \in 1..5
      BY <1>3, BlocksOfPhases DEF SavesRow, Blocks
    <3> QED
      BY <1>1, <3>1 DEF RowsBehind
  <2> QED
    BY <1>1, <2>1 DEF RowsBehind
<1>4. CASE MergesRow(k, p)
  BY <1>4 DEF MergesRow, Usable
<1> QED
  BY <1>1, <1>2, <1>3, <1>4 DEF OutMove

(* What a block does to one phase.                                          *)

Untouched(j, p) ==
  /\ BlockOf[p] # block[j] \/ p \notin Selected(j)
  /\ saved'[j][p] = saved[j][p] /\ history'[j][p] = history[j][p]
  /\ results'[j][p] = results[j][p] /\ checkpoints'[j][p] = checkpoints[j][p]
  /\ \A k \in JobId : KeepsOuts(k, p)

Reuses(j, p) ==
  /\ BlockOf[p] = block[j] /\ p \in Selected(j) /\ p \notin Forced(j) /\ Satisfied(j, p)
  /\ saved'[j][p] = saved[j][p] /\ history'[j][p] = history[j][p]
  /\ history[j][p] # None
  /\ checkpoints'[j][p] = IF saved[j][p] # None /\ outs[saved[j][p]][p].merged = 0
                               /\ Owned(j, saved[j][p])
                          THEN saved[j][p] ELSE checkpoints[j][p]
  /\ \A k \in JobId : KeepsOuts(k, p)

Produces(j, p) ==
  /\ BlockOf[p] = block[j] /\ p \in Selected(j)
  /\ saved'[j][p] = j /\ history'[j][p] = j /\ checkpoints'[j][p] = j
  /\ outs'[j][p].at # 0 /\ outs'[j][p].merged = 0

Misses(j, p) ==
  /\ BlockOf[p] = block[j] /\ p \in Selected(j) /\ NeedsExecution(j, p)
  /\ saved'[j][p] = j /\ history'[j][p] = history[j][p]
  /\ checkpoints'[j][p] = checkpoints[j][p]
  /\ results'[j][p] \notin {"succeeded", "history"}
  /\ \A k \in JobId : KeepsOuts(k, p)

\* A phase that needs no execution has a row in the history of the run.
LEMMA SatisfiedByRow ==
  ASSUME NEW j \in JobId, NEW p \in Phases, ~NeedsExecution(j, p)
  PROVE  history[j][p] # None /\ p \notin Forced(j) /\ Satisfied(j, p)
BY DEF NeedsExecution, Satisfied, Time

LEMMA SkipMoves ==
  ASSUME TypeOK, NEW j \in JobId, SkipBlock(j), NEW p \in Phases
  PROVE  Untouched(j, p) \/ Reuses(j, p)
<1>1. (\A k \in JobId : KeepsOuts(k, p)) /\ saved' = saved /\ history' = history
  BY DEF SkipBlock, KeepsOuts
<1>2. /\ checkpoints'[j][p] = TakeReused(j, Chosen(j))[p]
      /\ results'[j][p] = IF p \in Chosen(j) THEN "history" ELSE results[j][p]
  BY DEF SkipBlock, TypeOK
<1>3. CASE p \in Chosen(j)
  <2>1. history[j][p] # None /\ p \notin Forced(j) /\ Satisfied(j, p)
    BY <1>3, SatisfiedByRow DEF SkipBlock, Execute
  <2>2. BlockOf[p] = block[j] /\ p \in Selected(j)
    BY <1>3 DEF Chosen, PhasesOf
  <2> QED
    BY <1>1, <1>2, <1>3, <2>1, <2>2 DEF TakeReused, Reuses
<1>4. CASE p \notin Chosen(j)
  <2>1. BlockOf[p] # block[j] \/ p \notin Selected(j)
    BY <1>4 DEF Chosen, PhasesOf
  <2> QED
    BY <1>1, <1>2, <1>4, <2>1 DEF TakeReused, Untouched
<1> QED
  BY <1>3, <1>4

LEMMA RunBlockMoves ==
  ASSUME TypeOK, NEW j \in JobId, RunBlock(j), NEW p \in Phases
  PROVE  Untouched(j, p) \/ Reuses(j, p) \/ Produces(j, p) \/ Misses(j, p)
<1>1. PICK outcome \in [Execute(j) -> Results] :
        LET exec == Execute(j)
            done == {q \in exec : outcome[q] = "succeeded"} IN
        /\ outs' = [outs EXCEPT ![j] = Recorded(j, exec, done)]
        /\ saved' = [saved EXCEPT ![j] = [q \in Phases |-> IF q \in exec THEN j ELSE @[q]]]
        /\ history' = [history EXCEPT ![j] = [q \in Phases |-> IF q \in done THEN j ELSE @[q]]]
        /\ checkpoints' = [checkpoints EXCEPT ![j] = [q \in Phases |->
                             IF q \in done THEN j ELSE TakeReused(j, Chosen(j) \ exec)[q]]]
        /\ results' = [results EXCEPT ![j] = [q \in Phases |->
                         IF q \in exec THEN outcome[q]
                         ELSE IF q \in Chosen(j) THEN "history" ELSE @[q]]]
  BY DEF RunBlock
<1> DEFINE exec == Execute(j)
           done == {q \in exec : outcome[q] = "succeeded"}
<1>2. /\ saved'[j][p] = IF p \in exec THEN j ELSE saved[j][p]
      /\ history'[j][p] = IF p \in done THEN j ELSE history[j][p]
      /\ checkpoints'[j][p] = IF p \in done THEN j ELSE TakeReused(j, Chosen(j) \ exec)[p]
      /\ results'[j][p] = IF p \in exec THEN outcome[p]
                          ELSE IF p \in Chosen(j) THEN "history" ELSE results[j][p]
  BY <1>1 DEF TypeOK
<1>3. outs' = [outs EXCEPT ![j] = Recorded(j, exec, done)]
  BY <1>1
<1>4. exec \subseteq Chosen(j) /\ \A q \in exec : outcome[q] \in PhaseResults
  BY CheckpointAssumption DEF Execute, PhaseResults
<1>5. p \in Chosen(j) <=> (BlockOf[p] = block[j] /\ p \in Selected(j))
  BY DEF Chosen, PhasesOf
<1>6. ASSUME p \notin done PROVE \A k \in JobId : KeepsOuts(k, p)
  BY <1>3, <1>6 DEF Recorded, TypeOK, KeepsOuts
<1>7. TakeReused(j, Chosen(j) \ exec)[p] =
        IF p \in Chosen(j) \ exec /\ saved[j][p] # None /\ outs[saved[j][p]][p].merged = 0
             /\ Owned(j, saved[j][p])
        THEN saved[j][p] ELSE checkpoints[j][p]
  BY DEF TakeReused
<1>8. CASE p \in done
  <2>1. outs'[j][p] = Recorded(j, exec, done)[p]
    BY <1>3 DEF TypeOK
  <2>2. outs'[j][p].at = clock + 1 /\ outs'[j][p].merged = 0
    BY <1>8, <2>1 DEF Recorded
  <2>3. clock + 1 # 0
    BY DEF TypeOK
  <2> QED
    BY <1>2, <1>4, <1>5, <1>8, <2>2, <2>3 DEF Produces
<1>9. CASE p \in exec \ done
  <2>1. outcome[p] \notin {"succeeded", "history"} /\ NeedsExecution(j, p)
    BY <1>9, CheckpointAssumption DEF Execute
  <2> QED
    BY <1>2, <1>4, <1>5, <1>6, <1>7, <1>9, <2>1 DEF Misses
<1>10. CASE p \in Chosen(j) \ exec
  <2>1. history[j][p] # None /\ p \notin Forced(j) /\ Satisfied(j, p)
    BY <1>10, SatisfiedByRow DEF Execute
  <2> QED
    BY <1>2, <1>4, <1>5, <1>6, <1>7, <1>10, <2>1 DEF Reuses
<1>11. CASE p \notin Chosen(j)
  BY <1>2, <1>4, <1>5, <1>6, <1>7, <1>11 DEF Untouched
<1> QED
  BY <1>8, <1>9, <1>10, <1>11

LEMMA BlockDoes ==
  ASSUME TypeOK, NEW j \in JobId, SkipBlock(j) \/ RunBlock(j), NEW p \in Phases
  PROVE  /\ UNCHANGED jobVars
         /\ Untouched(j, p) \/ Reuses(j, p) \/ Produces(j, p) \/ Misses(j, p)
BY SkipMoves, RunBlockMoves DEF SkipBlock, RunBlock

LEMMA Jobs ==
  ASSUME TypeOK, NEW j \in JobId, NEW p \in Phases
  PROVE  /\ saved[j][p] # None => saved[j][p] \in JobId
         /\ history[j][p] # None => history[j][p] \in JobId
         /\ checkpoints[j][p] # None => checkpoints[j][p] \in JobId
<1>1. /\ saved[j][p] \in 0..MaxJobs /\ history[j][p] \in 0..MaxJobs
      /\ checkpoints[j][p] \in 0..MaxJobs
  BY DEF TypeOK
<1>2. \A x \in 0..MaxJobs : x # None => x \in JobId
  BY CheckpointAssumption DEF JobId, None
<1> QED
  BY <1>1, <1>2

\* What a run takes into memory when it starts.
LEMMA StartDoes ==
  ASSUME NEW j \in JobId, Start(j), TypeOK, NEW p \in Phases
  PROVE  /\ saved'[j][p] = history'[j][p]
         /\ saved'[j][p] # None =>
              /\ saved'[j][p] \in JobId /\ Usable(saved'[j][p], p)
              /\ HasParent(j) => saved'[j][p] \in lineage[j]
         /\ results'[j] = results[j] /\ checkpoints'[j] = checkpoints[j]
         /\ block[j] = block[j] /\ outs' = outs
         /\ parent' = parent /\ lineage' = lineage /\ plan' = plan
<1>1. saved'[j][p] = Newest(Seen(j, p), p) /\ history'[j][p] = Newest(Seen(j, p), p)
  BY DEF Start, TypeOK
<1>2. Newest(Seen(j, p), p) = None \/ Newest(Seen(j, p), p) \in Seen(j, p)
  BY NewestSeen DEF Seen
<1> QED
  BY <1>1, <1>2 DEF Start, Seen

\* The run of a job that has one keeps its row and lineage.
LEMMA RunningRow ==
  ASSUME Inv, Next, NEW j \in JobId, Active(j)
  PROVE  KeepsRow(j) /\ ~Start(j)
<1>1. JobMove(j)
  BY Moves DEF Inv
<1>2. status[j] \notin {"none", "pending"}
  BY DEF Inv, Waiting, Active, Persisting
<1> QED
  BY <1>1, <1>2 DEF JobMove, Joins, Start, Claim

LEMMA MemoryStep == Inv /\ Next => Memory'
<1> SUFFICES ASSUME Inv, Next, NEW j \in JobId, NEW p \in Phases, Active(j)'
             PROVE  MemoryOf(j, p)'
  BY DEF Memory
<1>1. TypeOK /\ Memory /\ RunMove(j) /\ RowsBehind
  BY Moves DEF Inv
<1>2. \A k \in JobId : Usable(k, p) => Usable(k, p)'
  BY RowsStay
<1>3. BlockOf[p] \in 1..5 /\ block[j] \in 0..7 /\ block'[j] \in 0..7
  BY <1>1, BlocksOfPhases, TypeStep DEF Blocks, TypeOK, Ended
<1>4. saved[j][p] # None => saved[j][p] \in JobId
  BY <1>1, Jobs
<1>5. CASE Start(j)
  BY <1>1, <1>5, StartDoes DEF MemoryOf, Usable, HasParent
<1>6. CASE KeepsRun(j)
  <2>1. Active(j)
    BY <1>6 DEF KeepsRun, Active
  <2>2. KeepsRow(j)
    BY <2>1, RunningRow
  <2>3. MemoryOf(j, p)
    BY <1>1, <2>1 DEF Memory
  <2> QED
    BY <1>2, <1>4, <1>6, <2>2, <2>3 DEF MemoryOf, KeepsRun, KeepsRow, HasParent
<1>7. CASE SkipBlock(j) \/ RunBlock(j)
  <2>1. Active(j) /\ block'[j] > block[j]
    BY <1>1, <1>3, <1>7, BlockMoves DEF Active, Blocks, Persisting
  <2>2. /\ UNCHANGED jobVars
        /\ Untouched(j, p) \/ Reuses(j, p) \/ Produces(j, p) \/ Misses(j, p)
    BY <1>1, <1>7, BlockDoes
  <2>3. MemoryOf(j, p)
    BY <1>1, <2>1 DEF Memory
  <2>4. j \in lineage[j]
    BY <2>1 DEF Inv, OwnLine, Waiting, Active, Persisting
  <2>5. CASE Untouched(j, p) \/ Reuses(j, p)
    <3>1. saved'[j][p] = saved[j][p] /\ history'[j][p] = history[j][p]
      BY <2>5 DEF Untouched, Reuses
    <3> QED
      BY <1>2, <1>3, <1>4, <2>1, <2>2, <2>3, <3>1 DEF MemoryOf, HasParent, jobVars
  <2>6. CASE Produces(j, p) \/ Misses(j, p)
    <3>1. saved'[j][p] = j /\ BlockOf[p] = block[j]
      BY <2>6 DEF Produces, Misses
    <3> QED
      BY <1>3, <2>1, <2>2, <2>4, <3>1 DEF MemoryOf, HasParent, jobVars
  <2> QED
    BY <2>2, <2>5, <2>6
<1>8. ~EndsRun(j)
  BY DEF EndsRun, Active, Ended, Persisting
<1> QED
  BY <1>1, <1>5, <1>6, <1>7, <1>8 DEF RunMove

LEMMA KeptStep == Inv /\ Next => Kept'
<1> SUFFICES ASSUME Inv, Next, NEW j \in JobId, NEW p \in Phases, Active(j)', HasParent(j)',
                    results'[j][p] \in {"succeeded", "history"}
             PROVE  /\ history'[j][p] # None
                    /\ \/ checkpoints'[j][p] = history'[j][p]
                       \/ outs'[history'[j][p]][p].merged # 0
  BY DEF Kept, KeptOf
<1>1. TypeOK /\ Memory /\ Kept /\ RunMove(j)
  BY Moves DEF Inv
<1>2. \A k \in JobId : outs[k][p].merged # 0 => outs'[k][p].merged # 0
  BY RowsStay
<1>3. history[j][p] # None => history[j][p] \in JobId
  BY <1>1, Jobs
<1>4. CASE Start(j)
  <2>1. block[j] = 0
    BY <1>4 DEF Inv, Waiting, Start, Claim
  <2>2. results'[j] = NoResults
    BY <1>1, <1>4, <2>1, StartDoes DEF Inv, Waiting
  <2> QED
    BY <2>2 DEF NoResults
<1>5. ASSUME Active(j) PROVE HasParent(j) /\ KeptOf(j, p)
  BY <1>1, <1>5, RunningRow DEF KeepsRow, HasParent, Kept
<1>6. CASE KeepsRun(j)
  <2>1. KeptOf(j, p)
    BY <1>5, <1>6 DEF KeepsRun, Active
  <2> QED
    BY <1>2, <1>3, <1>6, <2>1 DEF KeptOf, KeepsRun
<1>7. CASE SkipBlock(j) \/ RunBlock(j)
  <2>1. Active(j)
    BY <1>1, <1>7, BlockMoves DEF Active, Blocks, Persisting
  <2>2. Untouched(j, p) \/ Reuses(j, p) \/ Produces(j, p) \/ Misses(j, p)
    BY <1>1, <1>7, BlockDoes
  <2>3. CASE Untouched(j, p)
    <3>1. KeptOf(j, p)
      BY <1>5, <2>1
    <3> QED
      BY <1>2, <1>3, <2>3, <3>1 DEF KeptOf, Untouched
  <2>4. CASE Reuses(j, p)
    <3>1. block[j] <= BlockOf[p]
      BY <2>4, BlocksOfPhases DEF Reuses, Blocks
    <3>2. saved[j][p] = history[j][p] /\ history[j][p] # None
      BY <1>1, <2>1, <2>4, <3>1 DEF Memory, MemoryOf, Reuses
    <3>3. Owned(j, saved[j][p])
      BY <1>1, <1>5, <2>1, <3>2 DEF Memory, MemoryOf, Owned
    <3> QED
      BY <1>2, <1>3, <2>4, <3>2, <3>3 DEF Reuses
  <2>5. CASE Produces(j, p)
    BY <2>5, CheckpointAssumption DEF Produces, JobId, None
  <2>6. CASE Misses(j, p)
    BY <2>6 DEF Misses
  <2> QED
    BY <2>2, <2>3, <2>4, <2>5, <2>6
<1>8. ~EndsRun(j)
  BY DEF EndsRun, Active, Ended, Persisting
<1> QED
  BY <1>1, <1>4, <1>6, <1>7, <1>8 DEF RunMove

LEMMA FitStep == Inv /\ Next => Fit'
<1> SUFFICES ASSUME Inv, Next, NEW j \in JobId, NEW p \in Phases, Running(j)', Active(j)',
                    checkpoints'[j][p] # None
             PROVE  Eligible(j, checkpoints[j][p], p)'
  BY DEF Fit
<1>1. TypeOK /\ Memory /\ Fit /\ Single /\ RunMove(j) /\ JobMove(j)
  BY Moves DEF Inv
<1>2. CASE Start(j)
  <2>1. block[j] = 0
    BY <1>2 DEF Inv, Waiting, Start, Claim
  <2>2. checkpoints'[j] = Nothing
    BY <1>1, <1>2, <2>1, StartDoes DEF Inv, Cleared, Active
  <2> QED
    BY <2>2 DEF Nothing
<1>3. CASE ~Start(j) /\ KeepsRun(j)
  <2>1. Active(j) /\ KeepsRow(j)
    BY <1>3, RunningRow DEF KeepsRun, Active
  <2>2. Running(j)
    <3>1. status[j] # "none"
      BY <2>1 DEF Inv, Waiting, Active, Persisting
    <3> QED
      BY <1>1, <1>3, <3>1 DEF JobMove, Joins, KeepsJob, EndsJob, Running
  <2>3. PICK k \in JobId : k # None /\ k = checkpoints[j][p] /\ k = checkpoints'[j][p]
    BY <1>1, <1>3, Jobs DEF KeepsRun
  <2>4. Eligible(j, k, p)
    BY <1>1, <2>1, <2>2, <2>3 DEF Fit
  <2>5. Usable(k, p)'
    BY <2>3, <2>4, RowsStay DEF Eligible
  <2>6. outs'[k][p].merged = 0
    <3>1. OutMove(k, p)
      BY <1>1, <2>3, Moves
    <3>2. ~MergesRow(k, p)
      <4>1. ASSUME NEW i \in JobId, Persist(i), Accepted(i) PROVE FALSE
        <5>1. i = j
          BY <1>1, <2>2, <4>1 DEF Accepted, Single
        <5>2. block'[i] = Ended
          BY <1>1, <4>1 DEF Persist, Report, Over, TypeOK
        <5> QED
          BY <5>1, <5>2 DEF Active, Ended, Persisting
      <4> QED
        BY <4>1 DEF MergesRow
    <3> QED
      BY <2>4, <3>1, <3>2 DEF OutMove, KeepsOuts, SavesRow, Eligible
  <2>7. k \in lineage'[j] /\ (Planned(j)' => p \in plan'[j].selected)
    BY <2>1, <2>4 DEF Eligible, KeepsRow, Planned
  <2> QED
    BY <2>3, <2>5, <2>6, <2>7 DEF Eligible, Usable, Planned
<1>4. CASE SkipBlock(j) \/ RunBlock(j)
  <2>1. Active(j)
    BY <1>1, <1>4, BlockMoves DEF Active, Blocks, Persisting
  <2>2. /\ UNCHANGED jobVars
        /\ Untouched(j, p) \/ Reuses(j, p) \/ Produces(j, p) \/ Misses(j, p)
    BY <1>1, <1>4, BlockDoes
  <2>3. Running(j) /\ lineage' = lineage /\ plan' = plan
    BY <2>2 DEF jobVars, Running
  <2>4. j \in lineage[j]
    BY <2>1 DEF Inv, OwnLine, Waiting, Active, Persisting
  <2>5. ASSUME NEW k, k = checkpoints'[j][p], k = checkpoints[j][p],
               \A i \in JobId : KeepsOuts(i, p)
        PROVE  Eligible(j, checkpoints[j][p], p)'
    <3>1. k \in JobId /\ Eligible(j, k, p)
      BY <1>1, <2>1, <2>3, <2>5, Jobs DEF Fit
    <3>2. outs'[k][p] = outs[k][p]
      BY <2>5, <3>1 DEF KeepsOuts
    <3> QED
      BY <2>3, <2>5, <3>1, <3>2 DEF Eligible, Usable, Planned
  <2>6. CASE Untouched(j, p)
    BY <2>5, <2>6 DEF Untouched
  <2>7. CASE Misses(j, p)
    BY <2>5, <2>7 DEF Misses
  <2>8. CASE Reuses(j, p)
    <3>1. CASE checkpoints'[j][p] = checkpoints[j][p]
      BY <2>5, <2>8, <3>1 DEF Reuses
    <3>2. CASE checkpoints'[j][p] # checkpoints[j][p]
      <4> DEFINE k == saved[j][p]
      <4>1. /\ k # None /\ outs[k][p].merged = 0 /\ Owned(j, k) /\ checkpoints'[j][p] = k
            /\ BlockOf[p] = block[j] /\ p \in Selected(j)
        BY <2>8, <3>2 DEF Reuses
      <4>2. k \in JobId
        <5>1. k \in 0..MaxJobs
          BY <1>1 DEF TypeOK
        <5> QED
          BY <4>1, <5>1 DEF JobId, None
      <4>3. block[j] \in 0..7
        BY <1>1 DEF TypeOK, Ended
      <4>4. Usable(k, p)
        BY <1>1, <2>1, <4>1, <4>2, <4>3 DEF Memory, MemoryOf
      <4>5. k \in lineage[j]
        BY <2>4, <4>1 DEF Owned
      <4>6. outs'[k][p] = outs[k][p]
        BY <2>8, <4>2 DEF Reuses, KeepsOuts
      <4> HIDE DEF k
      <4> QED
        BY <2>3, <4>1, <4>4, <4>5, <4>6 DEF Eligible, Usable, Planned, Selected
    <3> QED
      BY <3>1, <3>2
  <2>9. CASE Produces(j, p)
    BY <2>3, <2>4, <2>9 DEF Produces, Eligible, Usable, Planned, Selected
  <2> QED
    BY <2>2, <2>6, <2>7, <2>8, <2>9
<1>5. ~EndsRun(j)
  BY DEF EndsRun, Active, Ended, Persisting
<1> QED
  BY <1>1, <1>2, <1>3, <1>4, <1>5 DEF RunMove

LEMMA InvStep == Inv /\ [Next]_vars => Inv'
<1>1. Inv /\ Next => Inv'
  BY TypeStep, RowsBehindStep, WaitingStep, ClearedStep, OpenedStep, SingleStep,
     OwnLineStep, MemoryStep, KeptStep, FitStep DEF Inv
<1>2. ASSUME Inv, UNCHANGED vars PROVE Inv'
  BY <1>2 DEF Inv, vars, jobVars, runVars, TypeOK, RowsBehind, Waiting, Cleared, Opened,
     Single, OwnLine, Memory, MemoryOf, Kept, KeptOf, Fit, Usable, Active, Running,
     HasParent, Eligible, Planned
<1> QED
  BY <1>1, <1>2

LEMMA Invariant == Spec => []Inv
<1> QED
  BY InvInit, InvStep, PTL DEF Spec

-----------------------------------------------------------------------------
(* The theorems                                                             *)

\* The result RPC never refuses what a job that may write brings to it: the
\* checks of apply_submission_enrichment_result hold of every checkpoint that
\* runBlocks selected, whatever ran, was cancelled or saved in between.
THEOREM RpcAlwaysAgrees == Spec => []RpcAgrees
<1>1. Inv => RpcAgrees
  <2> SUFFICES ASSUME Inv, NEW j \in JobId, Running(j), block[j] = Persisting, pending
               PROVE  Accepted(j)
    BY DEF RpcAgrees
  <2>1. Active(j)
    BY DEF Active, Persisting
  <2>2. target[j] = "open"
    BY DEF Inv, Opened, Running
  <2>3. \A p \in Taken(j) : Eligible(j, checkpoints[j][p], p)
    BY <2>1 DEF Inv, Fit, Taken
  <2> QED
    BY <2>2, <2>3 DEF Accepted
<1> QED
  BY <1>1, Invariant, PTL

LEMMA NothingLostStep ==
  ASSUME Inv, Next, NEW j \in JobId, HasParent(j), block[j] = Persisting,
         target[j] = "open", target'[j] = "done", NEW p \in Phases,
         results[j][p] \in {"succeeded", "history"}
  PROVE  outs'[history[j][p]][p].merged # 0
<1>1. TypeOK
  BY DEF Inv
<1>2. Active(j)
  BY DEF Active, Persisting
<1>3. /\ history[j][p] # None
      /\ checkpoints[j][p] = history[j][p] \/ outs[history[j][p]][p].merged # 0
  BY <1>2 DEF Inv, Kept, KeptOf
<1>4. history[j][p] \in JobId
  BY <1>1, <1>3, Jobs
<1>5. CASE outs[history[j][p]][p].merged # 0
  BY <1>4, <1>5, RowsStay
<1>6. CASE checkpoints[j][p] = history[j][p]
  <2>1. p \in Taken(j)
    BY <1>3, <1>6 DEF Taken
  <2>2. status[j] # "pending"
    BY DEF Inv, Waiting, Persisting
  <2>3. ASSUME NEW i \in JobId, i # j, NEW o, NEW r, Report(i, o, r) PROVE FALSE
    BY <1>1, <2>3 DEF Report, TypeOK
  <2>4. ASSUME NEW i \in JobId, NEW r, Report(i, "failed", r) PROVE FALSE
    BY <1>1, <2>4 DEF Report, TypeOK
  <2>5. ASSUME NEW n \in JobId, NEW q, NEW k, NEW new, Enqueue(n, q, k, new) PROVE FALSE
    BY <1>1, <2>5 DEF Enqueue, TypeOK
  <2>6. target' # target
    OBVIOUS
  <2>7. ASSUME NEW i \in JobId, PersistNothing(i) PROVE FALSE
    BY <2>1, <2>3, <2>7 DEF PersistNothing
  <2>8. ASSUME NEW i \in JobId, EndEarly(i) PROVE FALSE
    BY <2>3, <2>4, <2>8 DEF EndEarly, Blocks, Persisting
  <2>9. ASSUME NEW i \in JobId, StartTooLate(i) PROVE FALSE
    BY <1>1, <2>2, <2>9 DEF StartTooLate, TypeOK
  <2>10. ASSUME NEW i \in JobId, Cancel(i) PROVE FALSE
    BY <1>1, <2>10 DEF Cancel, TypeOK
  <2>11. ASSUME NEW i \in JobId, EnqueueRetry(i) \/ EnqueueRecovery(i) PROVE FALSE
    BY <2>5, <2>11 DEF EnqueueRetry, EnqueueRecovery
  <2>12. ~EnqueueRoot /\ ~Review
    BY <2>5, <2>6 DEF EnqueueRoot, Review, jobVars
  <2>13. ASSUME NEW i \in JobId, Start(i) \/ SkipBlock(i) \/ RunBlock(i) \/ RunThrows(i)
         PROVE  FALSE
    BY <2>6, <2>13 DEF Start, SkipBlock, RunBlock, RunThrows, jobVars
  <2>14. ASSUME NEW i \in JobId, NoInputs(i) PROVE FALSE
    BY <2>4, <2>14 DEF NoInputs
  <2>15. PICK i \in JobId : Persist(i)
    BY <2>7, <2>8, <2>9, <2>10, <2>11, <2>12, <2>13, <2>14 DEF Next
  <2>16. i = j /\ Accepted(i)
    BY <2>3, <2>4, <2>6, <2>15 DEF Persist
  <2>17. outs'[history[j][p]][p] = [outs[history[j][p]][p] EXCEPT !.merged = clock + 1]
    <3>1. Merge(j)
      BY <2>15, <2>16 DEF Persist
    <3> QED
      BY <1>4, <1>6, <2>1, <3>1 DEF Merge
  <2>18. outs[history[j][p]][p] \in Rows
    BY <1>1, <1>4 DEF TypeOK
  <2>19. clock + 1 # 0
    BY <1>1 DEF TypeOK
  <2> QED
    BY <2>17, <2>18, <2>19 DEF Rows
<1> QED
  BY <1>3, <1>5, <1>6

\* A retry or a recovery whose target ends well has merged, itself or an
\* earlier write, every output it reports as done or as satisfied from history.
THEOREM NothingIsLost == Spec => NothingLost
<1> DEFINE Keeps ==
      \A j \in JobId :
        /\ HasParent(j) /\ block[j] = Persisting
        /\ target[j] = "open" /\ target'[j] = "done"
        => \A p \in Phases :
             results[j][p] \in {"succeeded", "history"} => outs'[history[j][p]][p].merged # 0
<1>1. ASSUME Inv, Next PROVE Keeps
  BY <1>1, NothingLostStep
<1>2. [][Keeps]_vars => NothingLost
  BY PTL DEF NothingLost
<1> HIDE DEF Keeps
<1>3. Inv /\ [Next]_vars => [Keeps]_vars
  BY <1>1
<1> QED
  BY <1>2, <1>3, Invariant, PTL DEF Spec

-----------------------------------------------------------------------------
(* What a run computed itself                                               *)

\* What a run brings to its write is what it has in memory of the phase, and
\* what it computed itself was computed from what it has in memory.
OwnInputs(j, p) ==
  /\ checkpoints[j][p] # None => checkpoints[j][p] = saved[j][p] /\ BlockOf[p] < block[j]
  /\ checkpoints[j][p] = j => \A d \in Deps(p) : outs[j][p].inputs[d] = saved[j][d]

Own == \A j \in JobId, p \in Phases : Active(j) => OwnInputs(j, p)

LEMMA DepsBefore == \A p \in Phases : \A d \in Deps(p) : d \in Phases /\ BlockOf[d] <= BlockOf[p]
<1>1. Phases \subseteq {"detect", "slugs", "acquire", "names", "descriptions",
                        "stockists", "faq", "products"}
  BY CheckpointAssumption DEF PhaseDeps
<1> QED
  BY <1>1 DEF Deps, PhaseDeps, BlockOf

\* A block that executes a phase saves with it what the run has in memory.
LEMMA RunBlockInputs ==
  ASSUME TypeOK, NEW j \in JobId, RunBlock(j), NEW p \in Phases
  PROVE  \/ \A d \in Deps(p) : outs'[j][p].inputs[d] = saved'[j][d]
         \/ saved'[j][p] = saved[j][p]
         \/ checkpoints'[j][p] = checkpoints[j][p]
<1>1. PICK outcome \in [Execute(j) -> Results] :
        LET exec == Execute(j)
            done == {q \in exec : outcome[q] = "succeeded"} IN
        /\ outs' = [outs EXCEPT ![j] = Recorded(j, exec, done)]
        /\ saved' = [saved EXCEPT ![j] = [q \in Phases |-> IF q \in exec THEN j ELSE @[q]]]
        /\ checkpoints' = [checkpoints EXCEPT ![j] = [q \in Phases |->
             IF q \in done THEN j ELSE TakeReused(j, Chosen(j) \ exec)[q]]]
  BY DEF RunBlock
<1> DEFINE exec == Execute(j)
           done == {q \in exec : outcome[q] = "succeeded"}
<1>2. \A q \in Phases : saved'[j][q] = IF q \in exec THEN j ELSE saved[j][q]
  BY <1>1 DEF TypeOK
<1>3. CASE p \in done
  <2>1. outs'[j][p].inputs =
          [d \in Phases |-> IF d \notin Deps(p) THEN None ELSE IF d \in exec THEN j ELSE saved[j][d]]
    BY <1>1, <1>3 DEF TypeOK, Recorded
  <2> QED
    BY <1>2, <2>1, DepsBefore
<1>4. CASE p \notin exec
  BY <1>2, <1>4
<1>5. CASE p \in exec \ done
  <2>1. checkpoints'[j][p] = TakeReused(j, Chosen(j) \ exec)[p]
    BY <1>1, <1>5 DEF TypeOK
  <2> QED
    BY <1>5, <2>1 DEF TakeReused
<1> QED
  BY <1>3, <1>4, <1>5

\* The inputs of a row change with the block that saves it only.
LEMMA InputsStay ==
  ASSUME TypeOK, Next, NEW k \in JobId, NEW p \in Phases
  PROVE  SavesRow(k, p) \/ outs'[k][p].inputs = outs[k][p].inputs
<1>1. CASE KeepsOuts(k, p)
  BY <1>1 DEF KeepsOuts
<1> QED
  BY <1>1, Moves DEF OutMove, MergesRow

LEMMA OwnStep == Inv /\ Own /\ Next => Own'
<1> SUFFICES ASSUME Inv, Own, Next, NEW j \in JobId, NEW p \in Phases, Active(j)'
             PROVE  OwnInputs(j, p)'
  BY DEF Own
<1>1. TypeOK /\ Memory /\ RowsBehind /\ RunMove(j)
  BY Moves DEF Inv
<1>0. j # None
  BY CheckpointAssumption DEF JobId, None
<1>2. BlockOf[p] \in 1..5 /\ block[j] \in 0..7 /\ block'[j] \in 0..7 /\ j # None
  <2>1. BlockOf[p] \in 1..5
    BY BlocksOfPhases DEF Blocks
  <2>2. TypeOK'
    BY TypeStep, <1>1
  <2>3. block[j] \in 0..7 /\ block'[j] \in 0..7
    BY <1>1, <2>2 DEF TypeOK, Ended
  <2> QED
    BY <1>0, <2>1, <2>3
<1>3. CASE Start(j)
  <2>1. block[j] = 0
    BY <1>3 DEF Inv, Waiting, Start, Claim
  <2>2. checkpoints'[j] = Nothing
    BY <1>1, <1>3, <2>1, StartDoes DEF Inv, Cleared, Active
  <2> QED
    BY <1>2, <2>2 DEF OwnInputs, Nothing
<1>4. CASE KeepsRun(j)
  <2>1. OwnInputs(j, p)
    BY <1>4 DEF Own, KeepsRun, Active
  <2>2. ~SavesRow(j, p)
    BY <1>2, <1>4, BlockGrows DEF SavesRow, KeepsRun
  <2>3. outs'[j][p].inputs = outs[j][p].inputs
    BY <1>1, <2>2, InputsStay
  <2> QED
    BY <1>4, <2>1, <2>3 DEF OwnInputs, KeepsRun
<1>5. CASE SkipBlock(j) \/ RunBlock(j)
  <2>1. Active(j) /\ block'[j] > block[j]
    BY <1>1, <1>2, <1>5, BlockMoves DEF Active, Blocks, Persisting
  <2>2. Untouched(j, p) \/ Reuses(j, p) \/ Produces(j, p) \/ Misses(j, p)
    BY <1>1, <1>5, BlockDoes
  <2>3. OwnInputs(j, p) /\ MemoryOf(j, p)
    BY <1>1, <2>1 DEF Own, Memory
  <2>4. CASE BlockOf[p] = block[j]
    <3>1. checkpoints[j][p] = None
      BY <1>2, <2>3, <2>4 DEF OwnInputs
    <3>2. saved[j][p] # j
      <4>1. ~Usable(j, p)
        BY <1>1, <1>2, <2>4 DEF RowsBehind
      <4> QED
        BY <1>2, <2>3, <2>4, <4>1 DEF MemoryOf
    <3>3. CASE SkipBlock(j)
      <4>1. saved' = saved /\ checkpoints'[j] = TakeReused(j, Chosen(j))
        BY <1>1, <3>3 DEF SkipBlock, TypeOK
      <4>2. checkpoints'[j][p] \in {saved'[j][p], None}
        BY <3>1, <4>1 DEF TakeReused
      <4> QED
        BY <1>2, <2>1, <2>4, <3>2, <4>1, <4>2 DEF OwnInputs
    <3>4. CASE RunBlock(j)
      <4>1. checkpoints'[j][p] # None => checkpoints'[j][p] = saved'[j][p]
        BY <2>2, <2>4, <3>1 DEF Untouched, Reuses, Produces, Misses
      <4>2. ASSUME checkpoints'[j][p] = j
            PROVE  \A d \in Deps(p) : outs'[j][p].inputs[d] = saved'[j][d]
        BY <1>1, <1>2, <3>1, <3>2, <3>4, <4>1, <4>2, RunBlockInputs
      <4> QED
        BY <2>1, <2>4, <4>1, <4>2 DEF OwnInputs
    <3> QED
      BY <1>5, <3>3, <3>4
  <2>5. CASE BlockOf[p] # block[j]
    <3>1. Untouched(j, p)
      BY <2>2, <2>5 DEF Reuses, Produces, Misses
    <3>2. outs'[j][p] = outs[j][p]
      BY <3>1 DEF Untouched, KeepsOuts
    <3>3. ASSUME NEW d \in Deps(p), BlockOf[p] < block[j] PROVE saved'[j][d] = saved[j][d]
      <4>1. d \in Phases /\ BlockOf[d] # block[j]
        BY <1>2, <3>3, DepsBefore, BlocksOfPhases DEF Blocks
      <4> QED
        BY <1>1, <1>5, <4>1, BlockDoes DEF Untouched, Reuses, Produces, Misses
    <3> QED
      BY <1>2, <2>1, <2>3, <3>1, <3>2, <3>3 DEF OwnInputs, Untouched
  <2> QED
    BY <2>4, <2>5
<1>6. ~EndsRun(j)
  BY DEF EndsRun, Active, Ended, Persisting
<1> QED
  BY <1>1, <1>3, <1>4, <1>5, <1>6 DEF RunMove

\* What a job computed itself fits to what it writes beside it.
OwnFits ==
  \A j \in JobId :
    block[j] = Persisting =>
      \A p \in Taken(j) : checkpoints[j][p] = j =>
        \A d \in Deps(p) \cap Taken(j) : outs[j][p].inputs[d] = checkpoints[j][d]

\* Half of OneVersion, and in whatever order a lineage was worked off: an output
\* the job itself computed was computed from the very outputs of the phases it
\* depends on that go into the same write, reused ones included.
THEOREM OwnOutputsFit == Spec => []OwnFits
<1>1. Init => Own
  BY DEF Init, Own, Active, Persisting
<1>2. Inv /\ Own /\ [Next]_vars => Own'
  <2>1. ASSUME Own, UNCHANGED vars PROVE Own'
    BY <2>1 DEF Own, OwnInputs, Active, vars, jobVars, runVars
  <2> QED
    BY <2>1, OwnStep
<1>3. Spec => []Own
  BY <1>1, <1>2, Invariant, PTL DEF Spec
<1>4. Own => OwnFits
  BY DEF Own, OwnInputs, OwnFits, Active, Taken, Persisting
<1> QED
  BY <1>3, <1>4, PTL

-----------------------------------------------------------------------------
(* The order along a lineage                                                *)

\* A job that is not there has no row; the parent of one came before it, and
\* its lineage is that of the parent and itself.
Line ==
  \A j \in JobId :
    /\ status[j] = "none" =>
         /\ lineage[j] = {} /\ parent[j] = None /\ plan[j] = NoPlan /\ target[j] = "none"
         /\ \A k \in JobId : j < k => status[k] = "none"
    /\ parent[j] # None => parent[j] \in lineage[j] /\ parent[j] < j
    /\ parent[j] = None => lineage[j] \subseteq {j}
    /\ \A d \in lineage[j] :
         /\ d <= j /\ status[d] # "none"
         /\ d # j => \E c \in lineage[j] : parent[c] = d

\* A plan that forces all it selects.
Redo(c) == Planned(c) /\ plan[c].forced = plan[c].selected

\* What continues a job that has not failed forces all it selects.
Follow ==
  \A c \in JobId :
    parent[c] # None =>
      \/ Redo(c)
      \/ target[parent[c]] = "failed"
      \/ target[parent[c]] = "open" /\ status[parent[c]] = "failed"

\* From a job on that forces all, the phases are forced until one of the
\* jobs since has a row of its own.
Fresh ==
  \A x \in JobId : \A c \in lineage[x] :
    Redo(c) =>
      /\ Planned(x)
      /\ \A p \in plan[x].selected :
           \/ p \in plan[x].forced
           \/ \E y \in lineage[x] : c <= y /\ y < x /\ Usable(y, p)

\* A lineage with a job that is done, or that forces all, has a last one.
LastDone ==
  \A x \in JobId : \A d \in lineage[x] :
    target[d] = "done" =>
      \E e \in lineage[x] :
        target[e] = "done" /\ \A f \in lineage[x] : e < f => target[f] # "done"

LastRedo ==
  \A x \in JobId : \A d \in lineage[x] :
    Redo(d) => \E e \in lineage[x] : Redo(e) /\ \A f \in lineage[x] : e < f => ~Redo(f)

\* A cancelled job has a cancelled target, and a run that goes on without its
\* lease is of a cancelled job.
Cancelled ==
  \A j \in JobId :
    /\ status[j] = "cancelled" => target[j] = "cancelled"
    /\ Active(j) => status[j] \in {"running", "cancelled"}

\* No unmerged row of the lineage of a running job is newer than k's, other
\* than of the job itself or of a cancelled one.
NewestOf(j, p, k) ==
  \A y \in lineage[j] :
    y # j /\ Usable(y, p) /\ outs[y][p].merged = 0 =>
      outs[y][p].at <= outs[k][p].at \/ status[y] = "cancelled"

\* What a running job reuses is the newest unmerged row of its lineage, and
\* it reuses nothing that it is to force.
Reused ==
  \A j \in JobId, p \in Phases :
    Running(j) /\ Active(j) /\ HasParent(j) /\ p \in Selected(j) =>
      \A k \in JobId \ {j} :
        /\ saved[j][p] = k => NewestOf(j, p, k)
        /\ checkpoints[j][p] = k => p \notin Forced(j) /\ NewestOf(j, p, k)

\* What the submission holds was merged.
Merged == \A p \in Phases : data[p] # None => data[p] \in JobId /\ outs[data[p]][p].merged # 0

OrderInv ==
  /\ Inv /\ Line /\ Follow /\ Fresh /\ LastDone /\ LastRedo
  /\ Cancelled /\ Reused /\ Merged

LEMMA LineageJobs == TypeOK => \A k \in JobId : k \in Nat /\ lineage[k] \in SUBSET JobId
<1> SUFFICES ASSUME TypeOK, NEW k \in JobId PROVE k \in Nat /\ lineage[k] \in SUBSET JobId
  OBVIOUS
<1>1. lineage \in [JobId -> SUBSET JobId]
  BY DEF TypeOK
<1>2. k \in Nat
  BY DEF JobId
<1> QED
  BY <1>1, <1>2

LEMMA OrderInit == Init => OrderInv
<1> SUFFICES ASSUME Init PROVE OrderInv
  OBVIOUS
<1>1. Inv
  BY InvInit
<1>2. Line
  BY DEF Init, Line
<1>3. Follow
  BY DEF Init, Follow
<1>4. Fresh /\ LastDone /\ LastRedo
  BY DEF Init, Fresh, LastDone, LastRedo
<1>5. Cancelled
  BY DEF Init, Cancelled, Active, Persisting
<1>6. Reused
  BY DEF Init, Reused, Running
<1>7. Merged
  BY DEF Init, Merged, Nothing
<1> QED
  BY <1>1, <1>2, <1>3, <1>4, <1>5, <1>6, <1>7 DEF OrderInv

Adds(n, q, new) == \E k : Enqueue(n, q, k, new)

\* How a job continues job j: by its plan again, by a plan that forces all, or,
\* after a failed target, by one that forces what cannot be reused.
Continues(n, j) ==
  /\ status[j] # "none"
  /\ \/ status[j] = "failed" /\ target[j] = "open" /\ Adds(n, j, plan[j])
     \/ \E S \in SUBSET Phases : S # {} /\ Adds(n, j, ForceAll(S))
     \/ /\ target[j] = "failed"
        /\ Adds(n, j, [selected |-> SourcePlan(j).selected,
                       forced |-> SourcePlan(j).selected \ Reusable(j)])

LEMMA Sources ==
  ASSUME TypeOK, NEW j \in JobId
  PROVE  SourcePlan(j).selected \in SUBSET Phases /\ SourcePlan(j).selected # {}
<1>1. SourcePlan(j).selected \in SUBSET Phases
  BY Tables
<1>2. CASE Planned(j)
  <2>1. plan[j] \in Plans /\ plan[j] # NoPlan
    BY <1>2, Tables DEF Planned
  <2>2. plan[j].selected # {}
    BY <2>1 DEF Plans, NoPlan
  <2> QED
    BY <1>1, <1>2, <2>2 DEF SourcePlan
<1>3. CASE ~Planned(j)
  BY <1>1, <1>3, CheckpointAssumption DEF SourcePlan
<1> QED
  BY <1>2, <1>3

LEMMA Recoveries ==
  ASSUME TypeOK, NEW j \in JobId, EnqueueRecovery(j)
  PROVE  \E n \in JobId : Continues(n, j)
<1> DEFINE S == SourcePlan(j).selected
           U == S \cap Unfinished(j)
<1>1. S \in SUBSET Phases /\ S # {}
  BY Sources
<1>2. PICK n \in JobId :
        \/ Enqueue(n, j, "recovery", ForceAll(S))
        \/ /\ target[j] \in {"failed", "cancelled"}
           /\ Enqueue(n, j, "recovery", ResumePlan(j))
        \/ \E T \in RetryScopes \ {{}} : Enqueue(n, j, "recovery", ForceAll(T))
  BY DEF EnqueueRecovery
<1>3. status[j] # "none"
  BY DEF EnqueueRecovery
<1>4. CASE Enqueue(n, j, "recovery", ForceAll(S))
  BY <1>1, <1>3, <1>4 DEF Continues, Adds
<1>5. CASE \E T \in RetryScopes \ {{}} : Enqueue(n, j, "recovery", ForceAll(T))
  BY <1>3, <1>5, ScopeTypes DEF Continues, Adds
<1>6. CASE /\ target[j] \in {"failed", "cancelled"}
           /\ Enqueue(n, j, "recovery", ResumePlan(j))
  <2>1. \/ ResumePlan(j) = ForceAll(S)
        \/ U # {} /\ ResumePlan(j) = ForceAll(U)
        \/ target[j] = "failed" /\ ResumePlan(j) = [selected |-> S, forced |-> S \ Reusable(j)]
    BY <1>6 DEF ResumePlan
  <2>2. U \in SUBSET Phases
    BY <1>1
  <2> HIDE DEF S, U
  <2>3. CASE ResumePlan(j) = ForceAll(S)
    BY <1>1, <1>3, <1>6, <2>3 DEF Continues, Adds
  <2>4. CASE U # {} /\ ResumePlan(j) = ForceAll(U)
    BY <1>3, <1>6, <2>2, <2>4 DEF Continues, Adds
  <2>5. CASE target[j] = "failed" /\ ResumePlan(j) = [selected |-> S, forced |-> S \ Reusable(j)]
    BY <1>3, <1>6, <2>5 DEF Continues, Adds, S
  <2> QED
    BY <2>1, <2>3, <2>4, <2>5
<1> QED
  BY <1>2, <1>4, <1>5, <1>6

\* What enqueueing does.
LEMMA Added ==
  ASSUME TypeOK, NEW n \in JobId, NEW q, NEW new, Adds(n, q, new)
  PROVE  /\ Free(n)
         /\ parent'[n] = q /\ plan'[n] = new /\ status'[n] = "pending" /\ target'[n] = "open"
         /\ lineage'[n] = {n} \cup (IF q = None THEN {} ELSE lineage[q])
         /\ outs' = outs /\ UNCHANGED runVars /\ data' = data
         /\ \A x \in JobId \ {n} :
              KeepsRow(x) /\ status'[x] = status[x] /\ target'[x] = target[x]
<1>1. PICK k : Enqueue(n, q, k, new)
  BY DEF Adds
<1>2. parent'[n] = q /\ plan'[n] = new
  BY <1>1 DEF Enqueue, TypeOK
<1>3. status'[n] = "pending" /\ target'[n] = "open"
  BY <1>1 DEF Enqueue, TypeOK
<1>4. lineage'[n] = {n} \cup (IF q = None THEN {} ELSE lineage[q])
  BY <1>1 DEF Enqueue, TypeOK
<1>5. ASSUME NEW x \in JobId, x # n
      PROVE  KeepsRow(x) /\ status'[x] = status[x] /\ target'[x] = target[x]
  <2>1. parent'[x] = parent[x] /\ lineage'[x] = lineage[x]
    BY <1>1, <1>5 DEF Enqueue, TypeOK
  <2>2. plan'[x] = plan[x] /\ status'[x] = status[x] /\ target'[x] = target[x]
    BY <1>1, <1>5 DEF Enqueue, TypeOK
  <2> QED
    BY <2>1, <2>2 DEF KeepsRow
<1> QED
  BY <1>1, <1>2, <1>3, <1>4, <1>5 DEF Enqueue

\* A step is one that enqueues, or adds no job.
LEMMA Enqueued ==
  ASSUME TypeOK, Next, NEW n \in JobId, Joins(n)
  PROVE  Adds(n, None, NoPlan) \/ \E j \in JobId : Continues(n, j)
<1>1. status[n] = "none" /\ status'[n] = "pending"
  BY DEF Joins
<1>2. ASSUME NEW m \in JobId, NEW q, NEW new, Adds(m, q, new) PROVE m = n
  BY <1>1, <1>2, Added
<1>3. ASSUME NEW i \in JobId, NEW o, NEW r, Report(i, o, r) PROVE FALSE
  BY <1>1, <1>3 DEF Report, TypeOK
<1>4. CASE EnqueueRoot
  BY <1>2, <1>4 DEF EnqueueRoot, Adds
<1>5. ASSUME NEW j \in JobId, EnqueueRetry(j) PROVE Continues(n, j)
  <2>1. PICK m \in JobId : Enqueue(m, j, "retry", plan[j])
    BY <1>5 DEF EnqueueRetry
  <2>2. Adds(m, j, plan[j])
    BY <2>1 DEF Adds
  <2> QED
    BY <1>2, <1>5, <2>2 DEF EnqueueRetry, Continues
<1>6. ASSUME NEW j \in JobId, EnqueueRecovery(j) PROVE Continues(n, j)
  <2>1. PICK m \in JobId : Continues(m, j)
    BY <1>6, Recoveries
  <2>2. m = n
    BY <1>2, <2>1 DEF Continues
  <2> QED
    BY <2>1, <2>2
<1>7. ~Review
  BY <1>1 DEF Review, jobVars
<1>8. ASSUME NEW j \in JobId PROVE ~Start(j) /\ ~StartTooLate(j) /\ ~Cancel(j) /\ ~RunThrows(j)
  BY <1>1 DEF Start, Claim, StartTooLate, Cancel, RunThrows, TypeOK
<1>9. ASSUME NEW j \in JobId PROVE ~SkipBlock(j) /\ ~RunBlock(j)
  BY <1>1 DEF SkipBlock, RunBlock, jobVars
<1>10. ASSUME NEW j \in JobId PROVE ~NoInputs(j) /\ ~EndEarly(j) /\ ~PersistNothing(j)
  BY <1>3 DEF NoInputs, EndEarly, PersistNothing
<1>11. ASSUME NEW j \in JobId, Persist(j) PROVE FALSE
  <2>1. ~(status' = [status EXCEPT ![j] = "failed"])
    BY <1>1 DEF TypeOK
  <2> QED
    BY <1>3, <1>11, <2>1 DEF Persist
<1> QED
  BY <1>4, <1>5, <1>6, <1>7, <1>8, <1>9, <1>10, <1>11 DEF Next

\* A job is new, or keeps its row.
LEMMA Lives ==
  ASSUME TypeOK, Next, NEW x \in JobId
  PROVE  Joins(x) \/ (KeepsRow(x) /\ (status'[x] = "none" <=> status[x] = "none"))
<1>1. JobMove(x)
  BY Moves
<1>2. ASSUME Start(x) PROVE status[x] = "pending" /\ status'[x] = "running"
  BY <1>2 DEF Start, Claim, TypeOK
<1> QED
  BY <1>1, <1>2 DEF JobMove, KeepsJob, EndsJob

LEMMA LineStep == OrderInv /\ Next => Line'
<1> SUFFICES ASSUME OrderInv, Next, NEW j \in JobId
             PROVE  /\ status'[j] = "none" =>
                         /\ lineage'[j] = {} /\ parent'[j] = None /\ plan'[j] = NoPlan
                         /\ target'[j] = "none"
                         /\ \A k \in JobId : j < k => status'[k] = "none"
                    /\ parent'[j] # None => parent'[j] \in lineage'[j] /\ parent'[j] < j
                    /\ parent'[j] = None => lineage'[j] \subseteq {j}
                    /\ \A d \in lineage'[j] :
                         /\ d <= j /\ status'[d] # "none"
                         /\ d # j => \E c \in lineage'[j] : parent'[c] = d
  BY DEF Line
<1>1. TypeOK /\ Line /\ OwnLine
  BY DEF OrderInv, Inv
<1>2. \A k \in JobId : k \in Nat /\ lineage[k] \in SUBSET JobId
  BY <1>1, LineageJobs
<1>3. \A k \in JobId : Joins(k) =>
        /\ Free(k)
        /\ Adds(k, None, NoPlan)
             \/ \E q \in JobId : \E new : status[q] # "none" /\ Adds(k, q, new)
  BY <1>1, Enqueued, Added DEF Continues
<1>4. \A k \in JobId : Joins(k) \/ (KeepsRow(k) /\ (status'[k] = "none" <=> status[k] = "none"))
  BY <1>1, Lives
<1>5. \A k \in JobId : status[k] # "none" => KeepsRow(k) /\ status'[k] # "none"
  BY <1>4 DEF Joins
<1>6. CASE Joins(j)
  <2>1. status'[j] = "pending" /\ status[j] = "none"
    BY <1>6 DEF Joins
  <2>2. CASE Adds(j, None, NoPlan)
    BY <1>1, <1>2, <2>1, <2>2, Added
  <2>3. ASSUME NEW q \in JobId, NEW new, status[q] # "none", Adds(j, q, new)
        PROVE  /\ parent'[j] # None => parent'[j] \in lineage'[j] /\ parent'[j] < j
               /\ parent'[j] = None => lineage'[j] \subseteq {j}
               /\ \A d \in lineage'[j] :
                    /\ d <= j /\ status'[d] # "none"
                    /\ d # j => \E c \in lineage'[j] : parent'[c] = d
    <3>1. parent'[j] = q /\ q # None /\ lineage'[j] = {j} \cup lineage[q]
      BY <1>1, <2>3, Added, Ids DEF None, JobId
    <3>2. q < j
      BY <1>1, <1>2, <2>1, <2>3 DEF Line
    <3>3. q \in lineage[q]
      BY <1>1, <2>3 DEF OwnLine
    <3>4. ASSUME NEW d \in lineage[q]
          PROVE  d <= j /\ status'[d] # "none" /\ \E c \in lineage'[j] : parent'[c] = d
      <4>1. d \in JobId /\ d <= q /\ status[d] # "none"
        BY <1>1, <1>2, <3>4 DEF Line
      <4>2. CASE d = q
        BY <1>2, <1>5, <3>1, <3>2, <4>1, <4>2
      <4>3. CASE d # q
        <5>1. PICK c \in lineage[q] : parent[c] = d
          BY <1>1, <3>4, <4>3 DEF Line
        <5>2. c \in JobId /\ status[c] # "none"
          BY <1>1, <1>2, <5>1 DEF Line
        <5>3. parent'[c] = d
          BY <1>5, <5>1, <5>2 DEF KeepsRow
        <5> QED
          BY <1>2, <1>5, <3>1, <3>2, <4>1, <5>1, <5>3
      <4> QED
        BY <4>2, <4>3
    <3> QED
      BY <1>2, <2>1, <3>1, <3>2, <3>3, <3>4
  <2> QED
    BY <1>3, <1>6, <2>1, <2>2, <2>3
<1>7. CASE KeepsRow(j) /\ (status'[j] = "none" <=> status[j] = "none")
  <2>1. ASSUME status[j] = "none", NEW k \in JobId, j < k PROVE status'[k] = "none"
    <3>1. status[k] = "none"
      BY <1>1, <2>1 DEF Line
    <3>2. ~Free(k)
      BY <1>2, <2>1 DEF Free, JobId
    <3> QED
      BY <1>3, <1>4, <3>1, <3>2
  <2>2. lineage'[j] = lineage[j] /\ parent'[j] = parent[j] /\ plan'[j] = plan[j]
    BY <1>7 DEF KeepsRow
  <2>3. ASSUME NEW d \in lineage[j]
        PROVE  /\ d <= j /\ status'[d] # "none"
               /\ d # j => \E c \in lineage[j] : parent'[c] = d
    <3>1. d <= j /\ status[d] # "none" /\ (d # j => \E c \in lineage[j] : parent[c] = d)
      BY <1>1 DEF Line
    <3>2. \A c \in lineage[j] : c \in JobId /\ parent'[c] = parent[c]
      BY <1>1, <1>2, <1>5 DEF Line, KeepsRow
    <3> QED
      BY <1>2, <1>5, <3>1, <3>2
  <2>4. ASSUME status[j] = "none" PROVE target'[j] = target[j]
    BY <1>1, <1>7, <2>4, Moves DEF JobMove, Joins, KeepsJob, EndsJob, Start, Claim
  <2> QED
    BY <1>1, <1>7, <2>1, <2>2, <2>3, <2>4 DEF Line
<1> QED
  BY <1>4, <1>6, <1>7

LEMMA RedoStays ==
  ASSUME OrderInv, Next, NEW c \in JobId, status[c] # "none"
  PROVE  KeepsRow(c) /\ (Redo(c)' <=> Redo(c)) /\ (Planned(c)' <=> Planned(c))
<1>1. KeepsRow(c)
  BY Lives DEF OrderInv, Inv, Joins
<1> QED
  BY <1>1 DEF KeepsRow, Redo, Planned

LEMMA ForcedAgain ==
  ASSUME NEW S \in SUBSET Phases, S # {}, NEW c \in JobId, plan'[c] = ForceAll(S)
  PROVE  Redo(c)'
BY DEF ForceAll, Redo, Planned, NoPlan

LEMMA FollowStep == OrderInv /\ Next => Follow'
<1> SUFFICES ASSUME OrderInv, Next, NEW c \in JobId, parent'[c] # None
             PROVE  \/ Redo(c)'
                    \/ target'[parent'[c]] = "failed"
                    \/ target'[parent'[c]] = "open" /\ status'[parent'[c]] = "failed"
  BY DEF Follow
<1>1. TypeOK /\ Line /\ Opened /\ Follow
  BY DEF OrderInv, Inv
<1>2. CASE Joins(c)
  <2>1. Adds(c, None, NoPlan) \/ \E q \in JobId : Continues(c, q)
    BY <1>1, <1>2, Enqueued
  <2>2. ~Adds(c, None, NoPlan)
    BY <1>1, Added
  <2>3. PICK q \in JobId : Continues(c, q)
    BY <2>1, <2>2
  <2>4. q # c
    BY <1>2, <2>3 DEF Continues, Joins
  <2>5. CASE status[q] = "failed" /\ target[q] = "open" /\ Adds(c, q, plan[q])
    BY <1>1, <2>4, <2>5, Added
  <2>6. ASSUME NEW S \in SUBSET Phases, S # {}, Adds(c, q, ForceAll(S)) PROVE Redo(c)'
    <3>1. plan'[c] = ForceAll(S)
      BY <1>1, <2>6, Added
    <3> QED
      BY <2>6, <3>1, ForcedAgain
  <2>7. ASSUME NEW new, target[q] = "failed", Adds(c, q, new)
        PROVE  target'[parent'[c]] = "failed"
    BY <1>1, <2>4, <2>7, Added
  <2> QED
    BY <2>3, <2>5, <2>6, <2>7 DEF Continues
<1>3. CASE ~Joins(c)
  <2>1. KeepsRow(c) /\ status[c] # "none"
    BY <1>1, <1>3, Lives DEF KeepsRow, Line
  <2> DEFINE q == parent[c]
  <2>2. q # None /\ parent'[c] = q /\ q \in JobId /\ status[q] # "none"
    BY <1>1, <2>1 DEF KeepsRow, Line, TypeOK
  <2> HIDE DEF q
  <2>3. CASE Redo(c)
    BY <2>1, <2>3, RedoStays
  <2>4. CASE target[q] = "failed" \/ (target[q] = "open" /\ status[q] = "failed")
    <3>1. status[q] \notin {"none", "pending", "running"}
      BY <1>1, <2>2, <2>4 DEF Opened
    <3>2. JobMove(q)
      BY <1>1, <2>2, Moves
    <3>3. KeepsJob(q)
      BY <3>1, <3>2 DEF JobMove, Joins, EndsJob, Start, Claim
    <3> QED
      BY <2>2, <2>4, <3>3 DEF KeepsJob
  <2> QED
    BY <1>1, <2>2, <2>3, <2>4 DEF Follow, q
<1> QED
  BY <1>2, <1>3

LEMMA FreshStep == OrderInv /\ Next => Fresh'
<1> SUFFICES ASSUME OrderInv, Next, NEW x \in JobId, NEW c \in lineage'[x], Redo(c)'
             PROVE  /\ Planned(x)'
                    /\ \A p \in plan'[x].selected :
                         \/ p \in plan'[x].forced
                         \/ \E y \in lineage'[x] : c <= y /\ y < x /\ Usable(y, p)'
  BY DEF Fresh
<1>1. Inv /\ TypeOK /\ Line /\ Fresh /\ OwnLine
  BY DEF OrderInv, Inv
<1>2. \A k \in JobId : k \in Nat /\ lineage[k] \in SUBSET JobId
  BY <1>1, LineageJobs
<1>3. CASE ~Joins(x)
  <2>1. KeepsRow(x)
    BY <1>1, <1>3, Lives
  <2>2. c \in lineage[x] /\ c \in JobId /\ status[c] # "none" /\ status[x] # "none"
    BY <1>1, <1>2, <2>1 DEF KeepsRow, Line
  <2>3. Redo(c) /\ (Planned(x)' <=> Planned(x))
    BY <2>2, RedoStays
  <2>4. /\ Planned(x)
        /\ \A p \in plan[x].selected :
             \/ p \in plan[x].forced
             \/ \E y \in lineage[x] : c <= y /\ y < x /\ Usable(y, p)
    BY <1>1, <2>2, <2>3 DEF Fresh
  <2>5. plan[x].selected \subseteq Phases
    BY <1>1, Tables
  <2>6. \A p \in Phases : \A y \in JobId : Usable(y, p) => Usable(y, p)'
    BY <1>1, RowsStay
  <2> QED
    BY <1>2, <2>1, <2>3, <2>4, <2>5, <2>6 DEF KeepsRow
<1>4. CASE Joins(x)
  <2>1. status[x] = "none"
    BY <1>4 DEF Joins
  <2>2. CASE Adds(x, None, NoPlan)
    <3>1. lineage'[x] = {x} /\ plan'[x] = NoPlan
      BY <1>1, <2>2, Added
    <3>2. ~Redo(x)'
      BY <3>1 DEF Redo, Planned
    <3> QED
      BY <3>1, <3>2
  <2>3. ASSUME NEW q \in JobId, Continues(x, q)
        PROVE  /\ Planned(x)'
               /\ \A p \in plan'[x].selected :
                    \/ p \in plan'[x].forced
                    \/ \E y \in lineage'[x] : c <= y /\ y < x /\ Usable(y, p)'
    <3>1. PICK new : Adds(x, q, new)
      BY <2>3 DEF Continues
    <3>2. status[q] # "none" /\ q < x /\ q \in lineage[q]
      BY <1>1, <1>2, <2>1, <2>3 DEF Continues, Line, OwnLine
    <3>3. lineage'[x] = {x} \cup lineage[q] /\ outs' = outs
      BY <1>1, <3>1, Added, Ids DEF None, JobId
    <3>4. ASSUME NEW S \in SUBSET Phases, S # {}, Adds(x, q, ForceAll(S))
          PROVE  Planned(x)' /\ \A p \in plan'[x].selected : p \in plan'[x].forced
      <4>1. plan'[x] = ForceAll(S)
        BY <1>1, <3>4, Added
      <4> QED
        BY <3>4, <4>1 DEF ForceAll, Planned, NoPlan
    <3>5. CASE c = x
      <4>1. Planned(x)' /\ plan'[x].forced = plan'[x].selected
        BY <3>5 DEF Redo
      <4> QED
        BY <4>1
    <3>6. CASE c # x
      <4>1. c \in lineage[q] /\ c \in JobId /\ status[c] # "none"
        BY <1>1, <1>2, <3>3, <3>6 DEF Line
      <4>2. Redo(c) /\ c <= q
        BY <1>1, <4>1, RedoStays DEF Line
      <4>3. /\ Planned(q)
            /\ \A p \in plan[q].selected :
                 \/ p \in plan[q].forced
                 \/ \E y \in lineage[q] : c <= y /\ y < q /\ Usable(y, p)
        BY <1>1, <4>1, <4>2 DEF Fresh
      <4>4. ASSUME NEW p \in Phases, NEW y \in lineage[q], c <= y, y <= q, Usable(y, p)
            PROVE  \E z \in lineage'[x] : c <= z /\ z < x /\ Usable(z, p)'
        <5>1. y < x /\ Usable(y, p)'
          BY <1>2, <3>2, <3>3, <4>4 DEF Usable
        <5> QED
          BY <3>3, <4>4, <5>1
      <4>5. \A p \in plan[q].selected :
              \/ p \in plan[q].forced
              \/ \E y \in lineage'[x] : c <= y /\ y < x /\ Usable(y, p)'
        <5>1. plan[q].selected \subseteq Phases
          BY <1>1, Tables
        <5> QED
          BY <1>2, <4>3, <4>4, <5>1
      <4>6. CASE Adds(x, q, plan[q])
        <5>1. plan'[x] = plan[q]
          BY <1>1, <4>6, Added
        <5> QED
          BY <4>3, <4>5, <5>1 DEF Planned
      <4>7. CASE Adds(x, q, [selected |-> SourcePlan(q).selected,
                             forced |-> SourcePlan(q).selected \ Reusable(q)])
        <5>1. SourcePlan(q) = plan[q]
          BY <4>3 DEF SourcePlan
        <5>2. plan'[x] = [selected |-> plan[q].selected, forced |-> plan[q].selected \ Reusable(q)]
          BY <1>1, <4>7, <5>1, Added
        <5>3. plan[q].selected # {} /\ plan[q].selected \subseteq Phases
          BY <1>1, <5>1, Sources
        <5>4. Planned(x)'
          BY <5>2, <5>3 DEF Planned, NoPlan
        <5>5. ASSUME NEW p \in plan[q].selected, p \in Reusable(q)
              PROVE  \E y \in lineage'[x] : c <= y /\ y < x /\ Usable(y, p)'
          <6>1. PICK k \in lineage[q] : Usable(k, p) /\ (k = q \/ p \notin plan[q].forced)
            BY <5>1, <5>5 DEF Reusable
          <6>2. p \in Phases
            BY <5>3
          <6>3. CASE k = q
            BY <1>2, <4>2, <4>4, <6>1, <6>2, <6>3
          <6>4. CASE p \notin plan[q].forced
            BY <4>5, <6>4
          <6> QED
            BY <6>1, <6>3, <6>4
        <5> QED
          BY <5>2, <5>4, <5>5
      <4> QED
        BY <2>3, <3>4, <4>6, <4>7 DEF Continues
    <3> QED
      BY <3>5, <3>6
  <2> QED
    BY <1>1, <1>4, <2>2, <2>3, Enqueued
<1> QED
  BY <1>3, <1>4

\* A step reports or cancels one target at most.
LEMMA OneTarget ==
  ASSUME TypeOK, Next
  PROVE  \E n : \A k \in JobId \ {n} : target'[k] = target[k]
<1> DEFINE G == \E n : \A k \in JobId \ {n} : target'[k] = target[k]
<1>1. ASSUME NEW n \in JobId, NEW q, NEW k, NEW new, Enqueue(n, q, k, new) PROVE G
  BY <1>1 DEF Enqueue, TypeOK
<1>2. ASSUME NEW i \in JobId, NEW o, NEW r, Report(i, o, r) PROVE G
  <2>1. \A k \in JobId \ {i} : target'[k] = target[k]
    BY <1>2 DEF Report, TypeOK
  <2> QED
    BY <2>1
<1>3. ASSUME NEW i \in JobId, target' = target PROVE G
  BY <1>3
<1>4. CASE EnqueueRoot
  <2>1. PICK n \in JobId : Enqueue(n, None, "root", NoPlan)
    BY <1>4 DEF EnqueueRoot
  <2> QED
    BY <1>1, <2>1
<1>5. ASSUME NEW j \in JobId, EnqueueRetry(j) PROVE G
  <2>1. PICK n \in JobId : Enqueue(n, j, "retry", plan[j])
    BY <1>5 DEF EnqueueRetry
  <2> QED
    BY <1>1, <2>1
<1>6. ASSUME NEW j \in JobId, EnqueueRecovery(j) PROVE G
  <2>1. PICK n \in JobId : \E new : Enqueue(n, j, "recovery", new)
    BY <1>6 DEF EnqueueRecovery
  <2> QED
    BY <1>1, <2>1
<1>7. ASSUME NEW j \in JobId, StartTooLate(j) \/ Cancel(j) PROVE G
  BY <1>7 DEF StartTooLate, Cancel, TypeOK
<1>8. ASSUME NEW j \in JobId, Start(j) \/ SkipBlock(j) \/ RunBlock(j) \/ RunThrows(j)
      PROVE  target' = target
  BY <1>8 DEF Start, SkipBlock, RunBlock, RunThrows, jobVars
<1>9. ASSUME NEW j \in JobId, NoInputs(j) \/ EndEarly(j) \/ PersistNothing(j) PROVE G
  BY <1>2, <1>9 DEF NoInputs, EndEarly, PersistNothing
<1>10. ASSUME NEW j \in JobId, Persist(j) PROVE G
  <2>1. (\E o, r : Report(j, o, r)) \/ target' = target
    BY <1>10 DEF Persist
  <2> QED
    BY <1>2, <1>3, <2>1
<1>11. ASSUME Review PROVE target' = target
  BY <1>11 DEF Review, jobVars
<1>12. target' = target => G
  OBVIOUS
<1>13. \/ EnqueueRoot
       \/ \E j \in JobId : \/ EnqueueRetry(j) \/ EnqueueRecovery(j) \/ StartTooLate(j)
                            \/ Cancel(j) \/ NoInputs(j) \/ EndEarly(j)
                            \/ PersistNothing(j) \/ Persist(j)
       \/ target' = target
  BY <1>8, <1>11 DEF Next
<1> QED
  BY <1>4, <1>5, <1>6, <1>7, <1>9, <1>10, <1>12, <1>13

LEMMA LastDoneStep == OrderInv /\ Next => LastDone'
<1> SUFFICES ASSUME OrderInv, Next, NEW x \in JobId, NEW d \in lineage'[x], target'[d] = "done"
             PROVE  \E e \in lineage'[x] :
                      /\ target'[e] = "done"
                      /\ \A f \in lineage'[x] : e < f => target'[f] # "done"
  BY DEF LastDone
<1>1. Inv /\ TypeOK /\ Line /\ LastDone /\ Opened
  BY DEF OrderInv, Inv
<1>2. \A k \in JobId : k \in Nat /\ lineage[k] \in SUBSET JobId
  BY <1>1, LineageJobs
<1>3. ASSUME NEW k \in JobId, target[k] = "done" PROVE target'[k] = "done"
  <2>1. status[k] \notin {"none", "pending", "running"}
    BY <1>1, <1>3 DEF Opened, Line
  <2>2. KeepsJob(k)
    BY <1>1, <2>1, Moves DEF JobMove, Joins, EndsJob, Start, Claim
  <2> QED
    BY <1>3, <2>2 DEF KeepsJob
<1>4. CASE Joins(x)
  <2>1. CASE Adds(x, None, NoPlan)
    <3>1. lineage'[x] = {x} /\ target'[x] = "open"
      BY <1>1, <2>1, Added
    <3> QED
      BY <3>1
  <2>2. ASSUME NEW q \in JobId, NEW new, Adds(x, q, new)
        PROVE  \E e \in lineage'[x] :
                 /\ target'[e] = "done"
                 /\ \A f \in lineage'[x] : e < f => target'[f] # "done"
    <3>1. /\ lineage'[x] = {x} \cup lineage[q] /\ target'[x] = "open"
          /\ \A k \in JobId \ {x} : target'[k] = target[k]
      BY <1>1, <2>2, Added, Ids DEF None, JobId
    <3>2. status[x] = "none"
      BY <1>4 DEF Joins
    <3>3. \A k \in lineage[q] : k \in JobId \ {x}
      BY <1>1, <1>2, <3>2 DEF Line
    <3>4. d \in lineage[q] /\ target[d] = "done"
      BY <3>1, <3>3
    <3>5. PICK e \in lineage[q] :
            target[e] = "done" /\ \A f \in lineage[q] : e < f => target[f] # "done"
      BY <1>1, <3>4 DEF LastDone
    <3> QED
      BY <3>1, <3>3, <3>5
  <2> QED
    BY <1>1, <1>4, <2>1, <2>2, Enqueued DEF Continues
<1>5. CASE ~Joins(x)
  <2>1. lineage'[x] = lineage[x]
    BY <1>1, <1>5, Lives DEF KeepsRow
  <2>2. PICK n : \A k \in JobId \ {n} : target'[k] = target[k]
    BY <1>1, OneTarget
  <2>3. CASE \E b \in lineage[x] : target[b] = "done"
    <3>1. PICK e \in lineage[x] :
            target[e] = "done" /\ \A f \in lineage[x] : e < f => target[f] # "done"
      BY <1>1, <2>3 DEF LastDone
    <3>2. target'[e] = "done" /\ e \in Nat
      BY <1>2, <1>3, <3>1
    <3>3. CASE n \in lineage[x] /\ e < n /\ target'[n] = "done"
      <4>1. \A f \in lineage[x] : n < f => f # n /\ e < f
        BY <1>2, <3>2, <3>3
      <4> QED
        BY <1>2, <2>1, <2>2, <3>1, <3>3, <4>1
    <3>4. CASE ~(n \in lineage[x] /\ e < n /\ target'[n] = "done")
      BY <1>2, <2>1, <2>2, <3>1, <3>2, <3>4
    <3> QED
      BY <3>3, <3>4
  <2>4. CASE \A b \in lineage[x] : target[b] # "done"
    <3>1. d = n
      BY <1>2, <2>1, <2>2, <2>4
    <3>2. \A f \in lineage[x] : d < f => target'[f] # "done"
      BY <1>2, <2>1, <2>2, <2>4, <3>1
    <3> QED
      BY <2>1, <3>2
  <2> QED
    BY <2>3, <2>4
<1> QED
  BY <1>4, <1>5

LEMMA LastRedoStep == OrderInv /\ Next => LastRedo'
<1> SUFFICES ASSUME OrderInv, Next, NEW x \in JobId, NEW d \in lineage'[x], Redo(d)'
             PROVE  \E e \in lineage'[x] :
                      Redo(e)' /\ \A f \in lineage'[x] : e < f => ~Redo(f)'
  BY DEF LastRedo
<1>1. Inv /\ TypeOK /\ Line /\ LastRedo
  BY DEF OrderInv, Inv
<1>2. \A k \in JobId : k \in Nat /\ lineage[k] \in SUBSET JobId
  BY <1>1, LineageJobs
<1>3. \A k \in JobId : \A f \in lineage[k] : f \in JobId /\ f <= k /\ (Redo(f)' <=> Redo(f))
  BY <1>1, <1>2, RedoStays DEF Line
<1>4. CASE Joins(x)
  <2>1. CASE Adds(x, None, NoPlan)
    <3>1. lineage'[x] = {x}
      BY <1>1, <2>1, Added
    <3> QED
      BY <1>2, <3>1
  <2>2. ASSUME NEW q \in JobId, NEW new, status[q] # "none", Adds(x, q, new)
        PROVE  \E e \in lineage'[x] :
                 Redo(e)' /\ \A f \in lineage'[x] : e < f => ~Redo(f)'
    <3>1. lineage'[x] = {x} \cup lineage[q]
      BY <1>1, <2>2, Added, Ids DEF None, JobId
    <3>2. q < x
      BY <1>1, <1>2, <1>4, <2>2 DEF Joins, Line
    <3>3. \A f \in lineage[q] : f < x
      BY <1>2, <1>3, <3>2
    <3>4. CASE Redo(x)'
      <4>1. \A f \in lineage'[x] : ~(x < f)
        BY <1>2, <1>3, <3>1, <3>3
      <4> QED
        BY <3>1, <3>4, <4>1
    <3>5. CASE ~Redo(x)'
      <4>1. d \in lineage[q]
        BY <3>1, <3>5
      <4>2. Redo(d)
        BY <1>3, <4>1
      <4>3. PICK e \in lineage[q] : Redo(e) /\ \A f \in lineage[q] : e < f => ~Redo(f)
        BY <1>1, <4>1, <4>2 DEF LastRedo
      <4> QED
        BY <1>3, <3>1, <3>5, <4>3
    <3> QED
      BY <3>4, <3>5
  <2> QED
    BY <1>1, <1>4, <2>1, <2>2, Enqueued DEF Continues
<1>5. CASE ~Joins(x)
  <2>1. lineage'[x] = lineage[x]
    BY <1>1, <1>5, Lives DEF KeepsRow
  <2>2. Redo(d)
    BY <1>3, <2>1
  <2>3. PICK e \in lineage[x] : Redo(e) /\ \A f \in lineage[x] : e < f => ~Redo(f)
    BY <1>1, <2>1, <2>2 DEF LastRedo
  <2> QED
    BY <1>3, <2>1, <2>3
<1> QED
  BY <1>4, <1>5

\* A job is cancelled together with its target; it is over when it ends otherwise.
LEMMA Ending ==
  ASSUME Inv, Next, NEW j \in JobId
  PROVE  /\ status'[j] = "cancelled" /\ status[j] # "cancelled" => target'[j] = "cancelled"
         /\ Active(j) /\ status[j] = "running" /\ status'[j] \in {"completed", "failed"} =>
              block'[j] = Ended
<1> DEFINE G == /\ status'[j] = "cancelled" /\ status[j] # "cancelled" =>
                     target'[j] = "cancelled"
                /\ Active(j) /\ status[j] = "running"
                     /\ status'[j] \in {"completed", "failed"} => block'[j] = Ended
<1>1. TypeOK /\ Opened
  BY DEF Inv
<1>2. ASSUME status'[j] = status[j] PROVE G
  BY <1>2
<1>3. ASSUME NEW i \in JobId, Over(i), \/ status' = status
                                       \/ status' = [status EXCEPT ![i] = "failed"]
                                       \/ status' = [status EXCEPT ![i] = "completed"]
      PROVE  G
  <2>1. CASE i = j
    BY <1>1, <1>3, <2>1 DEF Over, TypeOK
  <2>2. CASE i # j
    BY <1>1, <1>3, <2>2 DEF TypeOK
  <2> QED
    BY <2>1, <2>2
<1>4. ASSUME NEW i \in JobId, NEW o, NEW r, Report(i, o, r) PROVE G
  BY <1>3, <1>4 DEF Report
<1>5. ASSUME NEW n \in JobId, NEW q, NEW k, NEW new, Enqueue(n, q, k, new) PROVE G
  BY <1>1, <1>5 DEF Enqueue, TypeOK
<1>6. CASE EnqueueRoot
  BY <1>5, <1>6 DEF EnqueueRoot
<1>7. CASE Review
  BY <1>2, <1>7 DEF Review, jobVars
<1>8. ASSUME NEW i \in JobId, EnqueueRetry(i) PROVE G
  BY <1>5, <1>8 DEF EnqueueRetry
<1>9. ASSUME NEW i \in JobId, EnqueueRecovery(i) PROVE G
  <2>1. PICK n \in JobId : \E new : Enqueue(n, i, "recovery", new)
    BY <1>9 DEF EnqueueRecovery
  <2> QED
    BY <1>5, <2>1
<1>10. ASSUME NEW i \in JobId, Start(i) \/ StartTooLate(i) PROVE G
  <2>1. (status[i] = "pending" /\ status'[j] # "cancelled") \/ status'[j] = status[j]
    BY <1>1, <1>10 DEF Start, Claim, StartTooLate, TypeOK
  <2>2. status[i] = "pending" /\ (i # j => status'[j] = status[j])
    BY <1>1, <1>10 DEF Start, Claim, StartTooLate, TypeOK
  <2> QED
    BY <2>1, <2>2
<1>11. ASSUME NEW i \in JobId, Cancel(i) PROVE G
  <2>1. CASE i = j
    <3>1. status[j] \in {"pending", "running"} /\ status'[j] = "cancelled"
      BY <1>1, <1>11, <2>1 DEF Cancel, TypeOK
    <3>2. target[j] = "open"
      BY <1>1, <3>1 DEF Opened
    <3>3. target'[j] = "cancelled"
      BY <1>1, <1>11, <2>1, <3>2 DEF Cancel, TypeOK
    <3> QED
      BY <3>1, <3>3
  <2>2. CASE i # j
    BY <1>1, <1>11, <2>2 DEF Cancel, TypeOK
  <2> QED
    BY <2>1, <2>2
<1>12. ASSUME NEW i \in JobId, SkipBlock(i) \/ RunBlock(i) PROVE G
  BY <1>2, <1>12 DEF SkipBlock, RunBlock, jobVars
<1>13. ASSUME NEW i \in JobId, NoInputs(i) \/ EndEarly(i) \/ PersistNothing(i) PROVE G
  BY <1>4, <1>13 DEF NoInputs, EndEarly, PersistNothing
<1>14. ASSUME NEW i \in JobId, RunThrows(i) PROVE G
  BY <1>3, <1>14 DEF RunThrows
<1>15. ASSUME NEW i \in JobId, Persist(i) PROVE G
  BY <1>3, <1>4, <1>15 DEF Persist
<1> QED
  BY <1>6, <1>7, <1>8, <1>9, <1>10, <1>11, <1>12, <1>13, <1>14, <1>15 DEF Next

LEMMA CancelledStep == OrderInv /\ Next => Cancelled'
<1> SUFFICES ASSUME OrderInv, Next, NEW j \in JobId
             PROVE  /\ status'[j] = "cancelled" => target'[j] = "cancelled"
                    /\ Active(j)' => status'[j] \in {"running", "cancelled"}
  BY DEF Cancelled
<1>1. Inv /\ TypeOK /\ Cancelled /\ Opened /\ Waiting
  BY DEF OrderInv, Inv
<1>2. JobMove(j) /\ RunMove(j)
  BY <1>1, Moves
<1>3. status'[j] = "cancelled" /\ status[j] # "cancelled" => target'[j] = "cancelled"
  BY <1>1, Ending
<1>4. ASSUME status[j] = "cancelled" PROVE status'[j] = "cancelled" /\ target'[j] = "cancelled"
  <2>1. KeepsJob(j)
    BY <1>2, <1>4 DEF JobMove, Joins, EndsJob, Start, Claim
  <2> QED
    BY <1>1, <1>4, <2>1 DEF KeepsJob, Cancelled
<1>5. ASSUME Active(j)' PROVE status'[j] \in {"running", "cancelled"}
  <2>1. CASE Start(j)
    BY <1>1, <2>1 DEF Start, Claim, TypeOK
  <2>2. CASE ~Start(j)
    <3>1. Active(j)
      BY <1>1, <1>2, <1>5, <2>2, BlockMoves
        DEF RunMove, KeepsRun, EndsRun, Active, Blocks, Persisting, Ended
    <3>2. status[j] \in {"running", "cancelled"} /\ block'[j] # Ended
      BY <1>1, <1>5, <3>1 DEF Cancelled, Active, Ended, Persisting
    <3>3. CASE status[j] = "running"
      <4>1. ~(status'[j] \in {"completed", "failed"})
        BY <1>1, <3>1, <3>2, <3>3, Ending
      <4>2. status'[j] = "running" \/ status'[j] \in {"completed", "failed", "cancelled"}
        BY <1>2, <2>2, <3>3 DEF JobMove, Joins, KeepsJob, EndsJob
      <4> QED
        BY <4>1, <4>2
    <3> QED
      BY <1>4, <3>2, <3>3
  <2> QED
    BY <2>1, <2>2
<1> QED
  BY <1>3, <1>4, <1>5

LEMMA NewestTop ==
  ASSUME NEW S, NEW p, Newest(S, p) # None
  PROVE  \A i \in S : outs[i][p].at <= outs[Newest(S, p)][p].at
<1> DEFINE top == {k \in S : \A i \in S : outs[i][p].at <= outs[k][p].at}
<1>1. top # {} => (CHOOSE k \in top : TRUE) \in top
  OBVIOUS
<1>2. Newest(S, p) = IF top = {} THEN None ELSE CHOOSE k \in top : TRUE
  BY DEF Newest
<1> QED
  BY <1>1, <1>2

\* Only a worker that lost its job can save a newer row beside a running job.
LEMMA NewestStays ==
  ASSUME OrderInv, Next, NEW j \in JobId, Running(j), KeepsRow(j),
         NEW p \in Phases, NEW k \in JobId, Usable(k, p), NewestOf(j, p, k)
  PROVE  NewestOf(j, p, k)'
<1>1. Inv /\ TypeOK /\ RowsBehind /\ Single /\ Cancelled
  BY DEF OrderInv, Inv
<1>2. BlockOf[p] \in 1..5
  BY BlocksOfPhases DEF Blocks
<1>3. outs'[k][p].at = outs[k][p].at
  <2>1. OutMove(k, p)
    BY <1>1, Moves
  <2>2. ~SavesRow(k, p)
    BY <1>1, <1>2 DEF SavesRow, RowsBehind
  <2> QED
    BY <2>1, <2>2 DEF OutMove, KeepsOuts, MergesRow
<1>4. ASSUME NEW y \in JobId, status[y] = "cancelled" PROVE status'[y] = "cancelled"
  <2>1. KeepsJob(y)
    BY <1>1, <1>4, Moves DEF JobMove, Joins, EndsJob, Start, Claim
  <2> QED
    BY <1>4, <2>1 DEF KeepsJob
<1>5. ASSUME NEW y \in lineage[j], y # j, Usable(y, p)', outs'[y][p].merged = 0
      PROVE  outs'[y][p].at <= outs'[k][p].at \/ status'[y] = "cancelled"
  <2>1. y \in JobId
    BY <1>1 DEF TypeOK
  <2>2. OutMove(y, p)
    BY <1>1, <2>1, Moves
  <2>3. CASE KeepsOuts(y, p)
    BY <1>3, <1>4, <1>5, <2>1, <2>3 DEF KeepsOuts, Usable, NewestOf
  <2>4. CASE SavesRow(y, p)
    <3>1. Active(y)
      BY <2>4 DEF SavesRow, RunBlock, Active, Blocks, Persisting
    <3>2. status[y] = "cancelled"
      BY <1>1, <1>5, <2>1, <3>1 DEF Cancelled, Single, Running
    <3> QED
      BY <1>4, <2>1, <3>2
  <2>5. CASE MergesRow(y, p)
    BY <1>5, <2>5 DEF MergesRow
  <2> QED
    BY <2>2, <2>3, <2>4, <2>5 DEF OutMove
<1> QED
  BY <1>5 DEF NewestOf, KeepsRow

LEMMA ReusedStep == OrderInv /\ Next => Reused'
<1> SUFFICES ASSUME OrderInv, Next, NEW j \in JobId, NEW p \in Phases,
                    Running(j)', Active(j)', HasParent(j)', p \in Selected(j)',
                    NEW k \in JobId, k # j
             PROVE  /\ saved'[j][p] = k => NewestOf(j, p, k)'
                    /\ checkpoints'[j][p] = k => p \notin Forced(j)' /\ NewestOf(j, p, k)'
  BY DEF Reused
<1>1. Inv /\ TypeOK /\ Reused /\ Memory /\ Fit /\ Cleared /\ Waiting
  BY DEF OrderInv, Inv
<1>2. JobMove(j) /\ RunMove(j)
  BY <1>1, Moves
<1>3. k # None
  BY CheckpointAssumption DEF JobId, None
<1>4. CASE Start(j)
  <2>1. KeepsRow(j) /\ block[j] = 0 /\ outs' = outs
    BY <1>1, <1>4 DEF Start, Claim, Waiting, KeepsRow
  <2>2. HasParent(j) /\ p \in Selected(j)
    BY <2>1 DEF KeepsRow, HasParent, Selected, Planned
  <2>3. checkpoints'[j][p] = None
    BY <1>1, <1>4, <2>1 DEF Start, Cleared, Active, Persisting, Nothing
  <2>4. saved'[j][p] = Newest(Seen(j, p), p)
    BY <1>1, <1>4 DEF Start, TypeOK
  <2>5. ASSUME NEW y \in lineage[j], Usable(y, p), outs[y][p].merged = 0 PROVE y \in Seen(j, p)
    BY <1>1, <2>5 DEF Seen, TypeOK
  <2>6. ASSUME saved'[j][p] = k PROVE NewestOf(j, p, k)'
    <3>1. \A i \in Seen(j, p) : outs[i][p].at <= outs[k][p].at
      BY <1>3, <2>4, <2>6, NewestTop
    <3> QED
      BY <2>1, <2>5, <3>1 DEF NewestOf, KeepsRow, Usable
  <2> QED
    BY <1>3, <2>3, <2>6
<1>5. CASE ~Start(j)
  <2>1. Active(j)
    BY <1>1, <1>2, <1>5, BlockMoves
      DEF RunMove, KeepsRun, EndsRun, Active, Blocks, Persisting, Ended
  <2>2. Running(j)
    BY <1>2, <1>5 DEF JobMove, Joins, KeepsJob, EndsJob, Running
  <2>3. KeepsRow(j)
    BY <1>1, <2>1, RunningRow
  <2>4. HasParent(j) /\ p \in Selected(j) /\ (p \notin Forced(j) => p \notin Forced(j)')
    BY <2>3 DEF KeepsRow, HasParent, Selected, Planned, Forced
  <2>5. ASSUME saved[j][p] = k PROVE NewestOf(j, p, k)'
    <3>1. Usable(k, p)
      BY <1>1, <1>3, <2>1, <2>5 DEF Memory, MemoryOf
    <3>2. NewestOf(j, p, k)
      BY <1>1, <2>1, <2>2, <2>4, <2>5 DEF Reused
    <3> QED
      BY <2>2, <2>3, <3>1, <3>2, NewestStays
  <2>6. ASSUME checkpoints[j][p] = k PROVE p \notin Forced(j)' /\ NewestOf(j, p, k)'
    <3>1. Usable(k, p)
      BY <1>1, <1>3, <2>1, <2>2, <2>6 DEF Fit, Eligible
    <3>2. p \notin Forced(j) /\ NewestOf(j, p, k)
      BY <1>1, <2>1, <2>2, <2>4, <2>6 DEF Reused
    <3> QED
      BY <2>2, <2>3, <2>4, <3>1, <3>2, NewestStays
  <2>7. CASE KeepsRun(j)
    BY <2>5, <2>6, <2>7 DEF KeepsRun
  <2>8. CASE SkipBlock(j) \/ RunBlock(j)
    <3>1. Untouched(j, p) \/ Reuses(j, p) \/ Produces(j, p) \/ Misses(j, p)
      BY <1>1, <2>8, BlockDoes
    <3>2. CASE Untouched(j, p)
      BY <2>5, <2>6, <3>2 DEF Untouched
    <3>3. CASE Reuses(j, p)
      BY <2>4, <2>5, <2>6, <3>3 DEF Reuses
    <3>4. CASE Produces(j, p)
      BY <3>4 DEF Produces
    <3>5. CASE Misses(j, p)
      BY <2>6, <3>5 DEF Misses
    <3> QED
      BY <3>1, <3>2, <3>3, <3>4, <3>5
  <2>9. ~EndsRun(j)
    BY DEF EndsRun, Active, Ended, Persisting
  <2> QED
    BY <1>2, <1>5, <2>7, <2>8, <2>9 DEF RunMove
<1> QED
  BY <1>4, <1>5

\* Only a write changes what the submission holds.
LEMMA Writes ==
  ASSUME Next
  PROVE  data' = data \/ \E i \in JobId : Persist(i) /\ Accepted(i) /\ Merge(i)
<1>1. ASSUME NEW i \in JobId, EnqueueRetry(i) \/ EnqueueRecovery(i) PROVE data' = data
  BY <1>1 DEF EnqueueRetry, EnqueueRecovery, Enqueue
<1>2. EnqueueRoot \/ Review => data' = data
  BY DEF EnqueueRoot, Enqueue, Review
<1>3. ASSUME NEW i \in JobId, Start(i) \/ StartTooLate(i) \/ Cancel(i) PROVE data' = data
  BY <1>3 DEF Start, StartTooLate, Cancel
<1>4. ASSUME NEW i \in JobId, SkipBlock(i) \/ NoInputs(i) \/ RunBlock(i) PROVE data' = data
  BY <1>4 DEF SkipBlock, NoInputs, RunBlock
<1>5. ASSUME NEW i \in JobId, EndEarly(i) \/ RunThrows(i) \/ PersistNothing(i)
      PROVE  data' = data
  BY <1>5 DEF EndEarly, RunThrows, PersistNothing
<1>6. ASSUME NEW i \in JobId, Persist(i) PROVE data' = data \/ (Accepted(i) /\ Merge(i))
  BY <1>6 DEF Persist
<1> QED
  BY <1>1, <1>2, <1>3, <1>4, <1>5, <1>6 DEF Next

LEMMA MergedStep == OrderInv /\ Next => Merged'
<1> SUFFICES ASSUME OrderInv, Next, NEW p \in Phases, data'[p] # None
             PROVE  data'[p] \in JobId /\ outs'[data'[p]][p].merged # 0
  BY DEF Merged
<1>1. Inv /\ TypeOK /\ Merged
  BY DEF OrderInv, Inv
<1>2. ASSUME data'[p] = data[p] PROVE data'[p] \in JobId /\ outs'[data'[p]][p].merged # 0
  BY <1>1, <1>2, RowsStay DEF Merged
<1>3. CASE data' = data
  BY <1>2, <1>3
<1>4. ASSUME NEW i \in JobId, Persist(i), Accepted(i), Merge(i)
      PROVE  data'[p] \in JobId /\ outs'[data'[p]][p].merged # 0
  <2>1. CASE p \in Taken(i)
    <3>1. data'[p] = checkpoints[i][p] /\ data'[p] \in JobId
      BY <1>1, <1>4, <2>1, Jobs DEF Merge, Taken
    <3>2. outs'[data'[p]][p] = [outs[data'[p]][p] EXCEPT !.merged = clock + 1]
      BY <1>4, <2>1, <3>1 DEF Merge
    <3>3. outs[data'[p]][p] \in Rows
      BY <1>1, <3>1 DEF TypeOK
    <3>4. clock + 1 # 0
      BY <1>1 DEF TypeOK
    <3> QED
      BY <3>1, <3>2, <3>3, <3>4 DEF Rows
  <2>2. CASE p \notin Taken(i)
    BY <1>2, <1>4, <2>2 DEF Merge
  <2> QED
    BY <2>1, <2>2
<1> QED
  BY <1>3, <1>4, Writes

LEMMA OrderStep == OrderInv /\ [Next]_vars => OrderInv'
<1>1. CASE Next
  BY <1>1, InvStep, LineStep, FollowStep, FreshStep, LastDoneStep, LastRedoStep,
     CancelledStep, ReusedStep, MergedStep DEF OrderInv
<1>2. ASSUME UNCHANGED vars, OrderInv PROVE OrderInv'
  <2> USE <1>2 DEF vars, jobVars, runVars
  <2>1. Inv'
    BY InvStep DEF OrderInv
  <2>2. Line' /\ Follow' /\ LastDone' /\ LastRedo'
    BY DEF OrderInv, Line, Follow, LastDone, LastRedo, Redo, Planned
  <2>3. Fresh'
    BY DEF OrderInv, Fresh, Redo, Planned, Usable
  <2>4. Cancelled' /\ Merged'
    BY DEF OrderInv, Cancelled, Merged, Active
  <2>5. Reused'
    BY DEF OrderInv, Reused, NewestOf, Running, Active, HasParent, Selected, Planned, Forced,
           Usable
  <2> QED
    BY <2>1, <2>2, <2>3, <2>4, <2>5 DEF OrderInv
<1> QED
  BY <1>1, <1>2

LEMMA OrderInvariant == Spec => []OrderInv
BY OrderInit, OrderStep, PTL DEF Spec

\* Where a running job reuses the newest row of its lineage, nothing happened
\* in it from the job of that row on that would have asked for a new one.
LEMMA Quiet ==
  ASSUME OrderInv, NEW j \in JobId, Running(j), InOrder(j),
         NEW p \in Phases, p \in Selected(j), p \notin Forced(j),
         NEW k \in lineage[j] \ {j}, Usable(k, p), NewestOf(j, p, k)
  PROVE  \A e \in lineage[j] :
           /\ k < e => ~Redo(e)
           /\ k <= e => target[e] # "done" /\ status[e] # "cancelled"
           /\ k <= e => \A q \in Phases : outs[e][q].merged = 0
<1>1. /\ Inv /\ TypeOK /\ Opened /\ Line /\ Follow /\ Fresh /\ LastRedo /\ Cancelled
  BY DEF OrderInv, Inv
<1>2. \A x \in lineage[j] : x \in JobId /\ x \in Nat /\ x <= j /\ outs[x][p].at \in Nat
  <2> SUFFICES ASSUME NEW x \in lineage[j]
               PROVE  x \in JobId /\ x \in Nat /\ x <= j /\ outs[x][p].at \in Nat
    OBVIOUS
  <2>1. x \in JobId /\ x <= j
    BY <1>1 DEF TypeOK, Line
  <2>2. outs[x][p] \in Rows
    BY <1>1, <2>1 DEF TypeOK
  <2> QED
    BY <2>1, <2>2 DEF Rows, JobId
<1>3. target[j] = "open" /\ status[j] # "cancelled" /\ j \in Nat
  BY <1>1 DEF Opened, Running, JobId
\* A job of the lineage before j that is done or cancelled was continued by
\* one that forces all.
<1>4. ASSUME NEW e \in lineage[j], e # j, target[e] = "done" \/ status[e] = "cancelled"
      PROVE  \E c \in lineage[j] : e < c /\ Redo(c)
  <2>1. PICK c \in lineage[j] : parent[c] = e
    BY <1>1, <1>4 DEF Line
  <2>2. e < c
    BY <1>1, <1>2, <2>1, CheckpointAssumption DEF Line, JobId, None
  <2>3. Redo(c)
    BY <1>1, <1>2, <1>4, <2>1, CheckpointAssumption DEF Follow, Cancelled, JobId, None
  <2> QED
    BY <2>2, <2>3
<1>5. ASSUME NEW c \in lineage[j], k < c, Redo(c) PROVE FALSE
  <2>1. PICK r \in lineage[j] : Redo(r) /\ \A f \in lineage[j] : r < f => ~Redo(f)
    BY <1>1, <1>5 DEF LastRedo
  <2>2. k < r
    BY <1>2, <1>5, <2>1
  <2>3. Planned(j) /\ p \in plan[j].selected /\ p \notin plan[j].forced
    BY <1>1, <2>1 DEF Fresh, Selected, Forced
  <2>4. PICK y \in lineage[j] : r <= y /\ y < j /\ Usable(y, p)
    BY <1>1, <2>1, <2>3 DEF Fresh
  <2>5. ASSUME NEW e \in lineage[j], y <= e, target[e] = "done" PROVE FALSE
    <3>1. PICK f \in lineage[j] : e < f /\ Redo(f)
      BY <1>3, <1>4, <2>5
    <3> QED
      BY <1>2, <2>1, <2>4, <2>5, <3>1
  <2>6. outs[y][p].merged = 0
    BY <2>5 DEF InOrder
  <2>7. status[y] # "cancelled"
    <3>1. ASSUME status[y] = "cancelled" PROVE FALSE
      <4>1. PICK f \in lineage[j] : y < f /\ Redo(f)
        BY <1>2, <1>3, <1>4, <2>4, <3>1
      <4> QED
        BY <1>2, <2>1, <2>4, <4>1
    <3> QED
      BY <3>1
  <2>8. outs[y][p].at <= outs[k][p].at
    BY <1>2, <1>3, <2>4, <2>6, <2>7 DEF NewestOf
  <2>9. outs[k][p].at < outs[y][p].at
    <3>1. k < y
      BY <1>2, <2>2, <2>4
    <3> QED
      BY <2>4, <3>1 DEF InOrder
  <2> QED
    BY <1>2, <2>8, <2>9
<1>6. ASSUME NEW e \in lineage[j], k <= e
      PROVE  target[e] # "done" /\ status[e] # "cancelled"
  <2>1. \A c \in lineage[j] : e < c => k < c
    BY <1>2, <1>6
  <2> QED
    BY <1>3, <1>4, <1>5, <2>1
<1>7. ASSUME NEW e \in lineage[j], k <= e, NEW q \in Phases, outs[e][q].merged # 0
      PROVE  FALSE
  <2>1. PICK f \in lineage[j] : f >= e /\ target[f] = "done"
    BY <1>7 DEF InOrder
  <2>2. k <= f
    BY <1>2, <1>7, <2>1
  <2> QED
    BY <1>6, <2>1, <2>2
<1> QED
  BY <1>5, <1>6, <1>7

\* A write that put an older output of the lineage in the place of a newer one
\* would reuse it behind the back of a job that reported done.
LEMMA ForwardStep ==
  ASSUME OrderInv, Next, NEW j \in JobId, NEW p \in Phases,
         Running(j), block[j] = Persisting, InOrder(j),
         data'[p] # data[p], data[p] \in lineage[j]
  PROVE  outs[data[p]][p].at < outs[data'[p]][p].at
<1>1. /\ Inv /\ TypeOK /\ RowsBehind /\ Single /\ Line /\ Reused /\ Merged
  BY DEF OrderInv, Inv
<1>2. \A x \in lineage[j] : x \in JobId /\ x \in Nat
  BY <1>1, LineageJobs DEF JobId
<1>3. PICK i \in JobId : Persist(i) /\ Accepted(i) /\ Merge(i)
  BY Writes
<1>4. i = j
  BY <1>1, <1>3 DEF Single, Accepted
<1> DEFINE m == data[p]
           k == checkpoints[j][p]
<1>5. p \in Taken(j) /\ data'[p] = k
  BY <1>3, <1>4 DEF Merge, TypeOK
<1>6. /\ k \in lineage[j] /\ Usable(k, p) /\ outs[k][p].merged = 0
      /\ Planned(j) => p \in plan[j].selected
  BY <1>3, <1>4, <1>5 DEF Accepted, Eligible
<1>7. m \in lineage[j] /\ m \in JobId /\ m # None
  BY <1>2, CheckpointAssumption DEF JobId, None
<1>8. outs[m][p].merged # 0 /\ Usable(m, p) /\ m # k
  BY <1>1, <1>6, <1>7 DEF Merged, RowsBehind
<1>9. p \in Selected(j) /\ Active(j)
  BY <1>6 DEF Selected, Active, Persisting
<1> HIDE DEF m, k
<1>10. CASE m < k
  BY <1>5, <1>6, <1>7, <1>8, <1>10 DEF InOrder, m
<1>11. ASSUME k < m PROVE FALSE
  <2>1. m <= j /\ j \in Nat
    BY <1>1, <1>7 DEF Line, JobId
  <2>2. k # j
    BY <1>2, <1>6, <1>7, <1>11, <2>1
  <2>3. HasParent(j)
    BY <1>1, <1>6, <2>2 DEF HasParent, Line
  <2>4. p \notin Forced(j) /\ NewestOf(j, p, k)
    BY <1>1, <1>2, <1>6, <1>9, <2>2, <2>3 DEF Reused, k
  <2>5. k <= m => outs[m][p].merged = 0
    BY <1>6, <1>7, <1>9, <2>2, <2>4, Quiet
  <2> QED
    BY <1>2, <1>6, <1>7, <1>8, <1>11, <2>5
<1> QED
  BY <1>2, <1>6, <1>7, <1>8, <1>10, <1>11

\* Along a lineage worked off in its order, a retry or recovery never puts an
\* older output of the lineage in the place of a newer one.
THEOREM LineagesMoveForward == Spec => MovesForward
<1> DEFINE Forward ==
      \A p \in Phases, j \in JobId :
        /\ data'[p] # data[p] /\ data[p] \in lineage[j]
        /\ Running(j) /\ block[j] = Persisting /\ InOrder(j)
        => outs[data[p]][p].at < outs[data'[p]][p].at
<1>1. ASSUME OrderInv, Next PROVE Forward
  BY <1>1, ForwardStep
<1>2. [][Forward]_vars => MovesForward
  BY PTL DEF MovesForward
<1> HIDE DEF Forward
<1>3. OrderInv /\ [Next]_vars => [Forward]_vars
  BY <1>1
<1> QED
  BY <1>2, <1>3, OrderInvariant, PTL DEF Spec
=============================================================================
