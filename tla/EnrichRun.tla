------------------------------ MODULE EnrichRun ------------------------------
(***************************************************************************)
(* One enrichment run: runEnrich takes the targets of a job in chunks,     *)
(* runBlocks takes a chunk through the blocks, and a block handles the     *)
(* targets of the chunk in callbacks, Concurrency of them at once.  What a *)
(* target does is reported through one chain of serialized writes, and     *)
(* consecutive failures of the LLM provider trip a breaker.  JavaScript    *)
(* runs one callback at a time; each action is what one of them does from  *)
(* one await to the next, or what one statement does in the database.      *)
(***************************************************************************)
EXTENDS Naturals, Sequences, FiniteSets

CONSTANTS
  Targets,        \* the submissions of the run
  Chunks,         \* brandChunks, a sequence of sets of targets
  Order,          \* bound: the blocks of BLOCK_ORDER that the run needs
  Concurrency,    \* ENRICH_BRAND_CONCURRENCY, 3 in the code
  BreakerLimit,   \* LLM_BREAKER_CONSECUTIVE_LIMIT, 3 in the code
  DryRun          \* config.dryRun

ChunkBlocks == {"detect", "names"}
BrandBlocks == {"acquire", "editorial", "products", "persist"}

ASSUME EnrichAssumption ==
  /\ IsFiniteSet(Targets)
  /\ Chunks \in Seq(SUBSET Targets)
  /\ Len(Chunks) # 0
  /\ \A t \in Targets : \E i \in DOMAIN Chunks : t \in Chunks[i]
  /\ \A i, k \in DOMAIN Chunks : i # k => Chunks[i] \cap Chunks[k] = {}
  /\ Order \in Seq(ChunkBlocks \cup BrandBlocks)
  /\ Len(Order) # 0
  /\ \A i \in DOMAIN Order : Order[i] = "persist" <=> i = Len(Order)
  /\ Concurrency \in Nat \ {0}
  /\ BreakerLimit \in Nat \ {0}
  /\ DryRun \in BOOLEAN

VARIABLES
  run,         \* of the call of runEnrich: going, threw, returned, broke
  chunk,       \* chunkIndex, from 1
  block,       \* 0 in initializeContext, then the index in Order
  todo,        \* targets mapWithConcurrency has not started
  hands,       \* its workers that have not died of an error
  at,          \* where the callback of a target is
  said,        \* the status in the last event of a target
  chain,       \* targetProgressBatchWrite: targets whose event waits there
  pending,     \* pendingTargetProgress: running events that are not sent
  completed,   \* targets with ctx.completed
  fails,       \* consecutiveLlmProviderFailures
  tripped,     \* llmBreakerTripped
  updated,     \* result.updated
  skipped,     \* result.skipped
  row,         \* the status of the target's row in the job
  saved,       \* targets whose patch the job committed
  lease        \* the job is running and its token is still this run's

fanVars == <<run, chunk, block, todo, hands>>
writeVars == <<said, chain, pending>>
countVars == <<completed, fails, tripped, updated, skipped>>
tableVars == <<row, saved, lease>>
vars == <<run, chunk, block, todo, hands, at, said, chain, pending,
          completed, fails, tripped, updated, skipped, row, saved, lease>>

-----------------------------------------------------------------------------
\* A callback is in its try body before ("work") or after ("busy") a running
\* event, awaits that event ("mark"), has persisted a patch ("kept") or only
\* consumed its checkpoints ("spent"), awaits its outcome ("tell") or that of
\* failBrand ("give"), is past the try body ("post"), or has thrown ("dead").
InTry == {"work", "busy"}
Awaiting == {"mark", "tell", "give"}
Stages == {"out", "kept", "spent", "post", "dead"} \cup InTry \cup Awaiting

Open == {"pending", "running"}
Outcomes == {"succeeded", "failed", "skipped", "noop", "nochannel"}

TypeOK ==
  /\ run \in {"going", "threw", "returned", "broke"}
  /\ chunk \in DOMAIN Chunks
  /\ block \in 0..Len(Order) + 1
  /\ todo \in SUBSET Chunks[chunk]
  /\ hands \in 0..Concurrency
  /\ at \in [Targets -> Stages]
  /\ said \in [Targets -> Outcomes \cup {"running"}]
  /\ chain \in Seq(Targets)
  /\ pending \in SUBSET Targets
  /\ completed \in SUBSET Targets
  /\ fails \in Nat
  /\ tripped \in BOOLEAN
  /\ updated \in Nat
  /\ skipped \in Nat
  /\ row \in [Targets -> Open \cup Outcomes]
  /\ saved \in SUBSET Targets
  /\ lease \in BOOLEAN

Init ==
  /\ run = "going"
  /\ chunk = 1
  /\ block = 0
  /\ todo = Chunks[1]
  /\ hands = Concurrency
  /\ at = [t \in Targets |-> "out"]
  /\ said = [t \in Targets |-> "running"]
  /\ chain = <<>>
  /\ pending = {}
  /\ completed = {}
  /\ fails = 0
  /\ tripped = FALSE
  /\ updated = 0
  /\ skipped = 0
  /\ row = [t \in Targets |-> "pending"]
  /\ saved = {}
  /\ lease = TRUE

\* The block at hand; "init" and "flush" are the steps around runBlocks.
Block == IF block = 0 THEN "init"
         ELSE IF block <= Len(Order) THEN Order[block] ELSE "flush"

InFlight == {t \in Targets : at[t] # "out"}
Stage(t, stage) == at' = [at EXCEPT ![t] = stage]

\* Every callback of the fan-out has resolved.
Drained == run = "going" /\ todo = {} /\ InFlight = {}

\* hooks.isTargetTerminated
Terminated(t) == t \in completed \/ tripped

-----------------------------------------------------------------------------
(* The reports of a callback: an event joins the chain, the callback waits *)

\* emitTargetProgress with status running, from markCurrentPhase and others.
\* Bound: a callback reports running once before its outcome.
MarkCurrentPhase(t) ==
  /\ at[t] = "work"
  /\ ~(DryRun /\ Block = "persist")
  /\ Stage(t, "mark")
  /\ said' = [said EXCEPT ![t] = "running"]
  /\ chain' = Append(chain, t)
  /\ UNCHANGED <<fanVars, pending, countVars, tableVars>>

\* Mutant: recordOutcome does not mark the target completed.
RecordOutcomeOpen(t, outcome, stage) ==
  /\ Stage(t, stage)
  /\ said' = [said EXCEPT ![t] = outcome]
  /\ chain' = Append(chain, t)
  /\ fails' = IF outcome = "succeeded" THEN 0 ELSE fails
  /\ UNCHANGED <<fanVars, pending, completed, tripped, updated, skipped, tableVars>>

\* Mutant: a success takes back that the breaker has tripped.
RecordOutcomeReset(t, outcome, stage) ==
  /\ Stage(t, stage)
  /\ completed' = completed \cup {t}
  /\ said' = [said EXCEPT ![t] = outcome]
  /\ chain' = Append(chain, t)
  /\ fails' = IF outcome = "succeeded" THEN 0 ELSE fails
  /\ tripped' = (tripped /\ outcome # "succeeded")
  /\ UNCHANGED <<fanVars, pending, updated, skipped, tableVars>>

\* recordOutcome, up to its await
RecordOutcome(t, outcome, stage) ==
  /\ Stage(t, stage)
  /\ completed' = completed \cup {t}
  /\ said' = [said EXCEPT ![t] = outcome]
  /\ chain' = Append(chain, t)
  /\ fails' = IF outcome = "succeeded" THEN 0 ELSE fails
  /\ UNCHANGED <<fanVars, pending, tripped, updated, skipped, tableVars>>

\* failBrand, up to the await of recordOutcome
FailBrand(t, llm) ==
  LET n == IF llm THEN fails + 1 ELSE fails IN
  /\ fails' = n
  /\ tripped' = (tripped \/ (llm /\ n >= BreakerLimit))
  /\ Stage(t, "give")
  /\ completed' = completed \cup {t}
  /\ said' = [said EXCEPT ![t] = "failed"]
  /\ UNCHANGED <<fanVars, updated, skipped, tableVars>>

-----------------------------------------------------------------------------
(* mapWithConcurrency over the targets of a block *)

\* Mutant: a callback does not look at the breaker before it starts.
PickAny(t) ==
  /\ run \in {"going", "threw"}
  /\ t \in todo
  /\ Cardinality(InFlight) < hands
  /\ todo' = todo \ {t}
  /\ at' = [at EXCEPT ![t] = IF t \in completed THEN "out" ELSE "work"]
  /\ UNCHANGED <<run, chunk, block, hands, writeVars, countVars, tableVars>>

\* A worker takes the next item, also after a sibling made the call throw.  A
\* callback of a brand block, or of initializeContext, returns at once if its
\* target is terminated; those of a chunk block were chosen before runBatch.
Pick(t) ==
  /\ run \in {"going", "threw"}
  /\ t \in todo
  /\ Cardinality(InFlight) < hands
  /\ todo' = todo \ {t}
  /\ Stage(t, IF Block \notin ChunkBlocks /\ Terminated(t) THEN "out" ELSE "work")
  /\ UNCHANGED <<run, chunk, block, hands, writeVars, countVars, tableVars>>

\* The try body has nothing to report: the phases were satisfied, or left a
\* patch for persist.  Only persist gives every target an outcome.
BodyDone(t) ==
  /\ at[t] \in InTry
  /\ Block \notin {"init", "persist"}
  /\ Stage(t, "post")
  /\ UNCHANGED <<fanVars, writeVars, countVars, tableVars>>

\* Detection classified the entry as not a brand.
SkipNonBrand(t) ==
  /\ Block = "detect"
  /\ at[t] = "busy"
  /\ RecordOutcome(t, "skipped", "tell")

\* The brand has no purchase channel, which may be conclusive or not.
SkipNoChannel(t) ==
  /\ Block = "acquire"
  /\ at[t] = "work"
  /\ \E outcome \in {"skipped", "nochannel"} : RecordOutcome(t, outcome, "tell")

\* Gate B: nothing downstream can consume.
SkipNoInputs(t) ==
  /\ Block = "acquire"
  /\ at[t] = "busy"
  /\ RecordOutcome(t, "skipped", "tell")

\* The listing verdict rejects the submission.
SkipListing(t) ==
  /\ Block = "editorial"
  /\ at[t] = "busy"
  /\ RecordOutcome(t, "skipped", "tell")

\* Gate C, enforcePostPhaseGates: every LLM phase failed at the provider.  It is
\* called by Gate B and by persist, and its message alone feeds the breaker.
LlmOutage(t) ==
  /\ \/ Block = "acquire" /\ at[t] = "busy"
     \/ Block = "persist" /\ at[t] = "work"
  /\ FailBrand(t, TRUE)
  /\ chain' = Append(chain, t)
  /\ UNCHANGED pending

\* Any other error that the catch of a block hands to failBrand, or the
\* inputError of shouldSkip.
BodyFails(t) ==
  /\ Block # "init"
  /\ at[t] \in InTry \cup {"spent"}
  /\ FailBrand(t, FALSE)
  /\ chain' = Append(chain, t)
  /\ UNCHANGED pending

\* The callback resolves.
CallbackDone(t) ==
  /\ at[t] = "post"
  /\ Stage(t, "out")
  /\ UNCHANGED <<fanVars, writeVars, countVars, tableVars>>

\* The callback rejects, by failBrand or in applyResult, and its worker with it:
\* the call throws, the other workers go on.
CallbackThrows(t) ==
  /\ \/ at[t] = "dead"
     \/ at[t] = "post" /\ Block \in (BrandBlocks \ {"persist"})
  /\ Stage(t, "out")
  /\ hands' = hands - 1
  /\ run' = "threw"
  /\ UNCHANGED <<chunk, block, todo, writeVars, countVars, tableVars>>

-----------------------------------------------------------------------------
(* The persist block *)

\* apply_submission_enrichment_result accepts the patch, or with an empty patch
\* consumes the checkpoints.
Persist(t) ==
  /\ Block = "persist"
  /\ at[t] \in InTry
  /\ ~DryRun
  /\ lease
  /\ saved' = saved \cup {t}
  /\ Stage(t, IF at[t] = "busy" THEN "kept" ELSE "spent")
  /\ UNCHANGED <<fanVars, writeVars, countVars, row, lease>>

Succeed(t) ==
  /\ Block = "persist"
  /\ at[t] = IF DryRun THEN "work" ELSE "kept"
  /\ RecordOutcome(t, "succeeded", "tell")

\* An empty patch.  A no-op had no checkpoints to consume.
PersistSkips(t) ==
  /\ Block = "persist"
  /\ \/ at[t] \in {"work", "spent"} /\ RecordOutcome(t, "skipped", "tell")
     \/ at[t] = "work" /\ RecordOutcome(t, "noop", "tell")

\* The patch was refused, or its answer was lost.
PersistFails(t) ==
  /\ Block = "persist"
  /\ at[t] \in {"busy", "kept"}
  /\ RecordOutcome(t, "failed", "tell")

-----------------------------------------------------------------------------
(* serializeTargetProgressBatch: the head of the chain writes *)

\* update_curation_job_targets_progress commits the events of T.
Commit(T, st) ==
  /\ lease
  /\ row' = [t \in Targets |-> IF t \in T THEN st ELSE row[t]]

\* The write resolved: the callback goes on after its await.
Resolve(t) ==
  /\ chain' = Tail(chain)
  /\ \/ /\ at[t] = "mark"
        /\ Stage(t, IF Block = "init" THEN "out" ELSE "busy")
        /\ UNCHANGED <<updated, skipped>>
     \/ /\ at[t] \in {"tell", "give"}
        /\ Stage(t, "post")
        /\ updated' = IF said[t] = "succeeded" THEN updated + 1 ELSE updated
        /\ skipped' = IF said[t] = "succeeded" THEN skipped ELSE skipped + 1
  /\ UNCHANGED <<fanVars, said, completed, fails, tripped, saved, lease>>

\* Mutant: after a write that failed, the chain runs no other write.
RejectStuck(t) ==
  \/ /\ at[t] \in {"mark", "tell"}
     /\ Block # "init"
     /\ FailBrand(t, FALSE)
     /\ UNCHANGED chain
  \/ /\ at[t] = "give" \/ Block = "init"
     /\ Stage(t, "dead")
     /\ UNCHANGED <<fanVars, said, chain, countVars, tableVars>>

\* Mutant: the error of an outcome's report is swallowed.
RejectSwallowed(t) ==
  /\ Stage(t, IF Block = "init" THEN "out" ELSE "post")
  /\ chain' = Tail(chain)
  /\ UNCHANGED <<fanVars, said, countVars, tableVars>>

\* The write rejected: into failBrand from the try body, out of the callback
\* from failBrand or from initializeContext.  The chain goes on either way.
Reject(t) ==
  \/ /\ at[t] \in {"mark", "tell"}
     /\ Block # "init"
     /\ FailBrand(t, FALSE)
     /\ chain' = Append(Tail(chain), t)
  \/ /\ at[t] = "give" \/ Block = "init"
     /\ Stage(t, "dead")
     /\ chain' = Tail(chain)
     /\ UNCHANGED <<fanVars, said, countVars, tableVars>>

\* Mutant: a terminal event does not force out the events queued before it.
WriteOutcomeFirst ==
  /\ chain # <<>>
  /\ LET t == Head(chain) IN
       /\ said[t] # "running"
       /\ \/ Commit({t}, said[t]) /\ Resolve(t)
          \/ Reject(t)
  /\ UNCHANGED pending

\* emitTargetProgressBatch, its second statement
WriteOutcome ==
  /\ chain # <<>>
  /\ pending = {}
  /\ LET t == Head(chain) IN
       /\ said[t] # "running"
       /\ \/ Commit({t}, said[t]) /\ Resolve(t)
          \/ Reject(t)
  /\ UNCHANGED pending

\* emitTargetProgressBatch, its first statement: flushTargetProgress(true)
FlushBeforeOutcome ==
  /\ chain # <<>>
  /\ pending # {}
  /\ pending' = {}
  /\ LET t == Head(chain) IN
       /\ said[t] # "running"
       /\ \/ /\ Commit(pending, "running")
             /\ UNCHANGED <<fanVars, at, said, chain, countVars, saved, lease>>
          \/ Reject(t)

\* queueTargetProgress: the event is kept for later, or all of them are sent.
WriteRunning ==
  /\ chain # <<>>
  /\ LET t == Head(chain) IN
       /\ said[t] = "running"
       /\ \/ /\ pending' = pending \cup {t}
             /\ Resolve(t)
             /\ UNCHANGED row
          \/ /\ pending' = {}
             /\ Commit(pending \cup {t}, "running")
             /\ Resolve(t)
          \/ /\ pending' = {}
             /\ Reject(t)

-----------------------------------------------------------------------------
(* runBlocks and the loop over the chunks *)

\* The targets a block may run on.
Remaining == {t \in Chunks[chunk] : ~Terminated(t)}

NextIs(name) == block < Len(Order) /\ Order[block + 1] = name

\* Mutant: one block too many.
StartBlockPast(T) ==
  /\ Drained
  /\ block <= Len(Order) + 1
  /\ block' = block + 1
  /\ todo' = T
  /\ hands' = Concurrency
  /\ UNCHANGED <<run, chunk, at, said, chain, countVars, saved, lease>>

StartBlock(T) ==
  /\ Drained
  /\ block <= Len(Order)
  /\ block' = block + 1
  /\ todo' = T
  /\ hands' = Concurrency
  /\ UNCHANGED <<run, chunk, at, said, chain, countVars, saved, lease>>

\* The block loop of runBlocks.  Targets whose phases of the block are satisfied
\* leave their callback by BodyDone; detect is left out if all of them are.
NextBlock ==
  /\ StartBlock(IF block = Len(Order) \/ NextIs("detect") THEN {} ELSE Remaining)
  /\ UNCHANGED <<pending, row>>

\* emitBatchPhaseProgress announces detect for the targets it will run on.
StartDetect ==
  /\ NextIs("detect")
  /\ \E T \in SUBSET Remaining \ {{}} :
       /\ StartBlock(T)
       /\ Commit(pending \cup T, "running")
  /\ pending' = {}

\* Between two fan-outs the call itself may throw: the announcement of detect, a
\* batch of LLM calls, the outputs of a chunk block, the last flush.
CallThrows ==
  /\ Drained
  /\ run' = "threw"
  /\ UNCHANGED <<chunk, block, todo, hands, at, writeVars, countVars, tableVars>>

\* Mutant: the events stay in the queue when they are sent.
FinalFlushKeeps ==
  /\ Drained
  /\ Block = "flush"
  /\ pending # {}
  /\ Commit(pending, "running")
  /\ UNCHANGED <<fanVars, at, writeVars, countVars, saved, lease>>

\* flushTargetProgress(true) after runBlocks
FinalFlush ==
  /\ Drained
  /\ Block = "flush"
  /\ pending # {}
  /\ Commit(pending, "running")
  /\ pending' = {}
  /\ UNCHANGED <<fanVars, at, said, chain, countVars, saved, lease>>

\* A statement commits, but its answer is lost: what follows is the rejection.
Unanswered ==
  /\ \/ /\ chain # <<>>
        /\ LET t == Head(chain) IN
             \/ said[t] = "running" /\ Commit(pending \cup {t}, "running")
             \/ said[t] # "running" /\ pending # {} /\ Commit(pending, "running")
             \/ said[t] # "running" /\ pending = {} /\ Commit({t}, said[t])
     \/ /\ Drained
        /\ NextIs("detect")
        /\ \E T \in SUBSET Remaining : Commit(pending \cup T, "running")
     \/ Drained /\ Block = "flush" /\ Commit(pending, "running")
  /\ UNCHANGED <<fanVars, at, writeVars, countVars, saved, lease>>

\* The end of a chunk: the breaker throws, the next chunk starts, or the call
\* returns.
ChunkDone ==
  /\ Drained
  /\ Block = "flush"
  /\ pending = {}
  /\ \/ /\ tripped
        /\ run' = "broke"
        /\ UNCHANGED <<chunk, block, todo, hands>>
     \/ /\ ~tripped
        /\ chunk < Len(Chunks)
        /\ chunk' = chunk + 1
        /\ block' = 0
        /\ todo' = Chunks[chunk + 1]
        /\ hands' = Concurrency
        /\ UNCHANGED run
     \/ /\ ~tripped
        /\ chunk = Len(Chunks)
        /\ run' = "returned"
        /\ UNCHANGED <<chunk, block, todo, hands>>
  /\ UNCHANGED <<at, writeVars, countVars, tableVars>>

\* The job is cancelled, by an admin, the hard cap or stale-job recovery.
LoseLease ==
  /\ lease
  /\ lease' = FALSE
  /\ UNCHANGED <<fanVars, at, writeVars, countVars, row, saved>>

-----------------------------------------------------------------------------
\* What a callback goes on to do, sooner or later.
GoOn(t) ==
  \/ MarkCurrentPhase(t) \/ BodyDone(t) \/ LlmOutage(t) \/ BodyFails(t)
  \/ SkipNonBrand(t) \/ SkipNoChannel(t) \/ SkipNoInputs(t) \/ SkipListing(t)
  \/ Succeed(t) \/ PersistSkips(t) \/ PersistFails(t)
  \/ CallbackDone(t) \/ CallbackThrows(t)

Write == WriteOutcome \/ FlushBeforeOutcome \/ WriteRunning

MainStep == NextBlock \/ FinalFlush \/ ChunkDone

Next ==
  \/ \E t \in Targets :
       Pick(t) \/ Persist(t) \/ GoOn(t)
  \/ Write
  \/ Unanswered
  \/ MainStep
  \/ StartDetect
  \/ CallThrows
  \/ LoseLease

Spec == Init /\ [][Next]_vars

\* The providers, the browser and the database calls have time limits, so a
\* callback, a write and the loop itself always go on; a worker takes its next
\* target; a flush without the lease throws.  That the call throws otherwise,
\* that a patch is accepted or that the lease ends need not happen.
Fairness ==
  /\ \A t \in Targets : WF_vars(Pick(t)) /\ WF_vars(GoOn(t))
  /\ WF_vars(Write)
  /\ WF_vars(MainStep \/ StartDetect)
  /\ WF_vars(~lease /\ pending # {} /\ Block = "flush" /\ CallThrows)

FairSpec == Spec /\ Fairness

-----------------------------------------------------------------------------
(* What is always true *)

\* The comment on the breaker: the trip can overshoot by the targets in flight,
\* "roughly 5" with three workers and a limit of three, and by no more.
Overshoot == fails <= BreakerLimit + Concurrency - 1

\* When the call returns, or ends by the breaker, what it remembers agrees with
\* the table: the targets it takes for done are those with an outcome, each
\* counted once, whatever answers were lost on the way.
SummaryAgrees ==
  run \in {"returned", "broke"} =>
    /\ completed = {t \in Targets : row[t] \in Outcomes}
    /\ updated = Cardinality({t \in Targets : row[t] = "succeeded"})
    /\ updated + skipped = Cardinality(completed)

-----------------------------------------------------------------------------
(* What must eventually happen *)

\* A callback that has started ends, although others fail, reject or throw
\* around it: no write waits for ever in the chain.
CallbacksEnd == \A t \in Targets : at[t] # "out" ~> at[t] = "out"

\* The run ends.
RunEnds == <>(run # "going")

\* Once the breaker has tripped the run does not return normally.
TripEndsRun == tripped ~> run \in {"broke", "threw"}

-----------------------------------------------------------------------------
(* The run as the job runner sees it *)

Report == INSTANCE RunReports WITH
  Target <- Targets, Dry <- DryRun, Limit <- BreakerLimit,
  report <- row, result <- saved, leased <- lease, outcome <- run

\* Whatever the interleaving of its callbacks, the run reports and commits as
\* the job runner relies on: no target runs again after its outcome, a success
\* comes after its result, a return after every outcome, and the breaker after
\* enough failed targets, when none is between its result and its outcome.
ImplementsReports == Report!RunSpec
=============================================================================
