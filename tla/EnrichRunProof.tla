--------------------------- MODULE EnrichRunProof ---------------------------
(***************************************************************************)
(* For any number of targets, chunks, blocks and callbacks at once: the    *)
(* breaker overshoots by no more than the callbacks in flight, what the    *)
(* run counts agrees with the table, and the run is one that RunReports    *)
(* describes.                                                              *)
(***************************************************************************)
EXTENDS EnrichRun, FiniteSetTheorems, TLAPS

-----------------------------------------------------------------------------
(* The inductive invariant *)

Telling == {"tell", "give"}
Trying == InTry \cup {"mark"}
Result == {"kept", "spent"}

\* Targets whose callback may still fail at the provider.
Could == {t \in Targets : at[t] \in Trying}

Failed == {t \in Targets : said[t] = "failed"}
Succeeded == {t \in Targets : said[t] = "succeeded"}

\* Targets whose outcome was written, and counted.
Counted == {t \in completed : at[t] \notin Telling \cup {"dead"}}

\* No more callbacks than workers that live, each for a target of this chunk
\* that was taken; what has an outcome is not taken again.
Fan ==
  /\ Cardinality(InFlight) <= hands
  /\ \A t \in InFlight : t \in Chunks[chunk] /\ t \notin todo
  /\ todo \cap completed = {}
  /\ \A i \in DOMAIN Chunks : i > chunk => Chunks[i] \cap completed = {}
  /\ run \in {"returned", "broke"} => InFlight = {}

\* A callback waits in the chain at most once.
Line ==
  /\ \A i \in 1..Len(chain) : at[chain[i]] \in Awaiting
  /\ \A i, k \in 1..Len(chain) : i # k => chain[i] # chain[k]

\* Where a callback is, and whether its target has an outcome.
Course(t) ==
  /\ said[t] = "running" <=> t \notin completed
  /\ at[t] \in Trying \cup Result => t \notin completed
  /\ at[t] \in Telling => t \in completed
  /\ at[t] = "give" => said[t] = "failed"
  /\ at[t] = "kept" => t \in saved
  /\ at[t] = "post" /\ Block = "persist" => t \in completed

\* The row follows the outcome: it stays open until the outcome is written,
\* and no running event of a target with an outcome is left to be sent.
RowKept(t) ==
  /\ t \notin completed => row[t] \in Open
  /\ t \in pending => row[t] \in Open
  /\ at[t] = "tell" => row[t] \in Open \cup {said[t]}
  /\ run # "threw" /\ t \in Counted => row[t] = said[t]

\* A result comes before its outcome, and the outcome agrees with it.
ResultKept(t) ==
  /\ t \in saved => t \in completed \/ at[t] \in Result
  /\ said[t] = "succeeded" => t \in saved \/ DryRun
  /\ said[t] \in {"noop", "nochannel"} => t \notin saved

\* After the trip each further failure uses up a callback that was in flight.
Breaker ==
  /\ ~tripped => fails < BreakerLimit
  /\ fails <= BreakerLimit + Concurrency - 1
  /\ tripped /\ Block \in BrandBlocks =>
       fails + Cardinality(Could) <= BreakerLimit + Concurrency - 1
  /\ fails <= Cardinality(Failed)
  /\ tripped => BreakerLimit <= Cardinality(Failed)

Sums ==
  run # "threw" =>
    /\ updated = Cardinality(Counted \cap Succeeded)
    /\ updated + skipped = Cardinality(Counted)

\* Only persist gives every target an outcome; a chunk ends after it.
Covered ==
  run # "threw" /\ ~tripped =>
    /\ \A i \in DOMAIN Chunks : i < chunk => Chunks[i] \subseteq completed
    /\ Block = "persist" =>
         \A t \in Chunks[chunk] : t \in todo \/ t \in InFlight \/ t \in completed
    /\ Block = "flush" => Chunks[chunk] \subseteq completed
    /\ run = "returned" => Block = "flush" /\ chunk = Len(Chunks)

Inv ==
  /\ TypeOK /\ Fan /\ Line
  /\ \A t \in Targets : Course(t) /\ RowKept(t) /\ ResultKept(t)
  /\ Breaker /\ Sums /\ Covered

-----------------------------------------------------------------------------
(* Steps by their effect *)

\* A callback records the outcome of its target.
Records(t, o) ==
  /\ at[t] \in InTry \cup Result
  /\ o \in Outcomes
  /\ o = "succeeded" => t \in saved \/ DryRun
  /\ o \in {"noop", "nochannel"} => t \notin saved
  /\ RecordOutcome(t, o, "tell")

\* A callback goes to failBrand, from its try body or from a write of its own.
Fails(t, llm) ==
  /\ at[t] \in Trying \cup {"spent", "tell"}
  /\ llm => at[t] \in InTry /\ Block \in BrandBlocks
  /\ FailBrand(t, llm)
  /\ \/ at[t] \notin Awaiting /\ chain' = Append(chain, t)
     \/ chain # <<>> /\ t = Head(chain) /\ chain' = Append(Tail(chain), t)
  /\ pending' = pending \/ pending' = {}

\* A write rejects out of the callback.
Dies(t) ==
  /\ chain # <<>> /\ t = Head(chain)
  /\ Stage(t, "dead")
  /\ chain' = Tail(chain)
  /\ pending' = pending \/ pending' = {}
  /\ UNCHANGED <<fanVars, said, countVars, tableVars>>

\* A write of a running event resolves: it is kept for later, or all are sent.
Marked(t) ==
  /\ chain # <<>> /\ t = Head(chain)
  /\ at[t] = "mark"
  /\ chain' = Tail(chain)
  /\ Stage(t, IF Block = "init" THEN "out" ELSE "busy")
  /\ \/ pending' = pending \cup {t} /\ row' = row
     \/ pending' = {} /\ Commit(pending \cup {t}, "running")
  /\ UNCHANGED <<fanVars, said, countVars, saved, lease>>

\* The write of an outcome resolves.
Answered(t) ==
  /\ chain # <<>> /\ t = Head(chain)
  /\ at[t] \in Telling
  /\ pending = {} /\ pending' = {}
  /\ Commit({t}, said[t])
  /\ chain' = Tail(chain)
  /\ Stage(t, "post")
  /\ updated' = IF said[t] = "succeeded" THEN updated + 1 ELSE updated
  /\ skipped' = IF said[t] = "succeeded" THEN skipped ELSE skipped + 1
  /\ UNCHANGED <<fanVars, said, completed, fails, tripped, saved, lease>>

\* Rows are shown as running, all of them of targets still open.
Shows(T) ==
  /\ T \in SUBSET Targets
  /\ \A t \in T : row[t] \in Open
  /\ run \in {"going", "threw"}
  /\ Commit(T, "running")
  /\ pending' = pending \/ pending' = {}
  /\ UNCHANGED <<fanVars, at, said, chain, countVars, saved, lease>>

\* An outcome is written, but its answer is lost.
Lost(t) ==
  /\ chain # <<>> /\ t = Head(chain)
  /\ at[t] \in Telling
  /\ pending = {}
  /\ Commit({t}, said[t])
  /\ UNCHANGED <<fanVars, at, writeVars, countVars, saved, lease>>

\* The next block opens for targets without an outcome; persist for all of them.
Opens(T) ==
  /\ T \in SUBSET Remaining
  /\ block + 1 = Len(Order) => T = Remaining
  /\ block = Len(Order) => T = {}
  /\ StartBlock(T)
  /\ \/ pending' = pending /\ row' = row
     \/ pending' = {} /\ Commit(pending \cup T, "running")

Turns ==
  /\ Drained
  /\ Block = "flush"
  /\ ~tripped
  /\ chunk < Len(Chunks)
  /\ chunk' = chunk + 1
  /\ block' = 0
  /\ todo' = Chunks[chunk + 1]
  /\ hands' = Concurrency
  /\ UNCHANGED <<run, at, writeVars, countVars, tableVars>>

\* The call ends.
Stops ==
  /\ Drained
  /\ \/ run' = "threw"
     \/ Block = "flush" /\ tripped /\ run' = "broke"
     \/ Block = "flush" /\ ~tripped /\ chunk = Len(Chunks) /\ run' = "returned"
  /\ UNCHANGED <<chunk, block, todo, hands, at, writeVars, countVars, tableVars>>

\* What one callback does on its own.
Moves(t) ==
  \/ Pick(t) \/ MarkCurrentPhase(t) \/ BodyDone(t) \/ Persist(t)
  \/ CallbackDone(t) \/ CallbackThrows(t)
  \/ \E o \in Outcomes : Records(t, o)
  \/ \E llm \in BOOLEAN : Fails(t, llm)
  \/ Dies(t) \/ Marked(t) \/ Answered(t) \/ Lost(t)

Runs ==
  \/ \E T \in SUBSET Targets : Shows(T) \/ Opens(T)
  \/ Turns \/ Stops \/ LoseLease

-----------------------------------------------------------------------------
(* The parameters *)

LEMMA OrderFacts ==
  /\ Len(Order) \in Nat \ {0}
  /\ \A i \in 1..Len(Order) : /\ Order[i] \in ChunkBlocks \cup BrandBlocks
                              /\ Order[i] = "persist" <=> i = Len(Order)
BY EnrichAssumption

LEMMA ChunkFacts ==
  /\ Len(Chunks) \in Nat \ {0}
  /\ DOMAIN Chunks = 1..Len(Chunks)
  /\ \A i \in DOMAIN Chunks : Chunks[i] \in SUBSET Targets
  /\ \A t \in Targets : \E i \in DOMAIN Chunks : t \in Chunks[i]
  /\ \A i, k \in DOMAIN Chunks : i # k => Chunks[i] \cap Chunks[k] = {}
BY EnrichAssumption

LEMMA BlockFacts ==
  ASSUME block \in 0..Len(Order) + 1
  PROVE  /\ Block = "init" <=> block = 0
         /\ Block = "persist" <=> block = Len(Order)
         /\ Block = "flush" <=> block = Len(Order) + 1
         /\ Block \in ChunkBlocks \cup BrandBlocks \cup {"init", "flush"}
BY OrderFacts DEF Block, ChunkBlocks, BrandBlocks

\* The head of the chain waits for its write.
LEMMA HeadFacts ==
  ASSUME Inv, chain # <<>>
  PROVE  /\ Head(chain) \in Targets
         /\ at[Head(chain)] \in Awaiting
         /\ said[Head(chain)] = "running" => at[Head(chain)] = "mark"
         /\ said[Head(chain)] # "running" => at[Head(chain)] \in Telling
<1>1. chain \in Seq(Targets)
  BY DEF Inv, TypeOK
<1>2. Head(chain) \in Targets /\ 1 \in 1..Len(chain) /\ Head(chain) = chain[1]
  BY <1>1
<1>3. at[Head(chain)] \in Awaiting
  BY <1>2 DEF Inv, Line
<1> QED
  BY <1>2, <1>3 DEF Inv, Course, Awaiting, Telling, Trying

LEMMA Finite ==
  ASSUME NEW S \in SUBSET Targets
  PROVE  IsFiniteSet(S) /\ Cardinality(S) \in Nat
BY EnrichAssumption, FS_Subset, FS_CardinalityType

LEMMA Adds ==
  ASSUME NEW S \in SUBSET Targets, NEW t \in Targets, t \notin S
  PROVE  Cardinality(S \cup {t}) = Cardinality(S) + 1
BY Finite, FS_AddElement

LEMMA Removes ==
  ASSUME NEW S \in SUBSET Targets, NEW t \in S
  PROVE  /\ Cardinality(S \ {t}) = Cardinality(S) - 1
         /\ Cardinality(S) \in Nat \ {0}
<1>1. IsFiniteSet(S) /\ Cardinality(S) \in Nat
  BY Finite
<1>2. Cardinality(S) # 0
  BY <1>1, FS_EmptySet
<1> QED
  BY <1>1, <1>2, FS_RemoveElement

LEMMA Fewer ==
  ASSUME NEW S \in SUBSET Targets, NEW T \in SUBSET S
  PROVE  Cardinality(T) <= Cardinality(S)
BY Finite, FS_Subset

-----------------------------------------------------------------------------
(* Every step is one of these effects *)

LEMMA RecordMoves ==
  ASSUME Inv, NEW t \in Targets,
         \/ SkipNonBrand(t) \/ SkipNoChannel(t) \/ SkipNoInputs(t) \/ SkipListing(t)
         \/ Succeed(t) \/ PersistSkips(t) \/ PersistFails(t)
  PROVE  \E o \in Outcomes : Records(t, o)
<1> USE DEF Outcomes
<1>1. Course(t) /\ ResultKept(t)
  BY DEF Inv
<1>2. CASE SkipNonBrand(t)
  BY <1>2 DEF SkipNonBrand, Records, InTry
<1>3. CASE SkipNoChannel(t)
  <2>1. at[t] = "work" /\ t \notin saved
    BY <1>1, <1>3 DEF SkipNoChannel, Course, ResultKept, InTry, Trying, Result
  <2> QED
    BY <1>3, <2>1 DEF SkipNoChannel, Records, InTry
<1>4. CASE SkipNoInputs(t)
  BY <1>4 DEF SkipNoInputs, Records, InTry
<1>5. CASE SkipListing(t)
  BY <1>5 DEF SkipListing, Records, InTry
<1>6. CASE Succeed(t)
  <2>1. at[t] \in InTry \cup Result /\ (t \in saved \/ DryRun)
    BY <1>1, <1>6, EnrichAssumption DEF Succeed, Course, InTry, Result
  <2> QED
    BY <1>6, <2>1 DEF Succeed, Records
<1>7. CASE PersistSkips(t)
  <2>1. at[t] = "work" => t \notin saved
    BY <1>1 DEF Course, ResultKept, InTry, Trying, Result
  <2> QED
    BY <1>7, <2>1 DEF PersistSkips, Records, InTry, Result
<1>8. CASE PersistFails(t)
  BY <1>8 DEF PersistFails, Records, InTry, Result
<1> QED
  BY <1>2, <1>3, <1>4, <1>5, <1>6, <1>7, <1>8

LEMMA RejectMoves ==
  ASSUME Inv, chain # <<>>, NEW t, t = Head(chain), Reject(t),
         pending' = pending \/ pending' = {}
  PROVE  Moves(t)
<1>1. CASE /\ at[t] \in {"mark", "tell"}
           /\ FailBrand(t, FALSE)
           /\ chain' = Append(Tail(chain), t)
  BY <1>1 DEF Moves, Fails, Trying
<1>2. CASE /\ Stage(t, "dead")
           /\ chain' = Tail(chain)
           /\ UNCHANGED <<fanVars, said, countVars, tableVars>>
  BY <1>2 DEF Moves, Dies
<1> QED
  BY <1>1, <1>2 DEF Reject

LEMMA GoOnMoves ==
  ASSUME Inv, NEW t \in Targets, GoOn(t)
  PROVE  Moves(t)
<1>1. CASE LlmOutage(t)
  BY <1>1 DEF LlmOutage, Moves, Fails, InTry, Trying, Awaiting, BrandBlocks
<1>2. CASE BodyFails(t)
  BY <1>2 DEF BodyFails, Moves, Fails, InTry, Trying, Awaiting
<1> QED
  BY <1>1, <1>2, RecordMoves DEF GoOn, Moves

LEMMA WriteMoves ==
  ASSUME Inv, Write
  PROVE  (\E t \in Targets : Moves(t)) \/ Runs
<1>0. PICK t \in Targets : chain # <<>> /\ t = Head(chain)
  BY HeadFacts DEF Write, WriteOutcome, FlushBeforeOutcome, WriteRunning
<1>1. CASE WriteOutcome
  <2>1. /\ pending = {} /\ pending' = pending
        /\ at[t] \in Telling /\ at[t] # "mark"
        /\ \/ Commit({t}, said[t]) /\ Resolve(t)
           \/ Reject(t)
    BY <1>0, <1>1, HeadFacts DEF WriteOutcome, Telling
  <2>2. CASE Commit({t}, said[t]) /\ Resolve(t)
    BY <1>0, <2>1, <2>2 DEF Resolve, Moves, Answered
  <2> QED
    BY <1>0, <2>1, <2>2, RejectMoves
<1>2. CASE FlushBeforeOutcome
  <2>1. CASE /\ Commit(pending, "running")
             /\ UNCHANGED <<fanVars, at, said, chain, countVars, saved, lease>>
    <3>1. pending \in SUBSET Targets /\ \A s \in pending : row[s] \in Open
      BY DEF Inv, TypeOK, RowKept
    <3>2. run \in {"going", "threw"}
      BY <1>0, HeadFacts DEF Inv, Fan, InFlight, TypeOK, Awaiting
    <3> QED
      BY <1>2, <2>1, <3>1, <3>2 DEF FlushBeforeOutcome, Runs, Shows
  <2>2. CASE Reject(t)
    BY <1>0, <1>2, <2>2, RejectMoves DEF FlushBeforeOutcome
  <2> QED
    BY <1>0, <1>2, <2>1, <2>2 DEF FlushBeforeOutcome
<1>3. CASE WriteRunning
  <2>1. at[t] = "mark" /\ at[t] \notin {"tell", "give"}
    BY <1>0, <1>3, HeadFacts DEF WriteRunning
  <2>2. CASE Reject(t) /\ pending' = {}
    BY <1>0, <2>2, RejectMoves
  <2>3. CASE pending' = pending \cup {t} /\ Resolve(t) /\ UNCHANGED row
    BY <1>0, <2>1, <2>3 DEF Resolve, Moves, Marked, countVars
  <2>4. CASE pending' = {} /\ Commit(pending \cup {t}, "running") /\ Resolve(t)
    BY <1>0, <2>1, <2>4 DEF Resolve, Moves, Marked, countVars
  <2> QED
    BY <1>0, <1>3, <2>2, <2>3, <2>4 DEF WriteRunning
<1> QED
  BY <1>1, <1>2, <1>3 DEF Write

LEMMA UnansweredMoves ==
  ASSUME Inv, Unanswered
  PROVE  (\E t \in Targets : Moves(t)) \/ Runs
<1>1. /\ pending \in SUBSET Targets
      /\ \A s \in Targets : s \in pending \/ s \notin completed => row[s] \in Open
  BY DEF Inv, TypeOK, RowKept
<1>2. UNCHANGED <<fanVars, at, writeVars, countVars, saved, lease>>
  BY DEF Unanswered
<1>3. ASSUME NEW T \in SUBSET Targets, Commit(T, "running"),
             \A s \in T : s \in pending \/ s \notin completed,
             run \in {"going", "threw"}
      PROVE  Shows(T)
  BY <1>1, <1>2, <1>3 DEF Shows, writeVars
<1>4. CASE chain # <<>>
  <2>1. PICK t \in Targets : t = Head(chain)
    BY <1>4, HeadFacts
  <2>2. run \in {"going", "threw"}
    BY <1>4, HeadFacts DEF Inv, Fan, InFlight, TypeOK, Awaiting
  <2>3. CASE said[t] = "running" /\ Commit(pending \cup {t}, "running")
    <3>1. t \notin completed
      BY <2>3 DEF Inv, Course
    <3> QED
      BY <1>1, <1>3, <2>2, <2>3, <3>1 DEF Runs
  <2>4. CASE Commit(pending, "running")
    BY <1>1, <1>3, <2>2, <2>4 DEF Runs
  <2>5. CASE said[t] # "running" /\ pending = {} /\ Commit({t}, said[t])
    BY <1>2, <1>4, <2>1, <2>5, HeadFacts DEF Lost, Moves
  <2>6. CASE Drained /\ \E T \in SUBSET Remaining : Commit(pending \cup T, "running")
    <3>1. PICK T \in SUBSET Remaining : Commit(pending \cup T, "running")
      BY <2>6
    <3>2. T \in SUBSET Targets /\ \A s \in T : s \notin completed
      BY ChunkFacts DEF Remaining, Terminated, Inv, TypeOK
    <3> QED
      BY <1>1, <1>3, <2>2, <3>1, <3>2 DEF Runs
  <2> QED
    BY <1>4, <2>1, <2>3, <2>4, <2>5, <2>6 DEF Unanswered
<1>5. CASE Drained
  <2>1. run = "going"
    BY <1>5 DEF Drained
  <2>2. CASE \E T \in SUBSET Remaining : Commit(pending \cup T, "running")
    <3>1. PICK T \in SUBSET Remaining : Commit(pending \cup T, "running")
      BY <2>2
    <3>2. T \in SUBSET Targets /\ \A s \in T : s \notin completed
      BY ChunkFacts DEF Remaining, Terminated, Inv, TypeOK
    <3> QED
      BY <1>1, <1>3, <2>1, <3>1, <3>2 DEF Runs
  <2>3. CASE Commit(pending, "running")
    BY <1>1, <1>3, <2>1, <2>3 DEF Runs
  <2> QED
    BY <1>4, <1>5, <2>2, <2>3 DEF Unanswered, Drained
<1> QED
  BY <1>4, <1>5 DEF Unanswered

LEMMA BlockMoves ==
  ASSUME Inv, NextBlock \/ StartDetect
  PROVE  Runs
<1>1. block \in Nat /\ Remaining \in SUBSET Targets
  BY ChunkFacts DEF Inv, TypeOK, Remaining
<1>2. CASE NextBlock
  <2>1. PICK T : T = IF block = Len(Order) \/ NextIs("detect") THEN {} ELSE Remaining
    OBVIOUS
  <2>2. StartBlock(T) /\ pending' = pending /\ row' = row
    BY <1>2, <2>1 DEF NextBlock
  <2>3. block + 1 = Len(Order) => ~NextIs("detect")
    BY <1>1, OrderFacts DEF NextIs
  <2>4. T \in SUBSET Remaining /\ T \in SUBSET Targets
    BY <1>1, <2>1
  <2>5. (block + 1 = Len(Order) => T = Remaining) /\ (block = Len(Order) => T = {})
    BY <1>1, <2>1, <2>3, OrderFacts
  <2> QED
    BY <2>2, <2>4, <2>5 DEF Opens, Runs
<1>3. CASE StartDetect
  <2>1. PICK T \in SUBSET Remaining : StartBlock(T) /\ Commit(pending \cup T, "running")
    BY <1>3 DEF StartDetect
  <2>2. block + 1 # Len(Order) /\ block # Len(Order)
    BY <1>1, <1>3, OrderFacts DEF StartDetect, NextIs
  <2> QED
    BY <1>1, <1>3, <2>1, <2>2 DEF StartDetect, Opens, Runs
<1> QED
  BY <1>2, <1>3

LEMMA Steps ==
  ASSUME Inv, [Next]_vars
  PROVE  (\E t \in Targets : Moves(t)) \/ Runs \/ UNCHANGED vars
<1>1. CASE FinalFlush
  <2>1. pending \in SUBSET Targets /\ \A s \in pending : row[s] \in Open
    BY DEF Inv, TypeOK, RowKept
  <2> QED
    BY <1>1, <2>1 DEF FinalFlush, Drained, Runs, Shows
<1>2. CASE ChunkDone
  BY <1>2 DEF ChunkDone, Runs, Turns, Stops
<1>3. CASE CallThrows
  BY <1>3 DEF CallThrows, Runs, Stops
<1>4. ASSUME NEW t \in Targets, Pick(t) \/ Persist(t) \/ GoOn(t)
      PROVE  Moves(t)
  BY <1>4, GoOnMoves DEF Moves
<1> QED
  BY <1>1, <1>2, <1>3, <1>4, WriteMoves, UnansweredMoves, BlockMoves
  DEF Next, MainStep, Runs

-----------------------------------------------------------------------------
(* Types *)

LEMMA CommitType ==
  ASSUME TypeOK, NEW T, NEW o \in Open \cup Outcomes, Commit(T, o)
  PROVE  row' \in [Targets -> Open \cup Outcomes]
<1>1. \A t \in Targets : row[t] \in Open \cup Outcomes
  BY DEF TypeOK
<1> QED
  BY <1>1 DEF Commit

LEMMA ChainType ==
  ASSUME TypeOK, NEW t \in Targets, chain # <<>>
  PROVE  Tail(chain) \in Seq(Targets) /\ Append(Tail(chain), t) \in Seq(Targets)
BY DEF TypeOK

\* A callback in flight has a worker.
LEMMA HasHand ==
  ASSUME Inv, NEW t \in Targets, at[t] # "out"
  PROVE  hands - 1 \in 0..Concurrency /\ Cardinality(InFlight) \in Nat
<1>1. InFlight \in SUBSET Targets /\ t \in InFlight
  BY DEF InFlight
<1>2. Cardinality(InFlight) \in Nat \ {0} /\ Cardinality(InFlight) <= hands
  BY <1>1, Removes DEF Inv, Fan
<1> QED
  BY <1>2, EnrichAssumption DEF Inv, TypeOK

LEMMA MoveType ==
  ASSUME Inv, NEW t \in Targets, Moves(t)
  PROVE  TypeOK'
<1>0. TypeOK
  BY DEF Inv
<1> DEFINE K == /\ chunk \in DOMAIN Chunks /\ block \in 0..Len(Order) + 1
                /\ todo \in SUBSET Chunks[chunk] /\ run \in {"going", "threw", "returned", "broke"}
                /\ hands \in 0..Concurrency
           A == at \in [Targets -> Stages]
           S == said \in [Targets -> Outcomes \cup {"running"}]
           C == chain \in Seq(Targets)
           P == pending \in SUBSET Targets
           N == /\ completed \in SUBSET Targets /\ fails \in Nat /\ tripped \in BOOLEAN
                /\ updated \in Nat /\ skipped \in Nat
           R == row \in [Targets -> Open \cup Outcomes]
           V == saved \in SUBSET Targets /\ lease \in BOOLEAN
<1>1. TypeOK <=> K /\ A /\ S /\ C /\ P /\ N /\ R /\ V
  BY DEF TypeOK
<1>2. TypeOK' <=> K' /\ A' /\ S' /\ C' /\ P' /\ N' /\ R' /\ V'
  BY DEF TypeOK
<1> USE DEF fanVars, writeVars, countVars, tableVars
<1>3. CASE Pick(t)
  <2>1. A'
    BY <1>0, <1>3 DEF TypeOK, Pick, Stage, Stages, InTry
  <2> QED
    BY <1>0, <1>1, <1>2, <1>3, <2>1 DEF Pick
<1>4. CASE MarkCurrentPhase(t)
  <2>1. A' /\ S' /\ C'
    BY <1>0, <1>4 DEF TypeOK, MarkCurrentPhase, Stage, Stages, Awaiting
  <2> QED
    BY <1>0, <1>1, <1>2, <1>4, <2>1 DEF MarkCurrentPhase
<1>5. CASE BodyDone(t) \/ CallbackDone(t)
  <2>1. A'
    BY <1>0, <1>5 DEF TypeOK, BodyDone, CallbackDone, Stage, Stages
  <2> QED
    BY <1>0, <1>1, <1>2, <1>5, <2>1 DEF BodyDone, CallbackDone
<1>6. CASE Persist(t)
  <2>1. A'
    BY <1>0, <1>6 DEF TypeOK, Persist, Stage, Stages
  <2> QED
    BY <1>0, <1>1, <1>2, <1>6, <2>1 DEF Persist
<1>7. CASE CallbackThrows(t)
  <2>1. A' /\ at[t] # "out"
    BY <1>0, <1>7 DEF TypeOK, CallbackThrows, Stage, Stages
  <2>2. hands' \in 0..Concurrency
    BY <1>7, <2>1, HasHand DEF CallbackThrows
  <2> QED
    BY <1>0, <1>1, <1>2, <1>7, <2>1, <2>2 DEF CallbackThrows
<1>8. ASSUME NEW o \in Outcomes, Records(t, o) PROVE TypeOK'
  <2>1. A' /\ S' /\ C'
    BY <1>0, <1>8 DEF TypeOK, Records, RecordOutcome, Stage, Stages, Awaiting
  <2>2. N'
    BY <1>0, <1>8 DEF TypeOK, Records, RecordOutcome
  <2> QED
    BY <1>0, <1>1, <1>2, <1>8, <2>1, <2>2 DEF Records, RecordOutcome
<1>9. ASSUME NEW llm \in BOOLEAN, Fails(t, llm) PROVE TypeOK'
  <2>1. A' /\ S'
    BY <1>0, <1>9 DEF TypeOK, Fails, FailBrand, Stage, Stages, Awaiting, Outcomes
  <2>2. P' /\ (chain # <<>> => Append(Tail(chain), t) \in Seq(Targets))
    BY <1>0, <1>9, ChainType DEF TypeOK, Fails
  <2>3. C'
    <3>1. chain' = Append(chain, t) \/ (chain # <<>> /\ chain' = Append(Tail(chain), t))
      BY <1>9 DEF Fails
    <3>2. Append(chain, t) \in Seq(Targets)
      BY <1>0 DEF TypeOK
    <3> QED
      BY <2>2, <3>1, <3>2
  <2>4. N'
    BY <1>0, <1>9 DEF TypeOK, Fails, FailBrand
  <2> QED
    BY <1>0, <1>1, <1>2, <1>9, <2>1, <2>2, <2>3, <2>4 DEF Fails, FailBrand
<1>10. CASE Dies(t)
  <2>1. A' /\ C' /\ P'
    BY <1>0, <1>10, ChainType DEF TypeOK, Dies, Stage, Stages
  <2> QED
    BY <1>0, <1>1, <1>2, <1>10, <2>1 DEF Dies
<1>11. CASE Marked(t)
  <2>1. A' /\ C' /\ P'
    BY <1>0, <1>11, ChainType DEF TypeOK, Marked, Stage, Stages, InTry
  <2>2. R'
    BY <1>0, <1>11, CommitType DEF TypeOK, Marked, Open
  <2> QED
    BY <1>0, <1>1, <1>2, <1>11, <2>1, <2>2 DEF Marked
<1>12. CASE Answered(t)
  <2>1. A' /\ C' /\ P'
    BY <1>0, <1>12, ChainType DEF TypeOK, Answered, Stage, Stages
  <2>2. R'
    BY <1>0, <1>12, CommitType DEF TypeOK, Answered, Open
  <2>3. N'
    BY <1>0, <1>12 DEF TypeOK, Answered
  <2> QED
    BY <1>0, <1>1, <1>2, <1>12, <2>1, <2>2, <2>3 DEF Answered
<1>13. CASE Lost(t)
  <2>1. R'
    BY <1>0, <1>13, CommitType DEF TypeOK, Lost, Open
  <2> QED
    BY <1>0, <1>1, <1>2, <1>13, <2>1 DEF Lost
<1> QED
  BY <1>3, <1>4, <1>5, <1>6, <1>7, <1>8, <1>9, <1>10, <1>11, <1>12, <1>13 DEF Moves

LEMMA RunType ==
  ASSUME Inv, Runs
  PROVE  TypeOK'
<1>0. TypeOK
  BY DEF Inv
<1> USE DEF fanVars, writeVars, countVars, tableVars
<1>1. ASSUME NEW T \in SUBSET Targets, Shows(T) PROVE TypeOK'
  <2>1. row' \in [Targets -> Open \cup Outcomes]
    BY <1>0, <1>1, CommitType DEF Shows, Open
  <2> QED
    BY <1>0, <1>1, <2>1 DEF Shows, TypeOK
<1>2. ASSUME NEW T \in SUBSET Targets, Opens(T) PROVE TypeOK'
  <2>1. row' \in [Targets -> Open \cup Outcomes]
    BY <1>0, <1>2, CommitType DEF Opens, Open, TypeOK
  <2>2. /\ block' \in 0..Len(Order) + 1 /\ chunk' = chunk
        /\ todo' \in SUBSET Chunks[chunk] /\ hands' \in 0..Concurrency
    BY <1>0, <1>2, OrderFacts, EnrichAssumption
    DEF Opens, StartBlock, TypeOK, Remaining
  <2> QED
    BY <1>0, <1>2, <2>1, <2>2 DEF Opens, StartBlock, TypeOK
<1>3. CASE Turns
  <2>1. /\ chunk' \in DOMAIN Chunks /\ block' \in 0..Len(Order) + 1
        /\ todo' \in SUBSET Chunks[chunk'] /\ hands' \in 0..Concurrency
    BY <1>0, <1>3, ChunkFacts, OrderFacts, EnrichAssumption DEF Turns, TypeOK
  <2> QED
    BY <1>0, <1>3, <2>1 DEF Turns, TypeOK
<1>4. CASE Stops
  BY <1>0, <1>4 DEF Stops, TypeOK
<1>5. CASE LoseLease
  BY <1>0, <1>5 DEF LoseLease, TypeOK
<1> QED
  BY <1>1, <1>2, <1>3, <1>4, <1>5 DEF Runs

-----------------------------------------------------------------------------
(* The fan-out and the chain *)

\* A callback takes a target, stays in flight, or ends.
Stays(t) ==
  /\ at[t] # "out" /\ at'[t] # "out"
  /\ UNCHANGED fanVars
  /\ completed' = completed \/ completed' = completed \cup {t}
Leaves(t) ==
  /\ at[t] # "out" /\ at'[t] = "out"
  /\ UNCHANGED <<chunk, block, todo, completed>>
  /\ \/ UNCHANGED <<run, hands>>
     \/ run' = "threw" /\ hands' = hands - 1

LEMMA MoveEffect ==
  ASSUME Inv, NEW t \in Targets, Moves(t)
  PROVE  /\ \A s \in Targets \ {t} : at'[s] = at[s] /\ said'[s] = said[s]
         /\ Pick(t) \/ Stays(t) \/ Leaves(t)
<1> USE DEF Stays, Leaves, countVars
<1>1. at \in [Targets -> Stages] /\ said \in [Targets -> Outcomes \cup {"running"}]
  BY DEF Inv, TypeOK
<1>2. CASE Pick(t)
  BY <1>1, <1>2 DEF Pick, Stage, writeVars
<1>3. CASE MarkCurrentPhase(t) \/ BodyDone(t) \/ Persist(t)
  BY <1>1, <1>3 DEF MarkCurrentPhase, BodyDone, Persist, Stage, InTry, writeVars
<1>4. CASE CallbackDone(t) \/ CallbackThrows(t)
  BY <1>1, <1>4 DEF CallbackDone, CallbackThrows, Stage, writeVars, fanVars
<1>5. ASSUME NEW o \in Outcomes, Records(t, o)
      PROVE  Stays(t) /\ \A s \in Targets \ {t} : at'[s] = at[s] /\ said'[s] = said[s]
  BY <1>1, <1>5 DEF Records, RecordOutcome, Stage, InTry, Result
<1>6. ASSUME NEW llm \in BOOLEAN, Fails(t, llm)
      PROVE  Stays(t) /\ \A s \in Targets \ {t} : at'[s] = at[s] /\ said'[s] = said[s]
  BY <1>1, <1>6 DEF Fails, FailBrand, Stage, Trying, InTry
<1>7. CASE Dies(t)
  BY <1>1, <1>7, HeadFacts DEF Dies, Stage, Awaiting
<1>8. CASE Marked(t)
  BY <1>1, <1>8 DEF Marked, Stage, fanVars
<1>9. CASE Answered(t) \/ Lost(t)
  BY <1>1, <1>9 DEF Answered, Lost, Stage, Telling, writeVars
<1> QED
  BY <1>2, <1>3, <1>4, <1>5, <1>6, <1>7, <1>8, <1>9 DEF Moves

\* A callback that is in flight belongs to the chunk at hand.
LEMMA InChunk ==
  ASSUME Inv, NEW t \in Targets, at[t] # "out"
  PROVE  /\ t \in InFlight /\ t \in Chunks[chunk] /\ t \notin todo
         /\ \A i \in DOMAIN Chunks : i > chunk => t \notin Chunks[i]
         /\ run \in {"going", "threw"}
<1>1. t \in InFlight
  BY DEF InFlight
<1>2. chunk \in DOMAIN Chunks /\ chunk \in Nat
  BY ChunkFacts DEF Inv, TypeOK
<1>3. t \in Chunks[chunk] /\ t \notin todo /\ run \in {"going", "threw"}
  BY <1>1 DEF Inv, Fan, TypeOK
<1>4. \A i \in DOMAIN Chunks : i > chunk => t \notin Chunks[i]
  BY <1>2, <1>3, ChunkFacts
<1> QED
  BY <1>1, <1>3, <1>4

LEMMA MoveFan ==
  ASSUME Inv, NEW t \in Targets, Moves(t)
  PROVE  Fan'
<1>1. Fan /\ InFlight \in SUBSET Targets /\ InFlight' \in SUBSET Targets /\ hands \in Nat
  BY EnrichAssumption DEF Inv, InFlight, TypeOK
<1>2. \A s \in Targets \ {t} : s \in InFlight' <=> s \in InFlight
  BY MoveEffect DEF InFlight
<1>3. CASE Pick(t)
  <2>1. /\ UNCHANGED <<run, chunk, hands, completed>> /\ todo' = todo \ {t} /\ t \in todo
        /\ Cardinality(InFlight) < hands /\ run \in {"going", "threw"}
    BY <1>3 DEF Pick, countVars
  <2>2. InFlight' = InFlight \/ InFlight' = InFlight \cup {t}
    <3>1. t \notin InFlight
      BY <1>1, <2>1 DEF Fan
    <3> QED
      BY <1>1, <1>2, <3>1
  <2>3. Cardinality(InFlight') <= hands
    BY <1>1, <2>1, <2>2, Adds, Finite
  <2>4. t \in Chunks[chunk]
    BY <2>1 DEF Inv, TypeOK
  <2> QED
    BY <1>1, <2>1, <2>2, <2>3, <2>4 DEF Fan
<1>4. CASE Stays(t)
  <2>1. InFlight' = InFlight
    BY <1>1, <1>2, <1>4 DEF Stays, InFlight
  <2>2. t \notin todo /\ \A i \in DOMAIN Chunks : i > chunk => t \notin Chunks[i]
    BY <1>4, InChunk DEF Stays
  <2> QED
    BY <1>1, <1>4, <2>1, <2>2 DEF Fan, Stays, fanVars
<1>5. CASE Leaves(t)
  <2>1. InFlight' = InFlight \ {t} /\ t \in InFlight
    BY <1>1, <1>2, <1>5 DEF Leaves, InFlight
  <2>2. Cardinality(InFlight') = Cardinality(InFlight) - 1 /\ Cardinality(InFlight) \in Nat
    BY <1>1, <2>1, Removes
  <2>3. Cardinality(InFlight') <= hands'
    BY <1>1, <1>5, <2>2 DEF Fan, Leaves
  <2>4. run' \in {"returned", "broke"} => run \in {"returned", "broke"}
    BY <1>5 DEF Leaves
  <2> QED
    BY <1>1, <1>5, <2>1, <2>3, <2>4 DEF Fan, Leaves
<1> QED
  BY <1>3, <1>4, <1>5, MoveEffect

LEMMA RunFan ==
  ASSUME Inv, Runs
  PROVE  Fan'
<1>1. Fan
  BY DEF Inv
<1>2. ASSUME NEW T \in SUBSET Targets, Shows(T) PROVE Fan'
  BY <1>1, <1>2 DEF Shows, Fan, InFlight, fanVars, countVars
<1>3. ASSUME NEW T \in SUBSET Targets, Opens(T) PROVE Fan'
  <2>1. /\ InFlight = {} /\ InFlight' = {} /\ UNCHANGED <<run, chunk, completed>>
        /\ todo' = T /\ T \cap completed = {}
        /\ hands' = Concurrency
    BY <1>3 DEF Opens, StartBlock, Drained, InFlight, countVars, Remaining, Terminated
  <2>2. Cardinality(InFlight') <= hands'
    BY <2>1, FS_EmptySet, EnrichAssumption
  <2> QED
    BY <1>1, <2>1, <2>2 DEF Fan
<1>4. CASE Turns
  <2>1. /\ InFlight = {} /\ InFlight' = {} /\ UNCHANGED <<run, completed>>
        /\ chunk' = chunk + 1 /\ chunk + 1 \in DOMAIN Chunks
        /\ todo' = Chunks[chunk + 1]
        /\ hands' = Concurrency /\ chunk \in Nat
    BY <1>4, ChunkFacts DEF Turns, Drained, InFlight, countVars, Inv, TypeOK
  <2>2. Cardinality(InFlight') <= hands'
    BY <2>1, FS_EmptySet, EnrichAssumption
  <2>3. /\ \A i \in DOMAIN Chunks : i > chunk + 1 => Chunks[i] \cap completed = {}
        /\ Chunks[chunk + 1] \cap completed = {}
    BY <1>1, <2>1, ChunkFacts DEF Fan
  <2> QED
    BY <2>1, <2>2, <2>3 DEF Fan
<1>5. CASE Stops
  BY <1>1, <1>5 DEF Stops, Drained, Fan, InFlight, countVars
<1>6. CASE LoseLease
  BY <1>1, <1>6 DEF LoseLease, Fan, InFlight, fanVars, countVars
<1> QED
  BY <1>2, <1>3, <1>4, <1>5, <1>6 DEF Runs

\* The chain without its head is one of callbacks that still wait.
LEMMA TailLine ==
  ASSUME Inv, chain # <<>>
  PROVE  /\ Len(Tail(chain)) \in Nat
         /\ \A i \in 1..Len(Tail(chain)) :
              /\ Tail(chain)[i] \in Targets
              /\ Tail(chain)[i] # Head(chain)
              /\ at[Tail(chain)[i]] \in Awaiting
         /\ \A i, k \in 1..Len(Tail(chain)) : i # k => Tail(chain)[i] # Tail(chain)[k]
<1>1. chain \in Seq(Targets) /\ Len(chain) \in Nat \ {0}
  BY DEF Inv, TypeOK
<1>2. /\ Tail(chain) \in Seq(Targets) /\ Len(Tail(chain)) = Len(chain) - 1
      /\ Head(chain) = chain[1]
      /\ \A i \in 1..Len(Tail(chain)) : Tail(chain)[i] = chain[i + 1]
  BY <1>1
<1>3. Line
  BY DEF Inv
<1>4. \A i \in 1..Len(Tail(chain)) : i + 1 \in 1..Len(chain) /\ i + 1 # 1
  BY <1>1, <1>2
<1>5. 1 \in 1..Len(chain)
  BY <1>1
<1> QED
  BY <1>1, <1>2, <1>3, <1>4, <1>5 DEF Line

LEMMA AppendLine ==
  ASSUME NEW c \in Seq(Targets), NEW t \in Targets,
         \A i \in 1..Len(c) : c[i] # t,
         \A i, k \in 1..Len(c) : i # k => c[i] # c[k],
         \A i \in 1..Len(c) : at'[c[i]] \in Awaiting,
         at'[t] \in Awaiting, chain' = Append(c, t)
  PROVE  Line'
<1>1. /\ Len(chain') = Len(c) + 1 /\ Len(c) \in Nat
      /\ \A i \in 1..Len(c) : chain'[i] = c[i]
      /\ chain'[Len(c) + 1] = t
  OBVIOUS
<1>2. \A i \in 1..Len(chain') : i \in 1..Len(c) \/ i = Len(c) + 1
  BY <1>1
<1> QED
  BY <1>1, <1>2 DEF Line

LEMMA MoveLine ==
  ASSUME Inv, NEW t \in Targets, Moves(t)
  PROVE  Line'
<1>0. Line /\ chain \in Seq(Targets)
  BY DEF Inv, TypeOK
<1>1. \A i \in 1..Len(chain) : chain[i] \in Targets
  BY <1>0
<1>2. \A s \in Targets \ {t} : at'[s] = at[s]
  BY MoveEffect
<1>3. ASSUME at[t] \notin Awaiting
      PROVE  \A i \in 1..Len(chain) : chain[i] # t /\ at'[chain[i]] \in Awaiting
  BY <1>0, <1>1, <1>2, <1>3 DEF Line
<1>4. ASSUME at[t] \notin Awaiting, chain' = chain
      PROVE  Line'
  BY <1>0, <1>3, <1>4 DEF Line
<1>5. ASSUME at[t] \notin Awaiting, chain' = Append(chain, t), at'[t] \in Awaiting
      PROVE  Line'
  BY <1>0, <1>3, <1>5, AppendLine DEF Line
<1>6. ASSUME chain # <<>>, t = Head(chain), chain' = Tail(chain)
      PROVE  Line'
  BY <1>2, <1>6, TailLine DEF Line
<1>7. ASSUME chain # <<>>, t = Head(chain), chain' = Append(Tail(chain), t),
             at'[t] \in Awaiting
      PROVE  Line'
  <2>1. Tail(chain) \in Seq(Targets)
    BY <1>0, <1>7
  <2> QED
    BY <1>2, <1>7, <2>1, TailLine, AppendLine
<1>8. at \in [Targets -> Stages]
  BY DEF Inv, TypeOK
<1> USE DEF writeVars
<1>9. CASE Pick(t)
  <2>1. t \notin InFlight
    BY <1>9 DEF Pick, Inv, Fan
  <2> QED
    BY <1>4, <1>9, <2>1 DEF Pick, InFlight, Awaiting
<1>10. CASE MarkCurrentPhase(t)
  BY <1>5, <1>8, <1>10 DEF MarkCurrentPhase, Stage, Awaiting
<1>11. CASE BodyDone(t) \/ Persist(t) \/ CallbackDone(t) \/ CallbackThrows(t)
  BY <1>4, <1>11 DEF BodyDone, Persist, CallbackDone, CallbackThrows, InTry, Awaiting
<1>12. ASSUME NEW o \in Outcomes, Records(t, o) PROVE Line'
  BY <1>5, <1>8, <1>12 DEF Records, RecordOutcome, Stage, Awaiting, InTry, Result
<1>13. ASSUME NEW llm \in BOOLEAN, Fails(t, llm) PROVE Line'
  <2>1. at'[t] \in Awaiting
    BY <1>8, <1>13 DEF Fails, FailBrand, Stage, Awaiting
  <2> QED
    BY <1>5, <1>7, <1>13, <2>1 DEF Fails
<1>14. CASE Dies(t) \/ Marked(t) \/ Answered(t)
  BY <1>6, <1>14 DEF Dies, Marked, Answered
<1>15. CASE Lost(t)
  BY <1>0, <1>15 DEF Lost, Line
<1> QED
  BY <1>9, <1>10, <1>11, <1>12, <1>13, <1>14, <1>15 DEF Moves

LEMMA RunLine ==
  ASSUME Inv, Runs
  PROVE  Line'
<1>1. UNCHANGED <<chain, at>>
  BY DEF Runs, Shows, Opens, StartBlock, Turns, Stops, LoseLease, writeVars
<1> QED
  BY <1>1 DEF Inv, Line

-----------------------------------------------------------------------------
(* Outcomes, rows and results *)

\* What a move of t does to the row of another target: nothing, or it shows an
\* open row as running.
RowStays(s) == row'[s] = row[s] \/ (row[s] \in Open /\ row'[s] \in Open)

LEMMA Shown ==
  ASSUME TypeOK, NEW T, Commit(T, "running"), NEW s \in Targets, s \in T => row[s] \in Open
  PROVE  RowStays(s)
BY DEF Commit, RowStays, Open

LEMMA MoveTables ==
  ASSUME Inv, NEW t \in Targets, Moves(t), NEW s \in Targets \ {t}
  PROVE  /\ RowStays(s)
         /\ s \in pending' => s \in pending
         /\ s \in saved' <=> s \in saved
         /\ s \in completed' <=> s \in completed
<1>1. TypeOK /\ (s \in pending => row[s] \in Open)
  BY DEF Inv, RowKept
<1>2. s \in completed' <=> s \in completed
  BY MoveEffect DEF Stays, Leaves, Pick, countVars
<1> USE DEF writeVars, tableVars
<1>3. CASE Pick(t) \/ MarkCurrentPhase(t) \/ BodyDone(t) \/ CallbackDone(t)
           \/ CallbackThrows(t) \/ Persist(t)
  BY <1>2, <1>3 DEF Pick, MarkCurrentPhase, BodyDone, CallbackDone, CallbackThrows,
     Persist, RowStays
<1>4. ASSUME NEW o \in Outcomes, Records(t, o)
      PROVE  row' = row /\ saved' = saved /\ pending' = pending
  BY <1>4 DEF Records, RecordOutcome
<1>5. ASSUME NEW llm \in BOOLEAN, Fails(t, llm)
      PROVE  row' = row /\ saved' = saved /\ (pending' = pending \/ pending' = {})
  BY <1>5 DEF Fails, FailBrand
<1>6. CASE Dies(t)
  BY <1>2, <1>6 DEF Dies, RowStays
<1>7. CASE Marked(t)
  <2>1. saved' = saved /\ (pending' = pending \cup {t} \/ pending' = {})
    BY <1>7 DEF Marked
  <2>2. RowStays(s)
    BY <1>1, <1>7, Shown DEF Marked, RowStays
  <2> QED
    BY <1>2, <2>1, <2>2
<1>8. CASE Answered(t) \/ Lost(t)
  <2>1. saved' = saved /\ pending' = pending /\ row'[s] = row[s]
    BY <1>8 DEF Answered, Lost, Commit
  <2> QED
    BY <1>2, <2>1 DEF RowStays
<1> QED
  BY <1>2, <1>3, <1>4, <1>5, <1>6, <1>7, <1>8 DEF Moves, RowStays

\* A move of t leaves what holds of another target.
LEMMA MoveOthers ==
  ASSUME Inv, NEW t \in Targets, Moves(t), NEW s \in Targets \ {t}
  PROVE  Course(s)' /\ RowKept(s)' /\ ResultKept(s)'
<1>1. Course(s) /\ RowKept(s) /\ ResultKept(s)
  BY DEF Inv
<1>2. /\ at'[s] = at[s] /\ said'[s] = said[s] /\ Block' = Block
      /\ run' # "threw" => run # "threw"
  BY MoveEffect DEF Pick, Stays, Leaves, fanVars, Block
<1>3. /\ RowStays(s)
      /\ s \in pending' => s \in pending
      /\ s \in saved' <=> s \in saved
      /\ s \in completed' <=> s \in completed
  BY MoveTables
<1>4. Course(s)' /\ ResultKept(s)'
  BY <1>1, <1>2, <1>3 DEF Course, ResultKept
<1>5. s \in Counted' <=> s \in Counted
  BY <1>2, <1>3 DEF Counted
<1>6. s \in completed => said[s] \in Outcomes
  BY <1>1 DEF Course, Inv, TypeOK
<1>7. s \in Counted => s \in completed
  BY DEF Counted
<1>8. Open \cap Outcomes = {}
  BY DEF Open, Outcomes
<1> QED
  BY <1>1, <1>2, <1>3, <1>4, <1>5, <1>6, <1>7, <1>8 DEF RowKept, RowStays

LEMMA MoveOwn ==
  ASSUME Inv, NEW t \in Targets, Moves(t)
  PROVE  Course(t)' /\ RowKept(t)' /\ ResultKept(t)'
<1>0. Course(t) /\ RowKept(t) /\ ResultKept(t)
  BY DEF Inv
<1>1. /\ at \in [Targets -> Stages] /\ said \in [Targets -> Outcomes \cup {"running"}]
      /\ row \in [Targets -> Open \cup Outcomes] /\ completed \in SUBSET Targets
      /\ "running" \notin Outcomes /\ Open \cap Outcomes = {} /\ "running" \in Open
  BY DEF Inv, TypeOK, Open, Outcomes
<1> USE DEF Trying, InTry, Result, Telling
<1>3. CASE Pick(t)
  <2>1. t \notin completed /\ t \notin InFlight
    BY <1>3 DEF Pick, Inv, Fan
  <2>2. at'[t] \in {"out", "work"} /\ UNCHANGED <<said, completed, row, saved, pending, run, block>>
    BY <1>1, <1>3 DEF Pick, Stage, writeVars, countVars, tableVars
  <2>3. at[t] = "out" /\ t \notin Counted /\ t \notin Counted'
    BY <2>1, <2>2 DEF InFlight, Counted
  <2> QED
    BY <1>0, <2>1, <2>2, <2>3 DEF Course, RowKept, ResultKept
<1>4. CASE MarkCurrentPhase(t)
  <2>1. /\ at[t] = "work" /\ at'[t] = "mark" /\ said'[t] = "running"
        /\ UNCHANGED <<completed, row, saved, pending, run, block>>
    BY <1>1, <1>4 DEF MarkCurrentPhase, Stage, fanVars, countVars, tableVars
  <2>2. t \notin completed /\ t \notin Counted'
    BY <1>0, <2>1 DEF Course, Counted
  <2> QED
    BY <1>0, <1>1, <2>1, <2>2 DEF Course, RowKept, ResultKept
<1>5. CASE BodyDone(t)
  <2>1. /\ at[t] \in InTry /\ at'[t] = "post" /\ Block' # "persist"
        /\ UNCHANGED <<said, completed, row, saved, pending, run>>
    BY <1>1, <1>5 DEF BodyDone, Stage, fanVars, writeVars, countVars, tableVars, Block
  <2>2. t \notin completed /\ t \notin Counted'
    BY <1>0, <2>1 DEF Course, Counted
  <2> QED
    BY <1>0, <2>1, <2>2 DEF Course, RowKept, ResultKept
<1>6. CASE Persist(t)
  <2>1. /\ at[t] \in InTry /\ at'[t] = IF at[t] = "busy" THEN "kept" ELSE "spent"
        /\ saved' = saved \cup {t}
        /\ UNCHANGED <<said, completed, row, pending, run, block>>
    BY <1>1, <1>6 DEF Persist, Stage, fanVars, writeVars, countVars
  <2>2. t \notin completed /\ t \notin Counted' /\ said[t] = "running"
    BY <1>0, <2>1 DEF Course, Counted
  <2> QED
    BY <1>0, <2>1, <2>2 DEF Course, RowKept, ResultKept
<1>7. CASE CallbackDone(t) \/ CallbackThrows(t)
  <2>1. /\ at[t] \in {"post", "dead"} /\ at'[t] = "out"
        /\ at[t] = "dead" => run' = "threw"
        /\ run' # "threw" => run # "threw"
        /\ UNCHANGED <<said, completed, row, saved, pending>>
    BY <1>1, <1>7 DEF CallbackDone, CallbackThrows, Stage, fanVars, writeVars,
       countVars, tableVars
  <2>2. t \in Counted' => t \in Counted \/ run' = "threw"
    BY <2>1 DEF Counted
  <2> QED
    BY <1>0, <2>1, <2>2 DEF Course, RowKept, ResultKept
<1>8. ASSUME NEW o \in Outcomes, Records(t, o)
      PROVE  Course(t)' /\ RowKept(t)' /\ ResultKept(t)'
  <2>1. /\ at[t] \in InTry \cup Result /\ at'[t] = "tell" /\ said'[t] = o
        /\ completed' = completed \cup {t}
        /\ UNCHANGED <<row, saved, pending, run>>
        /\ o = "succeeded" => t \in saved \/ DryRun
        /\ o \in {"noop", "nochannel"} => t \notin saved
    BY <1>1, <1>8 DEF Records, RecordOutcome, Stage, fanVars, tableVars
  <2>2. t \notin completed /\ t \notin Counted'
    BY <1>0, <2>1 DEF Course, Counted
  <2> QED
    BY <1>0, <1>1, <1>8, <2>1, <2>2 DEF Course, RowKept, ResultKept
<1>9. ASSUME NEW llm \in BOOLEAN, Fails(t, llm)
      PROVE  Course(t)' /\ RowKept(t)' /\ ResultKept(t)'
  <2>1. /\ at'[t] = "give" /\ said'[t] = "failed"
        /\ completed' = completed \cup {t}
        /\ UNCHANGED <<row, saved, run>>
        /\ t \in pending' => t \in pending
    BY <1>1, <1>9 DEF Fails, FailBrand, Stage, fanVars, tableVars
  <2>2. t \notin Counted'
    BY <2>1 DEF Counted
  <2> QED
    BY <1>0, <1>1, <2>1, <2>2 DEF Course, RowKept, ResultKept
<1>10. CASE Dies(t)
  <2>1. /\ at'[t] = "dead" /\ UNCHANGED <<said, completed, row, saved, run>>
        /\ t \in pending' => t \in pending
        /\ at[t] \in Awaiting
    BY <1>1, <1>10, HeadFacts DEF Dies, Stage, fanVars, countVars, tableVars
  <2>2. t \notin Counted'
    BY <2>1 DEF Counted
  <2> QED
    BY <1>0, <2>1, <2>2 DEF Course, RowKept, ResultKept, Awaiting
<1>11. CASE Marked(t)
  <2>1. /\ at[t] = "mark" /\ at'[t] \in {"out", "busy"}
        /\ UNCHANGED <<said, completed, saved, run>>
    BY <1>1, <1>11 DEF Marked, Stage, fanVars, countVars
  <2>2. t \notin completed /\ t \notin Counted'
    BY <1>0, <2>1 DEF Course, Counted
  <2>3. row'[t] \in Open
    BY <1>0, <1>1, <1>11, <2>2 DEF Marked, Commit, RowKept
  <2> QED
    BY <1>0, <2>1, <2>2, <2>3 DEF Course, RowKept, ResultKept
<1>12. CASE Answered(t)
  <2>1. /\ at[t] \in Telling /\ at'[t] = "post" /\ row'[t] = said[t]
        /\ UNCHANGED <<said, completed, saved, run>>
        /\ pending' = {}
    BY <1>1, <1>12 DEF Answered, Commit, Stage, fanVars
  <2>2. t \in completed
    BY <1>0, <2>1 DEF Course
  <2> QED
    BY <1>0, <2>1, <2>2 DEF Course, RowKept, ResultKept
<1>13. CASE Lost(t)
  <2>1. /\ at[t] \in Telling /\ row'[t] = said[t] /\ pending' = {}
        /\ UNCHANGED <<at, said, completed, saved, run, block>>
    BY <1>13 DEF Lost, Commit, fanVars, writeVars, countVars
  <2>2. t \in completed /\ t \notin Counted'
    BY <1>0, <2>1 DEF Course, Counted
  <2> QED
    BY <1>0, <2>1, <2>2 DEF Course, RowKept, ResultKept, Block
<1> QED
  BY <1>3, <1>4, <1>5, <1>6, <1>7, <1>8, <1>9, <1>10, <1>11, <1>12, <1>13 DEF Moves

LEMMA RunOwn ==
  ASSUME Inv, Runs, NEW s \in Targets
  PROVE  Course(s)' /\ RowKept(s)' /\ ResultKept(s)'
<1>1. Course(s) /\ RowKept(s) /\ ResultKept(s)
  BY DEF Inv
<1>2. UNCHANGED <<at, said, completed, saved>>
  BY DEF Runs, Shows, Opens, StartBlock, Turns, Stops, LoseLease, countVars,
     writeVars, tableVars
<1>3. s \in Counted' <=> s \in Counted
  BY <1>2 DEF Counted
<1>4. /\ RowStays(s) /\ (s \in pending' => s \in pending)
      /\ run' # "threw" => run # "threw"
  <2>1. ASSUME NEW T \in SUBSET Targets, Shows(T)
        PROVE  /\ RowStays(s) /\ (s \in pending' => s \in pending)
               /\ run' # "threw" => run # "threw"
    BY <2>1, Shown DEF Shows, fanVars, Inv
  <2>2. ASSUME NEW T \in SUBSET Targets, Opens(T)
        PROVE  /\ RowStays(s) /\ (s \in pending' => s \in pending)
               /\ run' # "threw" => run # "threw"
    <3>1. s \in pending \cup T => row[s] \in Open
      BY <1>1, <2>2 DEF Opens, Remaining, Terminated, RowKept
    <3> QED
      BY <2>2, <3>1, Shown DEF Opens, StartBlock, RowStays, Inv
  <2>3. CASE Turns \/ Stops \/ LoseLease
    BY <2>3 DEF Turns, Stops, LoseLease, RowStays, Drained, writeVars, tableVars, fanVars
  <2> QED
    BY <2>1, <2>2, <2>3 DEF Runs
<1>5. at[s] = "post" => Block' = Block
  BY DEF Runs, Shows, Opens, StartBlock, Turns, Stops, LoseLease, fanVars, Block,
     Drained, InFlight
<1>6. s \in completed => said[s] \in Outcomes
  BY <1>1 DEF Course, Inv, TypeOK
<1>7. s \in Counted => s \in completed
  BY DEF Counted
<1>8. Open \cap Outcomes = {}
  BY DEF Open, Outcomes
<1> QED
  BY <1>1, <1>2, <1>3, <1>4, <1>5, <1>6, <1>7, <1>8
  DEF Course, RowKept, ResultKept, RowStays

-----------------------------------------------------------------------------
(* The breaker and the counters *)

LEMMA CouldFacts ==
  ASSUME Inv
  PROVE  /\ Could \in SUBSET InFlight /\ InFlight \in SUBSET Targets
         /\ Cardinality(Could) \in Nat /\ Cardinality(Could) <= Concurrency
         /\ Failed \in SUBSET Targets /\ Cardinality(Failed) \in Nat
         /\ Counted \in SUBSET Targets /\ Counted \cap Succeeded \in SUBSET Targets
<1>1. Could \in SUBSET InFlight /\ InFlight \in SUBSET Targets
  BY DEF Could, InFlight, Trying, InTry
<1>2. Cardinality(Could) <= Cardinality(InFlight) /\ Cardinality(InFlight) <= hands
  BY <1>1, Fewer DEF Inv, Fan
<1>3. Cardinality(Could) \in Nat /\ Cardinality(InFlight) \in Nat
  BY <1>1, Finite
<1>4. Failed \in SUBSET Targets /\ Counted \in SUBSET Targets
  BY DEF Failed, Counted, Inv, TypeOK
<1>5. hands <= Concurrency /\ hands \in Nat /\ Concurrency \in Nat
  BY EnrichAssumption DEF Inv, TypeOK
<1>6. Cardinality(Failed) \in Nat
  BY <1>4, Finite
<1> QED
  BY <1>1, <1>2, <1>3, <1>4, <1>5, <1>6

\* A move that does not fail at the provider leaves the breaker as it was.
LEMMA QuietBreaker ==
  ASSUME Inv, TypeOK', Could' \subseteq Could \/ ~tripped \/ Block' \notin BrandBlocks,
         Could' \in SUBSET Targets, Failed \subseteq Failed',
         tripped' = tripped, fails' = fails \/ fails' = 0, Block' = Block
  PROVE  Breaker'
<1>1. /\ Cardinality(Could) \in Nat /\ Cardinality(Could') \in Nat
      /\ Could \in SUBSET Targets
      /\ Cardinality(Failed) \in Nat /\ Cardinality(Failed') \in Nat
      /\ Failed' \in SUBSET Targets
  <2>1. Failed' \in SUBSET Targets
    BY DEF Failed
  <2> QED
    BY <2>1, CouldFacts, Finite
<1>2. Cardinality(Failed) <= Cardinality(Failed')
  BY <1>1, Fewer
<1>3. Could' \subseteq Could => Cardinality(Could') <= Cardinality(Could)
  BY <1>1, Fewer
<1>4. Cardinality(Could) <= Concurrency
  BY CouldFacts
<1>5. BreakerLimit \in Nat \ {0} /\ Concurrency \in Nat \ {0} /\ fails \in Nat
  BY EnrichAssumption DEF Inv, TypeOK
<1>6. Breaker
  BY DEF Inv
<1> QED
  BY <1>1, <1>2, <1>3, <1>4, <1>5, <1>6 DEF Breaker

LEMMA MoveBreaker ==
  ASSUME Inv, NEW t \in Targets, Moves(t), TypeOK'
  PROVE  Breaker'
<1>0. /\ Breaker /\ Course(t)
      /\ at \in [Targets -> Stages] /\ said \in [Targets -> Outcomes \cup {"running"}]
      /\ fails \in Nat /\ tripped \in BOOLEAN
  BY DEF Inv, TypeOK
<1>1. /\ \A s \in Targets \ {t} : at'[s] = at[s] /\ said'[s] = said[s]
      /\ Block' = Block
  BY MoveEffect DEF Pick, Stays, Leaves, fanVars, Block
<1>2. Could' \in SUBSET Targets /\ Failed' \in SUBSET Targets
  BY DEF Could, Failed
<1>3. at'[t] \notin Trying \/ at[t] \in Trying => Could' \subseteq Could
  BY <1>1 DEF Could
<1>4. (said[t] = "failed" => said'[t] = "failed") => Failed \subseteq Failed'
  BY <1>1 DEF Failed
<1>5. ASSUME at'[t] \notin Trying \/ at[t] \in Trying,
             said[t] = "failed" => said'[t] = "failed",
             tripped' = tripped, fails' = fails \/ fails' = 0
      PROVE  Breaker'
  BY <1>1, <1>2, <1>3, <1>4, <1>5, QuietBreaker
<1> USE DEF Trying, InTry
<1>6. CASE Pick(t)
  <2>1. said' = said /\ tripped' = tripped /\ fails' = fails
    BY <1>6 DEF Pick, writeVars, countVars
  <2>2. at'[t] \in Trying /\ tripped => Block' \notin BrandBlocks
    BY <1>0, <1>1, <1>6 DEF Pick, Stage, Terminated, ChunkBlocks, BrandBlocks
  <2>3. at'[t] \in Trying => ~tripped \/ Block' \notin BrandBlocks
    BY <2>2
  <2>4. Could' \subseteq Could \/ ~tripped \/ Block' \notin BrandBlocks
    BY <1>3, <2>3
  <2>5. Failed \subseteq Failed'
    BY <1>4, <2>1
  <2> QED
    BY <1>1, <1>2, <2>1, <2>4, <2>5, QuietBreaker
<1>7. CASE MarkCurrentPhase(t)
  <2>1. /\ at[t] = "work" /\ tripped' = tripped /\ fails' = fails
    BY <1>7 DEF MarkCurrentPhase, countVars
  <2>2. said[t] = "running"
    BY <1>0, <2>1 DEF Course
  <2> QED
    BY <1>5, <2>1, <2>2
<1>8. CASE BodyDone(t) \/ Persist(t) \/ CallbackDone(t) \/ CallbackThrows(t)
  <2>1. /\ at'[t] \notin Trying /\ said' = said /\ tripped' = tripped /\ fails' = fails
    BY <1>0, <1>8 DEF BodyDone, Persist, CallbackDone, CallbackThrows, Stage, writeVars,
       countVars
  <2> QED
    BY <1>5, <2>1
<1>9. ASSUME NEW o \in Outcomes, Records(t, o) PROVE Breaker'
  <2>1. /\ at'[t] \notin Trying
        /\ at[t] \in InTry \cup Result
        /\ tripped' = tripped
        /\ fails' = fails \/ fails' = 0
    BY <1>0, <1>9 DEF Records, RecordOutcome, Stage
  <2>2. said[t] = "running"
    BY <1>0, <2>1 DEF Course
  <2> QED
    BY <1>5, <2>1, <2>2
<1>10. CASE Fails(t, FALSE)
  <2>1. /\ at'[t] \notin Trying /\ said'[t] = "failed" /\ fails' = fails
        /\ tripped' = tripped
    BY <1>0, <1>10 DEF Fails, FailBrand, Stage
  <2> QED
    BY <1>5, <2>1
<1>11. CASE Fails(t, TRUE)
  <2>1. /\ at[t] \in InTry /\ Block \in BrandBlocks
        /\ at'[t] \notin Trying /\ said'[t] = "failed" /\ fails' = fails + 1
        /\ tripped' = (tripped \/ fails + 1 >= BreakerLimit)
    BY <1>0, <1>11 DEF Fails, FailBrand, Stage
  <2>2. said[t] = "running" /\ t \in Could /\ t \notin Could'
    BY <1>0, <2>1 DEF Course, Could
  <2>3. Failed' = Failed \cup {t} /\ t \notin Failed
    BY <1>1, <2>1, <2>2 DEF Failed
  <2>4. Could' = Could \ {t}
    BY <1>1, <2>2 DEF Could
  <2>5. /\ Cardinality(Failed') = Cardinality(Failed) + 1
        /\ Cardinality(Could') = Cardinality(Could) - 1
    BY <2>2, <2>3, <2>4, CouldFacts, Adds, Removes
  <2>6. /\ Cardinality(Failed) \in Nat /\ Cardinality(Could) \in Nat
        /\ Cardinality(Could) <= Concurrency
        /\ BreakerLimit \in Nat \ {0} /\ Concurrency \in Nat \ {0}
    BY CouldFacts, EnrichAssumption
  <2>7. Cardinality(Could) # 0
    BY <2>2, CouldFacts, Removes
  <2>8. fails' <= Cardinality(Failed') /\ (tripped' => BreakerLimit <= Cardinality(Failed'))
    BY <1>0, <2>1, <2>5, <2>6 DEF Breaker
  <2>9. PICK n \in Nat : n = Cardinality(Could)
    BY <2>6
  <2>10. /\ tripped => fails + n <= BreakerLimit + Concurrency - 1
         /\ ~tripped => fails < BreakerLimit
    BY <1>0, <2>1, <2>9 DEF Breaker
  <2>11. n <= Concurrency /\ n # 0
    BY <2>6, <2>7, <2>9
  <2>12. /\ fails + 1 <= BreakerLimit + Concurrency - 1
         /\ fails + 1 + (n - 1) <= BreakerLimit + Concurrency - 1
    BY <1>0, <2>6, <2>10, <2>11
  <2>13. ~tripped' => fails' < BreakerLimit
    <3>1. fails + 1 >= BreakerLimit => tripped'
      BY <2>1
    <3>2. fails + 1 >= BreakerLimit \/ fails + 1 < BreakerLimit
      BY <1>0, <2>6
    <3> QED
      BY <2>1, <3>1, <3>2
  <2> QED
    BY <2>1, <2>5, <2>8, <2>9, <2>12, <2>13 DEF Breaker
<1>12. CASE Dies(t)
  BY <1>0, <1>5, <1>12 DEF Dies, Stage, countVars
<1>13. CASE Marked(t)
  BY <1>0, <1>5, <1>13 DEF Marked, Stage, countVars
<1>14. CASE Answered(t)
  BY <1>0, <1>5, <1>14 DEF Answered, Stage
<1>15. CASE Lost(t)
  BY <1>0, <1>5, <1>15 DEF Lost, writeVars, countVars, Telling
<1> QED
  BY <1>6, <1>7, <1>8, <1>9, <1>10, <1>11, <1>12, <1>13, <1>14, <1>15 DEF Moves

LEMMA RunBreaker ==
  ASSUME Inv, Runs, TypeOK'
  PROVE  Breaker'
<1>1. UNCHANGED <<at, said, fails, tripped>>
  BY DEF Runs, Shows, Opens, StartBlock, Turns, Stops, LoseLease, countVars,
     writeVars, tableVars
<1>2. Could' = Could /\ Failed' = Failed
  BY <1>1 DEF Could, Failed
<1>3. Breaker
  BY DEF Inv
<1>4. CASE UNCHANGED block
  BY <1>1, <1>2, <1>3, <1>4 DEF Breaker, Block
<1>5. CASE InFlight = {}
  <2>1. Could = {}
    BY <1>5, CouldFacts
  <2>2. Cardinality(Could) = 0
    BY <2>1, FS_EmptySet
  <2>3. fails \in Nat /\ BreakerLimit \in Nat /\ Concurrency \in Nat
    BY EnrichAssumption DEF Inv, TypeOK
  <2> QED
    BY <1>1, <1>2, <1>3, <2>2, <2>3 DEF Breaker
<1> QED
  BY <1>4, <1>5
  DEF Runs, Shows, Opens, StartBlock, Turns, Stops, LoseLease, Drained, fanVars

LEMMA MoveSums ==
  ASSUME Inv, NEW t \in Targets, Moves(t)
  PROVE  Sums'
<1>0. /\ Sums /\ Course(t)
      /\ at \in [Targets -> Stages] /\ said \in [Targets -> Outcomes \cup {"running"}]
      /\ updated \in Nat /\ skipped \in Nat /\ completed \in SUBSET Targets
  BY DEF Inv, TypeOK
<1>1. /\ \A s \in Targets \ {t} : at'[s] = at[s] /\ said'[s] = said[s]
      /\ run' # "threw" => run # "threw"
      /\ \A s \in Targets \ {t} : s \in completed' <=> s \in completed
      /\ completed' \in SUBSET Targets
  BY <1>0, MoveEffect DEF Pick, Stays, Leaves, fanVars, countVars
<1>2. ASSUME t \in Counted' <=> t \in Counted, t \in Counted => said'[t] = said[t],
             updated' = updated, skipped' = skipped
      PROVE  Sums'
  <2>1. Counted' = Counted /\ (Counted \cap Succeeded)' = Counted \cap Succeeded
    BY <1>0, <1>1, <1>2 DEF Counted, Succeeded
  <2> QED
    BY <1>0, <1>1, <1>2, <2>1 DEF Sums
<1> USE DEF Trying, InTry, Result, Telling
<1>3. CASE Pick(t)
  <2>1. t \notin completed /\ UNCHANGED <<completed, updated, skipped>>
    BY <1>3 DEF Pick, countVars, Inv, Fan
  <2> QED
    BY <1>2, <2>1 DEF Counted
<1>4. CASE MarkCurrentPhase(t) \/ BodyDone(t) \/ Persist(t)
  <2>1. t \notin completed /\ UNCHANGED <<completed, updated, skipped>>
    BY <1>0, <1>4 DEF MarkCurrentPhase, BodyDone, Persist, countVars, Course
  <2> QED
    BY <1>2, <2>1 DEF Counted
<1>5. CASE CallbackDone(t)
  <2>1. /\ at[t] = "post" /\ at'[t] = "out"
        /\ UNCHANGED <<said, completed, updated, skipped>>
    BY <1>0, <1>5 DEF CallbackDone, Stage, countVars, writeVars
  <2> QED
    BY <1>2, <2>1 DEF Counted
<1>6. CASE CallbackThrows(t)
  BY <1>6 DEF CallbackThrows, Sums
<1>7. ASSUME NEW o \in Outcomes, Records(t, o) PROVE Sums'
  <2>1. t \notin completed /\ at'[t] = "tell" /\ UNCHANGED <<updated, skipped>>
    BY <1>0, <1>7 DEF Records, RecordOutcome, Stage, Course
  <2> QED
    BY <1>2, <2>1 DEF Counted
<1>8. ASSUME NEW llm \in BOOLEAN, Fails(t, llm) PROVE Sums'
  <2>1. /\ at[t] \in {"tell"} \/ t \notin completed
        /\ at'[t] = "give" /\ UNCHANGED <<updated, skipped>>
    BY <1>0, <1>8 DEF Fails, FailBrand, Stage, Course
  <2> QED
    BY <1>2, <2>1 DEF Counted
<1>9. CASE Dies(t)
  <2>1. /\ at[t] \in Awaiting /\ at'[t] = "dead"
        /\ UNCHANGED <<completed, updated, skipped>>
    BY <1>0, <1>9, HeadFacts DEF Dies, Stage, countVars
  <2>2. t \notin Counted /\ t \notin Counted'
    BY <1>0, <2>1 DEF Awaiting, Counted, Course
  <2> QED
    BY <1>2, <2>1, <2>2
<1>10. CASE Marked(t)
  <2>1. t \notin completed /\ UNCHANGED <<completed, updated, skipped>>
    BY <1>0, <1>10 DEF Marked, countVars, Course
  <2> QED
    BY <1>2, <2>1 DEF Counted
<1>11. CASE Answered(t)
  <2>1. /\ at[t] \in Telling /\ at'[t] = "post" /\ UNCHANGED <<said, completed>>
        /\ updated' = IF said[t] = "succeeded" THEN updated + 1 ELSE updated
        /\ skipped' = IF said[t] = "succeeded" THEN skipped ELSE skipped + 1
        /\ t \in completed
    BY <1>0, <1>11 DEF Answered, Stage, Course
  <2>2. Counted' = Counted \cup {t} /\ t \notin Counted
    BY <1>0, <1>1, <2>1 DEF Counted
  <2>3. Cardinality(Counted') = Cardinality(Counted) + 1 /\ Cardinality(Counted) \in Nat
    BY <2>2, CouldFacts, Adds, Finite
  <2>4. CASE said[t] = "succeeded"
    <3>1. (Counted \cap Succeeded)' = (Counted \cap Succeeded) \cup {t}
      BY <2>1, <2>2, <2>4 DEF Succeeded
    <3>2. Cardinality((Counted \cap Succeeded)') = Cardinality(Counted \cap Succeeded) + 1
      BY <2>2, <3>1, CouldFacts, Adds
    <3>3. Cardinality(Counted \cap Succeeded) \in Nat
      BY CouldFacts, Finite
    <3> QED
      BY <1>0, <1>1, <2>1, <2>3, <2>4, <3>2, <3>3 DEF Sums
  <2>5. CASE said[t] # "succeeded"
    <3>1. (Counted \cap Succeeded)' = Counted \cap Succeeded
      BY <2>1, <2>2, <2>5 DEF Succeeded
    <3>2. updated' = updated /\ skipped' = skipped + 1
      BY <2>1, <2>5
    <3>3. updated' + skipped' = updated + skipped + 1
      BY <1>0, <3>2
    <3> QED
      BY <1>0, <1>1, <2>3, <3>1, <3>2, <3>3 DEF Sums
  <2> QED
    BY <2>4, <2>5
<1>12. CASE Lost(t)
  BY <1>2, <1>12 DEF Lost, writeVars, countVars, Counted
<1> QED
  BY <1>3, <1>4, <1>5, <1>6, <1>7, <1>8, <1>9, <1>10, <1>11, <1>12 DEF Moves

LEMMA RunSums ==
  ASSUME Inv, Runs
  PROVE  Sums'
<1>1. UNCHANGED <<at, said, completed, updated, skipped>>
  BY DEF Runs, Shows, Opens, StartBlock, Turns, Stops, LoseLease, countVars,
     writeVars, tableVars
<1>2. Counted' = Counted /\ (Counted \cap Succeeded)' = Counted \cap Succeeded
  BY <1>1 DEF Counted, Succeeded
<1>3. run' # "threw" => run # "threw"
  BY DEF Runs, Shows, Opens, StartBlock, Turns, Stops, LoseLease, Drained, fanVars
<1> QED
  BY <1>1, <1>2, <1>3 DEF Inv, Sums

-----------------------------------------------------------------------------
(* What a chunk leaves behind *)

\* The breaker stays tripped; in persist a callback ends with an outcome.
LEMMA MoveKeeps ==
  ASSUME Inv, NEW t \in Targets, Moves(t)
  PROVE  /\ tripped => tripped'
         /\ Leaves(t) /\ Block = "persist" => t \in completed \/ run' = "threw"
<1>0. at \in [Targets -> Stages] /\ Course(t)
  BY DEF Inv, TypeOK
<1>1. tripped => tripped'
  <2>1. ASSUME NEW o \in Outcomes, Records(t, o) PROVE tripped' = tripped
    BY <2>1 DEF Records, RecordOutcome
  <2>2. ASSUME NEW llm \in BOOLEAN, Fails(t, llm) PROVE tripped => tripped'
    BY <2>2 DEF Fails, FailBrand
  <2> QED
    BY <2>1, <2>2 DEF Moves, Pick, MarkCurrentPhase, BodyDone, Persist, CallbackDone,
       CallbackThrows, Dies, Marked, Answered, Lost, countVars
<1>2. ASSUME Leaves(t), Block = "persist"
      PROVE  t \in completed \/ run' = "threw"
  <2>1. at[t] # "out" /\ at'[t] = "out"
    BY <1>2 DEF Leaves
  <2>2. CASE Pick(t)
    BY <2>1, <2>2 DEF Pick, Inv, Fan, InFlight
  <2>3. CASE CallbackDone(t) \/ CallbackThrows(t)
    BY <1>0, <1>2, <2>3 DEF CallbackDone, CallbackThrows, Course
  <2>4. ASSUME NEW o \in Outcomes, Records(t, o) PROVE at'[t] # "out"
    BY <1>0, <2>4 DEF Records, RecordOutcome, Stage
  <2>5. ASSUME NEW llm \in BOOLEAN, Fails(t, llm) PROVE at'[t] # "out"
    BY <1>0, <2>5 DEF Fails, FailBrand, Stage
  <2>6. CASE MarkCurrentPhase(t) \/ BodyDone(t) \/ Persist(t)
    BY <1>0, <2>1, <2>6 DEF MarkCurrentPhase, BodyDone, Persist, Stage
  <2>7. CASE Dies(t) \/ Marked(t) \/ Answered(t)
    BY <1>0, <1>2, <2>1, <2>7 DEF Dies, Marked, Answered, Stage
  <2>8. CASE Lost(t)
    BY <2>1, <2>8 DEF Lost
  <2> QED
    BY <2>1, <2>2, <2>3, <2>4, <2>5, <2>6, <2>7, <2>8 DEF Moves
<1> QED
  BY <1>1, <1>2

LEMMA MoveCovered ==
  ASSUME Inv, NEW t \in Targets, Moves(t), run' # "threw", ~tripped'
  PROVE  Covered'
<1>0. Covered /\ ~tripped
  BY MoveKeeps DEF Inv
<1>1. /\ UNCHANGED <<chunk, block>> /\ run' = run /\ completed \subseteq completed'
      /\ Block' = Block
  BY MoveEffect DEF Pick, Stays, Leaves, fanVars, countVars, Block
<1>2. ASSUME Block = "persist", NEW s \in Chunks[chunk]
      PROVE  s \in todo' \/ s \in InFlight' \/ s \in completed'
  <2>0. s \in Targets /\ at \in [Targets -> Stages]
    BY ChunkFacts DEF Inv, TypeOK
  <2>1. s \in todo \/ s \in InFlight \/ s \in completed
    BY <1>0, <1>1, <1>2 DEF Covered
  <2>2. CASE s \in completed
    BY <1>1, <2>2
  <2>3. CASE s # t
    <3>1. s \in InFlight' <=> s \in InFlight
      BY <2>0, <2>3, MoveEffect DEF InFlight
    <3>2. s \in todo' <=> s \in todo
      BY <2>3, MoveEffect DEF Pick, Stays, Leaves, fanVars
    <3> QED
      BY <1>1, <2>1, <3>1, <3>2
  <2>4. CASE s = t /\ Pick(t)
    <3>1. t \in completed \/ at'[t] = "work"
      BY <1>0, <1>2, <2>0, <2>4 DEF Pick, Stage, Terminated, ChunkBlocks
    <3> QED
      BY <1>1, <2>4, <3>1 DEF InFlight
  <2>5. CASE s = t /\ Stays(t)
    BY <2>5 DEF Stays, InFlight
  <2>6. CASE s = t /\ Leaves(t)
    BY <1>1, <1>2, <2>6, MoveKeeps
  <2> QED
    BY <2>3, <2>4, <2>5, <2>6, MoveEffect
<1> QED
  BY <1>0, <1>1, <1>2 DEF Covered

LEMMA RunCovered ==
  ASSUME Inv, Runs, run' # "threw", ~tripped'
  PROVE  Covered'
<1>0. /\ UNCHANGED <<at, completed, tripped>> /\ run # "threw" /\ InFlight' = InFlight
      /\ block \in 0..Len(Order) + 1 /\ chunk \in 1..Len(Chunks)
  BY ChunkFacts
  DEF Runs, Shows, Opens, StartBlock, Turns, Stops, LoseLease, countVars, writeVars,
      tableVars, fanVars, Drained, InFlight, Inv, TypeOK
<1>1. /\ \A i \in DOMAIN Chunks : i < chunk => Chunks[i] \subseteq completed
      /\ Block = "persist" =>
           \A t \in Chunks[chunk] : t \in todo \/ t \in InFlight \/ t \in completed
      /\ Block = "flush" => Chunks[chunk] \subseteq completed
      /\ run = "returned" => Block = "flush" /\ chunk = Len(Chunks)
  BY <1>0 DEF Inv, Covered
<1>2. ASSUME UNCHANGED fanVars PROVE Covered'
  <2>1. Block' = Block
    BY <1>2 DEF fanVars, Block
  <2> QED
    BY <1>0, <1>1, <1>2, <2>1 DEF Covered, fanVars
<1>3. ASSUME NEW T \in SUBSET Targets, Opens(T) PROVE Covered'
  <2>1. /\ Drained /\ block <= Len(Order) /\ block' = block + 1 /\ todo' = T
        /\ UNCHANGED <<run, chunk>> /\ run = "going"
        /\ block + 1 = Len(Order) => T = Remaining
    BY <1>3 DEF Opens, StartBlock, Drained
  <2>2. Block' = "persist" => block + 1 = Len(Order)
    BY <1>0, <2>1, OrderFacts DEF Block
  <2>3. Block' = "flush" => block = Len(Order)
    BY <1>0, <2>1, OrderFacts DEF Block, ChunkBlocks, BrandBlocks
  <2>4. ASSUME Block' = "persist"
        PROVE  \A t \in Chunks[chunk] : t \in todo' \/ t \in completed
    BY <1>0, <2>1, <2>2, <2>4 DEF Remaining, Terminated
  <2>5. ASSUME Block' = "flush" PROVE Chunks[chunk] \subseteq completed
    <3>1. Block = "persist" /\ todo = {} /\ InFlight = {}
      BY <1>0, <2>1, <2>3, <2>5, BlockFacts DEF Drained
    <3> QED
      BY <1>1, <3>1
  <2> QED
    BY <1>0, <1>1, <2>1, <2>4, <2>5 DEF Covered
<1>4. CASE Turns
  <2>1. /\ Block = "flush" /\ chunk' = chunk + 1 /\ block' = 0 /\ run' = run /\ run = "going"
    BY <1>4 DEF Turns, Drained
  <2>2. Block' = "init"
    BY <2>1 DEF Block
  <2>3. \A i \in DOMAIN Chunks : i < chunk + 1 => Chunks[i] \subseteq completed
    BY <1>0, <1>1, <2>1, ChunkFacts
  <2> QED
    BY <1>0, <2>1, <2>2, <2>3 DEF Covered
<1>5. CASE Stops
  <2>1. /\ UNCHANGED <<chunk, block, todo>>
        /\ run' = "returned" => Block = "flush" /\ chunk = Len(Chunks)
    BY <1>5 DEF Stops
  <2>2. Block' = Block
    BY <2>1 DEF Block
  <2> QED
    BY <1>0, <1>1, <2>1, <2>2 DEF Covered
<1> QED
  BY <1>2, <1>3, <1>4, <1>5 DEF Runs, Shows, LoseLease

-----------------------------------------------------------------------------
(* The invariant *)

LEMMA InvInit ==
  ASSUME Init
  PROVE  Inv
<1> USE DEF Init
<1>1. 1 \in DOMAIN Chunks /\ Chunks[1] \in SUBSET Targets
  BY ChunkFacts
<1>2. TypeOK
  <2>1. /\ at \in [Targets -> Stages]
        /\ said \in [Targets -> Outcomes \cup {"running"}]
        /\ row \in [Targets -> Open \cup Outcomes]
    BY DEF Stages, Open
  <2>2. block \in 0..Len(Order) + 1 /\ hands \in 0..Concurrency
    BY EnrichAssumption, OrderFacts
  <2>3. chain \in Seq(Targets)
    OBVIOUS
  <2> QED
    BY <1>1, <2>1, <2>2, <2>3 DEF TypeOK
<1>3. InFlight = {} /\ Could = {} /\ Counted = {} /\ Block = "init"
  BY DEF InFlight, Could, Counted, Trying, InTry, Block
<1>4. Cardinality(InFlight) = 0 /\ Cardinality(Could) = 0 /\ Cardinality(Counted) = 0
  BY <1>3, FS_EmptySet
<1>5. Fan
  BY <1>3, <1>4, EnrichAssumption DEF Fan
<1>6. Line
  BY DEF Line
<1>7. \A t \in Targets : Course(t) /\ RowKept(t) /\ ResultKept(t)
  BY <1>3 DEF Course, RowKept, ResultKept, Trying, InTry, Result, Telling, Open
<1>8. Breaker
  <2>1. Cardinality(Failed) \in Nat
    BY Finite DEF Failed
  <2> QED
    BY <1>4, <2>1, EnrichAssumption DEF Breaker
<1>9. Sums
  <2>1. Counted \cap Succeeded = {}
    BY <1>3
  <2> QED
    BY <1>4, <2>1, <1>3 DEF Sums
<1>10. Covered
  BY <1>3, ChunkFacts DEF Covered
<1> QED
  BY <1>2, <1>5, <1>6, <1>7, <1>8, <1>9, <1>10 DEF Inv

LEMMA InvMove ==
  ASSUME Inv, NEW t \in Targets, Moves(t)
  PROVE  Inv'
<1>1. TypeOK' /\ Fan' /\ Line'
  BY MoveType, MoveFan, MoveLine
<1>2. \A s \in Targets : Course(s)' /\ RowKept(s)' /\ ResultKept(s)'
  BY MoveOthers, MoveOwn
<1>3. Breaker' /\ Sums' /\ Covered'
  BY <1>1, MoveBreaker, MoveSums, MoveCovered DEF Covered
<1> QED
  BY <1>1, <1>2, <1>3 DEF Inv

LEMMA InvRun ==
  ASSUME Inv, Runs
  PROVE  Inv'
<1>1. TypeOK' /\ Fan' /\ Line'
  BY RunType, RunFan, RunLine
<1>2. \A s \in Targets : Course(s)' /\ RowKept(s)' /\ ResultKept(s)'
  BY RunOwn
<1>3. Breaker' /\ Sums' /\ Covered'
  BY <1>1, RunBreaker, RunSums, RunCovered DEF Covered
<1> QED
  BY <1>1, <1>2, <1>3 DEF Inv

LEMMA InvStutter ==
  ASSUME Inv, UNCHANGED vars
  PROVE  Inv'
<1> USE DEF vars
<1>1. TypeOK' /\ Fan' /\ Line'
  BY DEF Inv, TypeOK, Fan, Line, InFlight
<1>2. Block' = Block /\ Counted' = Counted
  BY DEF Block, Counted
<1>3. \A s \in Targets : Course(s)' /\ RowKept(s)' /\ ResultKept(s)'
  BY <1>2 DEF Inv, Course, RowKept, ResultKept
<1>4. Breaker' /\ Sums' /\ Covered'
  BY <1>2 DEF Inv, Breaker, Sums, Covered, Could, Failed, Succeeded, InFlight
<1> QED
  BY <1>1, <1>3, <1>4 DEF Inv

LEMMA Invariant == Spec => []Inv
<1>1. Inv /\ [Next]_vars => Inv'
  BY Steps, InvMove, InvRun, InvStutter
<1> QED
  BY InvInit, <1>1, PTL DEF Spec

-----------------------------------------------------------------------------
(* What the run keeps *)

\* The variables of a run keep their types: no step of runEnrich, runBlocks or
\* a block takes a target that is not in the chunk or a block past the last.
THEOREM TypeCorrect == Spec => []TypeOK
<1>1. Inv => TypeOK
  BY DEF Inv
<1> QED
  BY <1>1, Invariant, PTL

\* However many callbacks run at once, consecutiveLlmProviderFailures passes the
\* limit of the breaker by less than the number of the callbacks.
THEOREM OvershootBounded == Spec => []Overshoot
<1>1. Inv => Overshoot
  BY DEF Inv, Breaker, Overshoot
<1> QED
  BY <1>1, Invariant, PTL

\* When nothing is in flight, what is completed was counted.
LEMMA AllCounted ==
  ASSUME Inv, InFlight = {}
  PROVE  Counted = completed
<1>1. \A t \in Targets : at[t] = "out"
  BY DEF InFlight
<1>2. completed \in SUBSET Targets
  BY DEF Inv, TypeOK
<1> QED
  BY <1>1, <1>2 DEF Counted, Telling

\* The summary that runEnrich returns agrees with the rows of the job: completed
\* targets are those with an outcome, and updated and skipped count each once.
THEOREM SummaryCorrect == Spec => []SummaryAgrees
<1>1. ASSUME Inv, run \in {"returned", "broke"}
      PROVE  /\ completed = {t \in Targets : row[t] \in Outcomes}
             /\ updated = Cardinality({t \in Targets : row[t] = "succeeded"})
             /\ updated + skipped = Cardinality(completed)
  <2>1. Counted = completed /\ completed \in SUBSET Targets
    BY <1>1, AllCounted DEF Inv, Fan, TypeOK
  <2>2. \A t \in Targets : IF t \in completed
                           THEN row[t] = said[t] /\ said[t] \in Outcomes
                           ELSE row[t] \in Open /\ said[t] = "running"
    BY <1>1, <2>1 DEF Inv, RowKept, Course, TypeOK
  <2>3. Open \cap Outcomes = {}
    BY DEF Open, Outcomes
  <2>4. completed = {t \in Targets : row[t] \in Outcomes}
    BY <2>1, <2>2, <2>3
  <2>5. Counted \cap Succeeded = {t \in Targets : row[t] = "succeeded"}
    BY <2>1, <2>2, <2>3 DEF Succeeded, Outcomes
  <2>6. Sums /\ run # "threw"
    BY <1>1 DEF Inv
  <2> QED
    BY <2>1, <2>4, <2>5, <2>6 DEF Sums
<1>2. Inv => SummaryAgrees
  BY <1>1 DEF SummaryAgrees
<1> QED
  BY <1>2, Invariant, PTL

-----------------------------------------------------------------------------
(* The run implements what its caller relies on *)

Reporting == <<row, saved, lease, run>>

\* Every step of a callback is one of the reports, a result, the end, or nothing
\* that the caller sees.
LEMMA MoveReports ==
  ASSUME Inv, NEW t \in Targets, Moves(t)
  PROVE  Report!RunNext \/ UNCHANGED Reporting
<1>0. Course(t) /\ RowKept(t) /\ ResultKept(t)
  BY DEF Inv
<1>1. /\ row \in [Targets -> Open \cup Outcomes] /\ said \in [Targets -> Outcomes \cup {"running"}]
      /\ pending \in SUBSET Targets
      /\ run \in {"going", "threw", "returned", "broke"}
  BY DEF Inv, TypeOK
<1>2. Open = Report!Unreported /\ Outcomes = Report!Reported
  BY DEF Open, Outcomes, Report!Unreported, Report!Reported
<1> USE DEF Reporting, fanVars, writeVars, countVars, tableVars
<1>3. CASE Pick(t) \/ MarkCurrentPhase(t) \/ BodyDone(t) \/ CallbackDone(t)
  BY <1>3 DEF Pick, MarkCurrentPhase, BodyDone, CallbackDone
<1>4. CASE CallbackThrows(t)
  <2>1. run' = "threw" /\ UNCHANGED <<row, saved, lease>>
    BY <1>4 DEF CallbackThrows
  <2>2. run \in {"going", "threw"}
    BY <1>4, InChunk DEF CallbackThrows
  <2> QED
    BY <2>1, <2>2 DEF Report!RunNext, Report!Ends
<1>5. ASSUME NEW o \in Outcomes, Records(t, o) PROVE UNCHANGED Reporting
  BY <1>5 DEF Records, RecordOutcome
<1>6. ASSUME NEW llm \in BOOLEAN, Fails(t, llm) PROVE UNCHANGED Reporting
  BY <1>6 DEF Fails, FailBrand
<1>7. CASE Dies(t)
  BY <1>7 DEF Dies
<1>8. CASE Persist(t)
  <2>1. /\ ~DryRun /\ lease /\ saved' = saved \cup {t} /\ UNCHANGED <<row, lease, run>>
        /\ at[t] \in InTry
    BY <1>8 DEF Persist
  <2>2. row[t] \in Open
    BY <1>0, <2>1 DEF Course, RowKept, Trying
  <2>3. run \in {"going", "threw"}
    BY <2>1, InChunk DEF InTry
  <2>4. Report!Commits(t)
    BY <1>2, <2>1, <2>2, <2>3 DEF Report!Commits, Report!Working
  <2> QED
    BY <2>4 DEF Report!RunNext
<1>9. CASE Marked(t)
  <2>1. at[t] = "mark" /\ UNCHANGED <<saved, lease, run>>
    BY <1>9 DEF Marked
  <2>2. run \in {"going", "threw"}
    BY <2>1, InChunk
  <2>3. \A s \in pending \cup {t} : row[s] \in Open
    <3>1. row[t] \in Open
      BY <1>0, <2>1 DEF Course, Trying, RowKept
    <3>2. \A s \in pending : row[s] \in Open
      BY <1>1 DEF Inv, RowKept
    <3> QED
      BY <3>1, <3>2
  <2>4. CASE Commit(pending \cup {t}, "running")
    <3>1. Report!ReportsRunning(pending \cup {t})
      BY <1>2, <2>1, <2>2, <2>3, <2>4 DEF Commit, Report!ReportsRunning, Report!Working
    <3> QED
      BY <1>1, <3>1 DEF Report!RunNext
  <2> QED
    BY <1>9, <2>1, <2>4 DEF Marked
<1>10. CASE Answered(t) \/ Lost(t)
  <2>1. /\ at[t] \in Telling /\ Commit({t}, said[t]) /\ UNCHANGED <<saved, lease, run>>
    BY <1>10 DEF Answered, Lost
  <2>2. /\ said[t] \in Outcomes
        /\ row[t] \in Open \/ said[t] = "failed" \/ row[t] = said[t]
        /\ said[t] = "succeeded" => t \in saved \/ DryRun
        /\ said[t] \in {"noop", "nochannel"} => t \notin saved
    BY <1>0, <1>1, <2>1 DEF Course, RowKept, ResultKept, Telling
  <2>3. row' = [row EXCEPT ![t] = said[t]] /\ lease
    BY <1>1, <2>1 DEF Commit
  <2>4. run \in {"going", "threw"}
    BY <2>1, InChunk DEF Telling
  <2>5. CASE row[t] = said[t]
    BY <1>1, <2>1, <2>3, <2>5
  <2>6. CASE row[t] \in Open \/ said[t] = "failed"
    <3>1. Report!Reports(t, said[t])
      BY <1>2, <2>1, <2>2, <2>3, <2>4, <2>6 DEF Report!Reports, Report!Working
    <3> QED
      BY <1>2, <2>2, <3>1 DEF Report!RunNext
  <2> QED
    BY <2>2, <2>5, <2>6
<1> QED
  BY <1>3, <1>4, <1>5, <1>6, <1>7, <1>8, <1>9, <1>10 DEF Moves

LEMMA RunsReports ==
  ASSUME Inv, Runs
  PROVE  Report!RunNext \/ UNCHANGED Reporting
<1>1. Open = Report!Unreported /\ Outcomes = Report!Reported
  BY DEF Open, Outcomes, Report!Unreported, Report!Reported
<1>2. pending \in SUBSET Targets /\ completed \in SUBSET Targets /\ saved \in SUBSET Targets
      /\ row \in [Targets -> Open \cup Outcomes] /\ said \in [Targets -> Outcomes \cup {"running"}]
  BY DEF Inv, TypeOK
<1> USE DEF Reporting, fanVars, writeVars, countVars, tableVars
<1>3. ASSUME NEW T \in SUBSET Targets, Shows(T)
      PROVE  Report!RunNext
  <2>1. Report!ReportsRunning(T)
    BY <1>1, <1>3 DEF Shows, Commit, Report!ReportsRunning, Report!Working
  <2> QED
    BY <2>1 DEF Report!RunNext
<1>4. ASSUME NEW T \in SUBSET Targets, Opens(T)
      PROVE  Report!RunNext \/ UNCHANGED Reporting
  <2>1. run = "going" /\ UNCHANGED <<saved, lease, run>> /\ T \in SUBSET Remaining
    BY <1>4 DEF Opens, StartBlock, Drained
  <2>2. CASE Commit(pending \cup T, "running")
    <3>1. \A s \in pending \cup T : row[s] \in Open
      <4>1. T \cap completed = {}
        BY <2>1 DEF Remaining, Terminated
      <4> QED
        BY <1>2, <4>1 DEF Inv, RowKept
    <3>2. Report!ReportsRunning(pending \cup T)
      BY <1>1, <2>1, <2>2, <3>1 DEF Commit, Report!ReportsRunning, Report!Working
    <3> QED
      BY <1>2, <3>2 DEF Report!RunNext
  <2> QED
    BY <1>4, <2>1, <2>2 DEF Opens
<1>5. CASE Turns
  BY <1>5 DEF Turns
<1>6. CASE LoseLease
  BY <1>6 DEF LoseLease, Report!RunNext, Report!LeaseEnds
<1>7. CASE Stops
  <2>1. /\ run = "going" /\ UNCHANGED <<row, saved, lease>> /\ InFlight = {}
    BY <1>7 DEF Stops, Drained
  <2>2. Counted = completed /\ \A t \in Targets : at[t] = "out"
    BY <2>1, AllCounted DEF InFlight
  <2>3. \A t \in completed : row[t] = said[t] /\ said[t] \in Outcomes
    BY <1>2, <2>1, <2>2 DEF Inv, RowKept, Course
  <2>4. CASE run' = "threw"
    BY <2>1, <2>4 DEF Report!RunNext, Report!Ends
  <2>5. CASE run' = "broke" /\ tripped
    <3>1. \A t \in saved : row[t] \in Outcomes
      BY <1>2, <2>2, <2>3 DEF Inv, ResultKept, Result
    <3>2. Failed \in SUBSET completed
      BY DEF Failed, Inv, Course
    <3>3. Failed \subseteq {t \in Targets : row[t] = "failed"}
      BY <1>2, <2>3, <3>2 DEF Failed
    <3>4. Cardinality(Failed) <= Cardinality({t \in Targets : row[t] = "failed"})
      BY <3>3, Fewer
    <3>5. BreakerLimit <= Cardinality(Failed)
      BY <2>5 DEF Inv, Breaker
    <3>6. /\ Cardinality(Failed) \in Nat /\ BreakerLimit \in Nat
          /\ Cardinality({t \in Targets : row[t] = "failed"}) \in Nat
      BY Finite, CouldFacts, EnrichAssumption
    <3>7. Cardinality({t \in Targets : row[t] = "failed"}) >= BreakerLimit
      BY <3>4, <3>5, <3>6
    <3>8. \A t \in saved : row[t] \in Report!Reported
      BY <1>1, <3>1
    <3>9. \A S : Report!Cardinality(S) = Cardinality(S)
      BY Zenon DEF Cardinality, Report!Cardinality, IsFiniteSet, Report!IsFiniteSet
    <3>10. Report!Ends
      BY <2>1, <2>5, <3>7, <3>8, <3>9 DEF Report!Ends
    <3> QED
      BY <3>10 DEF Report!RunNext
  <2>6. CASE run' = "returned" /\ Block = "flush" /\ ~tripped /\ chunk = Len(Chunks)
    <3>1. /\ \A i \in DOMAIN Chunks : i < chunk => Chunks[i] \subseteq completed
          /\ Chunks[chunk] \subseteq completed
      BY <2>1, <2>6 DEF Inv, Covered
    <3>2. \A t \in Targets : t \in completed
      BY <2>6, <3>1, ChunkFacts
    <3>3. \A t \in Targets : row[t] \in Outcomes
      BY <2>3, <3>2
    <3> QED
      BY <1>1, <2>1, <2>6, <3>3 DEF Report!RunNext, Report!Ends
  <2> QED
    BY <1>7, <2>4, <2>5, <2>6 DEF Stops
<1> QED
  BY <1>3, <1>4, <1>5, <1>6, <1>7 DEF Runs

\* A run of the blocks, with its fan-out, its queued writes, its breaker and
\* the answers it loses, is a run as RunReports describes it to the job runner.
THEOREM ReportsImplemented == Spec => ImplementsReports
<1>1. Init => Report!RunInit
  BY DEF Init, Report!RunInit
<1>2. Inv /\ [Next]_vars => [Report!RunNext]_Reporting
  <2>1. UNCHANGED vars => UNCHANGED Reporting
    BY DEF vars, Reporting
  <2> QED
    BY <2>1, Steps, MoveReports, RunsReports
<1>3. [Report!RunNext]_Reporting => [Report!RunNext]_(Report!reportVars)
  BY DEF Reporting, Report!reportVars
<1> QED
  BY <1>1, <1>2, <1>3, Invariant, PTL DEF Spec, ImplementsReports, Report!RunSpec

=============================================================================
