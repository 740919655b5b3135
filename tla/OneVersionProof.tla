--------------------------- MODULE OneVersionProof ---------------------------
(***************************************************************************)
(* For every set of phases, of actions and of results and every number of  *)
(* jobs: one write holds outputs that belong together.  Where job j takes  *)
(* phase p of job k and a phase d that p depends on of job x, the row of k *)
(* was computed from that of x.                                            *)
(*                                                                         *)
(* The argument, for x before k before j.  The run of j found both rows to *)
(* be the newest there are, in the order of their dependency.  Had k not   *)
(* used the row of x when it computed p, it had computed d itself, and     *)
(* then missed it, or had used another row y.  Either way the lineage, as  *)
(* k found it, is what j found in the parts that matter: nothing was       *)
(* merged or forced from x on (Quiet), what was merged before was merged   *)
(* before k saved a row (Settled), and whatever late workers saved since   *)
(* is newer than the row of k.  So k would have decided as j did.          *)
(***************************************************************************)
EXTENDS CheckpointsProof, WellFoundedInduction

-----------------------------------------------------------------------------
(* The parts of the inductive invariant                                     *)

\* No row is newer than the clock, and two rows of one time are of one job.
Clocked ==
  \A k \in JobId, p \in Phases :
    /\ outs[k][p].at <= clock /\ outs[k][p].merged <= clock + 1
    /\ \A i \in JobId, q \in Phases :
         Usable(i, q) /\ outs[i][q].at = outs[k][p].at => i = k

\* The history of a run is of rows, and what it saved itself is all it holds
\* of the phase.
Made ==
  \A k \in JobId, p \in Phases :
    Active(k) =>
      /\ history[k][p] # None => Usable(history[k][p], p)
      /\ Usable(k, p) => saved[k][p] = k /\ history[k][p] = k /\ checkpoints[k][p] = k

\* What a job computed beside its own row of a dependency it computed from that.
SelfFed ==
  \A k \in JobId, p \in Phases :
    Usable(k, p) => \A d \in Deps(p) : Usable(k, d) => outs[k][p].inputs[d] = k

\* Only a cancelled job saves a late row.
Overdue ==
  \A k \in JobId, p \in Phases : Usable(k, p) /\ outs[k][p].late => status[k] = "cancelled"

\* The lineage of an ancestor is the lineage up to it.
Tree == \A j \in JobId : \A k \in lineage[j] : lineage[k] = {i \in lineage[j] : i <= k}

\* Up to a job that forces all it selects, the jobs of a lineage select alike.
SameSelection ==
  \A x \in JobId : \A k \in lineage[x] :
    (\A c \in lineage[x] : k < c => ~Redo(c)) => Selected(x) = Selected(k)

\* What a job forced is forced by its descendants until one has a row of it.
Owed ==
  \A x \in JobId : \A k \in lineage[x] : \A d \in Forced(k) \cap Selected(x) :
    d \in Forced(x) \/ \E y \in lineage[x] : k <= y /\ y < x /\ Usable(y, d)

\* An ancestor of k has an unmerged row of q.
Held(k, q, i) == i \in lineage[k] \ {k} /\ Usable(i, q) /\ outs[i][q].merged = 0

\* The row of i is newer than whatever another job than k saved in time.
Newer(k, i, q) ==
  \A z \in JobId \ {k}, r \in Phases :
    Usable(z, r) /\ ~outs[z][r].late => outs[z][r].at < outs[i][q].at

\* What the run of k has in its history of a selected phase it did not save is
\* the newest row that is held, but for those that late workers saved since.
SharpOf(k, q) ==
  /\ history[k][q] # None => Held(k, q, history[k][q])
  /\ \A i \in JobId : Held(k, q, i) =>
       \/ history[k][q] # None /\ outs[i][q].at <= outs[history[k][q]][q].at
       \/ Newer(k, i, q)

Sharp ==
  \A k \in JobId, q \in Phases :
    Running(k) /\ Active(k) /\ HasParent(k) /\ q \in Selected(k) /\ ~Usable(k, q) => SharpOf(k, q)

\* A phase whose block is behind the run was executed, for one of the reasons
\* there are, or is satisfied by what the run holds of it.
DecidedOf(k, d) ==
  IF saved[k][d] = k THEN Usable(k, d) \/ d \in Forced(k) \/ ~Satisfied(k, d)
  ELSE saved[k][d] = history[k][d] /\ d \notin Forced(k) /\ Satisfied(k, d)

Decided ==
  \A k \in JobId, d \in Phases :
    Active(k) /\ d # "slugs" /\ d \in Selected(k) /\ BlockOf[d] < block[k] => DecidedOf(k, d)

\* When k saved its row of p, an ancestor i had an unmerged row of q.  Clocks
\* tell: a write stamps a time after all rows there are.
Cand(k, p, q, i) ==
  /\ i \in lineage[k] \ {k} /\ Usable(i, q) /\ outs[i][q].at < outs[k][p].at
  /\ outs[i][q].merged = 0 \/ outs[i][q].merged > outs[k][p].at

\* The newest of them.
Top(k, p, q, i) ==
  Cand(k, p, q, i) /\ \A z \in JobId : Cand(k, p, q, z) => outs[z][q].at <= outs[i][q].at

\* Then d was satisfied: S is d and all it reaches, none of it saved by k, and
\* the newest rows f of S follow the dependencies.
Fitting(k, p, d, S, f) ==
  /\ d \in S /\ ~outs[f[d]][d].late
  /\ \A q \in S :
       /\ ~Usable(k, q) /\ Top(k, p, q, f[q])
       /\ outs[f[q]][q].at <= outs[f[d]][d].at
       /\ \A e \in Deps(q) \cap Selected(k) : e \in S /\ outs[f[e]][e].at <= outs[f[q]][q].at

\* What the row of k was computed from: its own output of d, which it saved or
\* missed because d was forced or not satisfied, or the newest row there was.
TracedOf(k, p, d) ==
  LET y == outs[k][p].inputs[d] IN
  IF y = k
  THEN \/ Usable(k, d) \/ d \in Forced(k)
       \/ ~\E S \in SUBSET Selected(k), f \in [Phases -> JobId] : Fitting(k, p, d, S, f)
  ELSE /\ Cand(k, p, d, y)
       /\ \A i \in JobId : Cand(k, p, d, i) /\ ~outs[i][d].late => outs[i][d].at <= outs[y][d].at

Traced ==
  \A k \in JobId, p \in Phases :
    Usable(k, p) /\ ~outs[k][p].late /\ HasParent(k) /\ p # "slugs" =>
      \A d \in Deps(p) \cap Selected(k) : TracedOf(k, p, d)

\* Detection and slugs are one call of one block: planned, executed, saved and
\* merged together.
Both == {"detect", "slugs"} \subseteq Phases
Twin(f) == f["detect"] = f["slugs"]
TwinSet(S) == "detect" \in S <=> "slugs" \in S

TwinPlans == \A j \in JobId : TwinSet(plan[j].selected) /\ TwinSet(plan[j].forced)
TwinRows ==
  \A j \in JobId :
    /\ outs[j]["detect"].at = outs[j]["slugs"].at
    /\ outs[j]["detect"].merged = outs[j]["slugs"].merged
TwinRuns ==
  \A j \in JobId : Twin(saved[j]) /\ Twin(history[j]) /\ Twin(results[j]) /\ Twin(checkpoints[j])

Twins == Both => TwinPlans /\ TwinRows /\ TwinRuns

OneInv ==
  /\ OrderInv /\ Own /\ Clocked /\ Made /\ SelfFed /\ Overdue /\ Tree /\ SameSelection /\ Owed
  /\ Sharp /\ Decided /\ Traced /\ Twins

-----------------------------------------------------------------------------
(* Rows and the clock                                                       *)

\* The block of p saves its row: what the job holds goes with it.
Saves(k, p) ==
  /\ SavesRow(k, p) /\ p \in Selected(k)
  /\ clock' = clock + 1 /\ outs'[k][p].at = clock + 1 /\ outs'[k][p].late = ~Running(k)
  /\ \A d \in Deps(p) : outs'[k][p].inputs[d] = saved'[k][d]

\* A block saves rows of its own job only.
LEMMA BlockSaves ==
  ASSUME TypeOK, NEW j \in JobId, RunBlock(j), NEW k \in JobId, NEW p \in Phases
  PROVE  KeepsOuts(k, p) \/ (k = j /\ Saves(k, p))
<1>1. PICK outcome \in [Execute(j) -> Results] :
        LET exec == Execute(j)
            done == {q \in exec : outcome[q] = "succeeded"} IN
        /\ outs' = [outs EXCEPT ![j] = Recorded(j, exec, done)]
        /\ saved' = [saved EXCEPT ![j] = [q \in Phases |-> IF q \in exec THEN j ELSE @[q]]]
        /\ clock' = IF done = {} THEN clock ELSE clock + 1
  BY DEF RunBlock
<1> DEFINE exec == Execute(j)
           done == {q \in exec : outcome[q] = "succeeded"}
<1>2. CASE k = j /\ p \in done
  <2>1. outs'[k][p] = [at |-> clock + 1, merged |-> 0, late |-> ~Running(j),
                       inputs |-> [d \in Phases |-> IF d \notin Deps(p) THEN None
                                    ELSE IF d \in exec THEN j ELSE saved[j][d]]]
    BY <1>1, <1>2 DEF TypeOK, Recorded
  <2>2. BlockOf[p] = block[k] /\ p \in Selected(k)
    BY <1>2 DEF Execute, Chosen, PhasesOf
  <2>3. clock + 1 # 0
    BY DEF TypeOK
  <2>4. SavesRow(k, p)
    BY <1>2, <2>1, <2>2, <2>3 DEF SavesRow
  <2>5. clock' = clock + 1
    BY <1>1, <1>2
  <2>6. \A d \in Phases : saved'[j][d] = IF d \in exec THEN j ELSE saved[j][d]
    BY <1>1 DEF TypeOK
  <2>7. \A d \in Deps(p) : outs'[k][p].inputs[d] = saved'[k][d]
    BY <1>2, <2>1, <2>6, DepsBefore
  <2> QED
    BY <1>2, <2>1, <2>2, <2>4, <2>5, <2>7 DEF Saves
<1>3. CASE k = j /\ p \notin done
  BY <1>1, <1>3 DEF TypeOK, Recorded, KeepsOuts
<1>4. CASE k # j
  BY <1>1, <1>4 DEF TypeOK, KeepsOuts
<1> QED
  BY <1>2, <1>3, <1>4

\* What a step may do to a row.
LEMMA RowMoves ==
  ASSUME TypeOK, Next, NEW k \in JobId, NEW p \in Phases
  PROVE  KeepsOuts(k, p) \/ Saves(k, p) \/ MergesRow(k, p)
<1>1. OutMove(k, p)
  BY Moves
<1> QED
  BY <1>1, BlockSaves DEF OutMove, SavesRow

LEMMA RowNumbers ==
  ASSUME TypeOK, NEW k \in JobId, NEW p \in Phases
  PROVE  outs[k][p] \in Rows /\ outs[k][p].at \in Nat /\ outs[k][p].merged \in Nat
<1>1. outs[k][p] \in Rows
  BY DEF TypeOK
<1> QED
  BY <1>1 DEF Rows

\* The clock ticks once with a block that saves, or stands.
LEMMA ClockMoves ==
  ASSUME TypeOK, Next
  PROVE  clock' = clock \/ clock' = clock + 1
<1>1. ASSUME NEW j \in JobId, EnqueueRetry(j) \/ EnqueueRecovery(j) PROVE clock' = clock
  BY <1>1 DEF EnqueueRetry, EnqueueRecovery, Enqueue
<1>2. EnqueueRoot \/ Review => clock' = clock
  BY DEF EnqueueRoot, Enqueue, Review
<1>3. ASSUME NEW j \in JobId, Start(j) \/ StartTooLate(j) \/ Cancel(j) PROVE clock' = clock
  BY <1>3 DEF Start, StartTooLate, Cancel
<1>4. ASSUME NEW j \in JobId, SkipBlock(j) \/ NoInputs(j) \/ EndEarly(j) PROVE clock' = clock
  BY <1>4 DEF SkipBlock, NoInputs, EndEarly
<1>5. ASSUME NEW j \in JobId, RunThrows(j) \/ Persist(j) \/ PersistNothing(j)
      PROVE  clock' = clock
  BY <1>5 DEF RunThrows, Persist, PersistNothing
<1>6. ASSUME NEW j \in JobId, RunBlock(j) PROVE clock' = clock \/ clock' = clock + 1
  BY <1>6 DEF RunBlock
<1> QED
  BY <1>1, <1>2, <1>3, <1>4, <1>5, <1>6 DEF Next

\* A row that is there keeps all but that it may be merged, once.
LEMMA RowKept ==
  ASSUME Inv, Next, NEW k \in JobId, NEW p \in Phases, Usable(k, p)
  PROVE  /\ Usable(k, p)' /\ ~SavesRow(k, p)
         /\ outs'[k][p].at = outs[k][p].at /\ outs'[k][p].late = outs[k][p].late
         /\ outs'[k][p].inputs = outs[k][p].inputs
         /\ \/ outs'[k][p].merged = outs[k][p].merged
            \/ outs[k][p].merged = 0 /\ MergesRow(k, p) /\ outs'[k][p].merged = clock + 1
<1>1. TypeOK /\ RowsBehind
  BY DEF Inv
<1>2. KeepsOuts(k, p) \/ Saves(k, p) \/ MergesRow(k, p)
  BY <1>1, RowMoves
<1>3. ~SavesRow(k, p)
  <2>1. BlockOf[p] \in 1..5
    BY BlocksOfPhases DEF Blocks
  <2> QED
    BY <1>1, <2>1 DEF SavesRow, RowsBehind
<1>4. CASE KeepsOuts(k, p)
  BY <1>3, <1>4 DEF KeepsOuts, Usable
<1>5. CASE MergesRow(k, p)
  <2>1. outs[k][p].merged = 0
    BY <1>5 DEF MergesRow, Accepted, Eligible
  <2> QED
    BY <1>3, <1>5, <2>1 DEF MergesRow, Usable
<1> QED
  BY <1>2, <1>3, <1>4, <1>5 DEF Saves

\* A row that is there after a step was there before it, or is saved by it.
LEMMA RowNew ==
  ASSUME Inv, Next, NEW k \in JobId, NEW p \in Phases, Usable(k, p)'
  PROVE  Usable(k, p) \/ Saves(k, p)
<1>1. KeepsOuts(k, p) \/ Saves(k, p) \/ MergesRow(k, p)
  BY RowMoves DEF Inv
<1> QED
  BY <1>1 DEF KeepsOuts, MergesRow, Usable

LEMMA ClockedStep == Inv /\ Clocked /\ Next => Clocked'
<1> SUFFICES ASSUME Inv, Clocked, Next PROVE Clocked'
  OBVIOUS
<1>1. TypeOK /\ TypeOK'
  BY TypeStep DEF Inv
<1>2. clock \in Nat /\ clock' \in Nat /\ (clock' = clock \/ clock' = clock + 1)
  BY <1>1, ClockMoves DEF TypeOK
<1>3. ASSUME NEW k \in JobId, NEW p \in Phases
      PROVE  /\ outs[k][p].at \in Nat /\ outs[k][p].at <= clock
             /\ outs[k][p].merged \in Nat /\ outs[k][p].merged <= clock + 1
             /\ outs'[k][p].at \in Nat /\ outs'[k][p].merged \in Nat
  <2>1. outs'[k][p] \in Rows
    BY <1>1 DEF TypeOK
  <2> QED
    BY <1>1, <2>1, RowNumbers DEF Clocked, Rows
<1>4. ASSUME NEW k \in JobId, NEW p \in Phases
      PROVE  /\ \/ outs'[k][p].at = outs[k][p].at
                \/ Saves(k, p) /\ outs'[k][p].at = clock + 1 /\ clock' = clock + 1
             /\ outs'[k][p].merged \in {0, clock + 1, outs[k][p].merged}
  <2>1. KeepsOuts(k, p) \/ Saves(k, p) \/ MergesRow(k, p)
    BY <1>1, RowMoves
  <2> QED
    BY <2>1 DEF KeepsOuts, Saves, SavesRow, MergesRow
<1>5. ASSUME NEW k \in JobId, NEW p \in Phases
      PROVE  outs'[k][p].at <= clock' /\ outs'[k][p].merged <= clock' + 1
  BY <1>2, <1>3, <1>4
<1>6. ASSUME NEW k \in JobId, NEW p \in Phases, NEW i \in JobId, NEW q \in Phases,
             Usable(i, q)', outs'[i][q].at = outs'[k][p].at
      PROVE  i = k
  <2>1. CASE outs'[i][q].at = outs[i][q].at /\ outs'[k][p].at = outs[k][p].at
    <3>1. Usable(i, q) /\ outs[i][q].at = outs[k][p].at
      BY <1>6, <2>1 DEF Usable
    <3> QED
      BY <3>1 DEF Clocked
  <2>2. CASE Saves(i, q) /\ outs'[i][q].at = clock + 1
    <3>1. i # k => outs'[k][p].at = outs[k][p].at
      BY <1>1, <2>2, BlockSaves DEF Saves, SavesRow, KeepsOuts
    <3>2. outs[k][p].at \in Nat /\ outs[k][p].at <= clock
      BY <1>3
    <3> QED
      BY <1>2, <1>6, <2>2, <3>1, <3>2
  <2>3. CASE Saves(k, p) /\ outs'[k][p].at = clock + 1
    <3>1. i # k => outs'[i][q].at = outs[i][q].at
      BY <1>1, <2>3, BlockSaves DEF Saves, SavesRow, KeepsOuts
    <3>2. outs[i][q].at \in Nat /\ outs[i][q].at <= clock
      BY <1>3
    <3> QED
      BY <1>2, <1>6, <2>3, <3>1, <3>2
  <2> QED
    BY <1>4, <2>1, <2>2, <2>3
<1> QED
  BY <1>5, <1>6 DEF Clocked, Usable
-----------------------------------------------------------------------------
(* What a job made itself                                                   *)

\* What a run can do to its own memory of a phase.
LEMMA RunDoes ==
  ASSUME Inv, Next, NEW j \in JobId, Active(j)', ~Start(j), NEW p \in Phases
  PROVE  /\ Active(j) /\ KeepsRow(j)
         /\ \/ KeepsRun(j)
            \/ /\ SkipBlock(j) \/ RunBlock(j)
               /\ block[j] \in Blocks /\ block'[j] \in block[j] + 1..Persisting
               /\ Untouched(j, p) \/ Reuses(j, p) \/ Produces(j, p) \/ Misses(j, p)
<1>1. TypeOK /\ RunMove(j)
  BY Moves DEF Inv
<1>2. ~EndsRun(j)
  BY DEF EndsRun, Active, Ended, Persisting
<1>3. CASE KeepsRun(j)
  <2>1. Active(j)
    BY <1>3 DEF KeepsRun, Active
  <2> QED
    BY <1>3, <2>1, RunningRow
<1>4. CASE SkipBlock(j) \/ RunBlock(j)
  <2>1. block[j] \in Blocks /\ block'[j] \in block[j] + 1..Persisting
    BY <1>1, <1>4, BlockMoves
  <2>2. Active(j)
    BY <2>1 DEF Active, Blocks, Persisting
  <2>3. Untouched(j, p) \/ Reuses(j, p) \/ Produces(j, p) \/ Misses(j, p)
    BY <1>1, <1>4, BlockDoes
  <2> QED
    BY <1>4, <2>1, <2>2, <2>3, RunningRow
<1> QED
  BY <1>1, <1>2, <1>3, <1>4 DEF RunMove

\* The history of a run is of rows, whatever the step.
LEMMA Remembers ==
  ASSUME Inv, Made, Next, NEW k \in JobId, NEW p \in Phases, Active(k)', history'[k][p] # None
  PROVE  Usable(history[k][p], p)'
<1>1. TypeOK
  BY DEF Inv
<1>2. CASE Start(k)
  BY <1>1, <1>2, StartDoes DEF Usable
<1>3. ASSUME ~Start(k), history'[k][p] = history[k][p] PROVE Usable(history[k][p], p)'
  <2>1. PICK h \in JobId : h = history[k][p] /\ h = history'[k][p]
    BY <1>1, <1>3, Jobs
  <2>2. Usable(h, p)
    BY <1>3, <2>1, RunDoes DEF Made
  <2>3. Usable(h, p)'
    BY <2>1, <2>2, RowsStay
  <2> QED
    BY <2>1, <2>3 DEF Usable
<1>4. CASE Produces(k, p)
  BY <1>4 DEF Produces, Usable
<1> QED
  BY <1>2, <1>3, <1>4, RunDoes DEF KeepsRun, Untouched, Reuses, Misses

LEMMA MadeStep == Inv /\ Made /\ Next => Made'
<1> SUFFICES ASSUME Inv, Made, Next, NEW k \in JobId, NEW p \in Phases, Active(k)', Usable(k, p)'
             PROVE  saved'[k][p] = k /\ history'[k][p] = k /\ checkpoints'[k][p] = k
  BY Remembers DEF Made, Usable
<1>1. TypeOK /\ RowsBehind /\ Waiting
  BY DEF Inv
<1>2. BlockOf[p] \in 1..5
  BY BlocksOfPhases DEF Blocks
<1>3. ~Start(k)
  <2>1. ASSUME Start(k) PROVE FALSE
    <3>1. block[k] = 0 /\ outs' = outs
      BY <1>1, <2>1 DEF Start, Claim, Waiting
    <3>2. Usable(k, p)
      BY <3>1 DEF Usable
    <3> QED
      BY <1>1, <1>2, <3>1, <3>2 DEF RowsBehind
  <2> QED
    BY <2>1
<1>4. Active(k)
  BY <1>3, RunDoes
<1>5. CASE Usable(k, p)
  <2>1. saved[k][p] = k /\ history[k][p] = k /\ checkpoints[k][p] = k
    BY <1>4, <1>5 DEF Made
  <2>2. BlockOf[p] < block[k]
    BY <1>1, <1>5 DEF RowsBehind
  <2>3. CASE KeepsRun(k)
    BY <2>1, <2>3 DEF KeepsRun
  <2>4. CASE Untouched(k, p)
    BY <2>1, <2>4 DEF Untouched
  <2>5. BlockOf[p] # block[k]
    BY <1>1, <1>2, <2>2 DEF TypeOK, Ended
  <2> QED
    BY <1>3, <2>3, <2>4, <2>5, RunDoes DEF Reuses, Produces, Misses
<1>6. CASE Saves(k, p)
  <2>1. Untouched(k, p) \/ Reuses(k, p) \/ Produces(k, p) \/ Misses(k, p)
    BY <1>1, <1>6, BlockDoes DEF Saves, SavesRow
  <2>2. ~Usable(k, p)
    BY <1>6, RowKept DEF Saves
  <2>3. ~KeepsOuts(k, p)
    BY <2>2 DEF KeepsOuts, Usable
  <2> QED
    BY <2>1, <2>3 DEF Untouched, Reuses, Produces, Misses
<1> QED
  BY <1>5, <1>6, RowNew

LEMMA SelfFedStep == Inv /\ Made /\ SelfFed /\ Next => SelfFed'
<1> SUFFICES ASSUME Inv, Made, SelfFed, Next, NEW k \in JobId, NEW p \in Phases,
                    Usable(k, p)', NEW d \in Deps(p), Usable(k, d)'
             PROVE  outs'[k][p].inputs[d] = k
  BY DEF SelfFed
<1>1. TypeOK /\ RowsBehind /\ Made'
  BY MadeStep DEF Inv
<1>2. d \in Phases /\ BlockOf[d] <= BlockOf[p]
  BY DepsBefore
<1>3. CASE Usable(k, p)
  <2>1. ~Saves(k, d)
    <3>1. BlockOf[p] < block[k] /\ BlockOf[p] \in 1..5 /\ BlockOf[d] \in 1..5 /\ block[k] \in 0..7
      BY <1>1, <1>2, <1>3, BlocksOfPhases DEF RowsBehind, Blocks, TypeOK, Ended
    <3> QED
      BY <1>2, <3>1 DEF Saves, SavesRow
  <2>2. Usable(k, d)
    BY <1>2, <2>1, RowNew
  <2> QED
    BY <1>3, <2>2, RowKept DEF SelfFed
<1>4. CASE Saves(k, p)
  <2>1. Active(k)'
    <3>1. block[k] \in Blocks /\ block'[k] \in block[k] + 1..Persisting
      BY <1>1, <1>4, BlockMoves DEF Saves, SavesRow
    <3> QED
      BY <3>1 DEF Active, Blocks, Persisting
  <2>2. saved'[k][d] = k
    BY <1>1, <1>2, <2>1 DEF Made
  <2> QED
    BY <1>4, <2>2 DEF Saves
<1> QED
  BY <1>3, <1>4, RowNew

LEMMA OverdueStep == OrderInv /\ Overdue /\ Next => Overdue'
<1> SUFFICES ASSUME OrderInv, Overdue, Next, NEW k \in JobId, NEW p \in Phases,
                    Usable(k, p)', outs'[k][p].late
             PROVE  status'[k] = "cancelled"
  BY DEF Overdue, Usable
<1>1. Inv /\ TypeOK /\ Cancelled
  BY DEF OrderInv, Inv
<1>2. CASE Usable(k, p)
  <2>1. status[k] = "cancelled"
    BY <1>1, <1>2, RowKept DEF Overdue
  <2>2. KeepsJob(k)
    BY <1>1, <2>1, Moves DEF JobMove, Joins, EndsJob, Start, Claim
  <2> QED
    BY <2>1, <2>2 DEF KeepsJob
<1>3. CASE Saves(k, p)
  <2>1. RunBlock(k) /\ outs'[k][p].late = ~Running(k)
    BY <1>3 DEF Saves, SavesRow
  <2>2. ~Running(k)
    BY <2>1
  <2>3. Active(k) /\ status' = status
    BY <2>1 DEF RunBlock, Active, Blocks, Persisting, jobVars
  <2> QED
    BY <1>1, <2>2, <2>3 DEF Cancelled, Running
<1> QED
  BY <1>1, <1>2, <1>3, RowNew
-----------------------------------------------------------------------------
(* The lineage                                                              *)

\* What is fixed of a job from the moment it is enqueued.
LEMMA Fixed ==
  ASSUME OrderInv, Next, NEW k \in JobId, status[k] # "none"
  PROVE  /\ status'[k] # "none" /\ KeepsRow(k) /\ (Redo(k)' <=> Redo(k))
         /\ Selected(k)' = Selected(k) /\ Forced(k)' = Forced(k)
         /\ (HasParent(k)' <=> HasParent(k))
<1>1. KeepsRow(k) /\ status'[k] # "none"
  BY Lives DEF OrderInv, Inv, Joins
<1> QED
  BY <1>1, RedoStays DEF KeepsRow, Selected, Planned, Forced, HasParent

\* The jobs of a lineage: they exist, and none is later than its last.
LEMMA LineagePast ==
  ASSUME OrderInv, NEW x \in JobId, NEW k \in lineage[x]
  PROVE  k \in JobId /\ k \in Nat /\ x \in Nat /\ k <= x /\ status[k] # "none"
BY LineageJobs DEF OrderInv, Inv, Line

\* A job that joins begins a lineage or goes on with that of another.
LEMMA JoinsLine ==
  ASSUME OrderInv, Next, NEW x \in JobId, Joins(x)
  PROVE  \/ lineage'[x] = {x} /\ plan'[x] = NoPlan
         \/ \E q \in JobId :
              /\ Continues(x, q) /\ q \in lineage[q] /\ q < x
              /\ lineage'[x] = {x} \cup lineage[q]
              /\ \A k \in lineage[q] : k < x
<1>1. Inv /\ TypeOK /\ Line /\ OwnLine
  BY DEF OrderInv, Inv
<1>2. CASE Adds(x, None, NoPlan)
  BY <1>1, <1>2, Added
<1>3. ASSUME NEW q \in JobId, Continues(x, q)
      PROVE  /\ q \in lineage[q] /\ q < x
             /\ lineage'[x] = {x} \cup lineage[q]
             /\ \A k \in lineage[q] : k < x
  <2>1. PICK new : Adds(x, q, new)
    BY <1>3 DEF Continues
  <2>2. status[q] # "none" /\ status[x] = "none"
    BY <1>3 DEF Continues, Joins
  <2>3. q \in lineage[q] /\ q \in Nat /\ x \in Nat
    BY <1>1, <2>2, LineageJobs DEF OwnLine
  <2>4. q < x
    BY <1>1, <2>2, <2>3 DEF Line
  <2>5. lineage'[x] = {x} \cup lineage[q]
    BY <1>1, <2>1, Added, Ids DEF None, JobId
  <2>6. \A k \in lineage[q] : k < x
    BY <2>3, <2>4, LineagePast
  <2> QED
    BY <2>3, <2>4, <2>5, <2>6
<1> QED
  BY <1>1, <1>2, <1>3, Enqueued

LEMMA TreeStep == OrderInv /\ Tree /\ Next => Tree'
<1> SUFFICES ASSUME OrderInv, Tree, Next, NEW x \in JobId, NEW k \in lineage'[x]
             PROVE  lineage'[k] = {i \in lineage'[x] : i <= k}
  BY DEF Tree
<1>1. TypeOK
  BY DEF OrderInv, Inv
<1>2. CASE ~Joins(x)
  <2>1. lineage'[x] = lineage[x]
    BY <1>1, <1>2, Lives DEF KeepsRow
  <2>2. lineage'[k] = lineage[k]
    BY <2>1, LineagePast, Fixed DEF KeepsRow
  <2> QED
    BY <2>1, <2>2 DEF Tree
<1>3. CASE Joins(x)
  <2>1. CASE lineage'[x] = {x}
    BY <2>1 DEF JobId
  <2>2. ASSUME NEW q \in JobId, lineage'[x] = {x} \cup lineage[q], \A i \in lineage[q] : i < x
        PROVE  lineage'[k] = {i \in lineage'[x] : i <= k}
    <3>1. \A i \in lineage[q] : i \in Nat /\ x \in Nat
      BY LineagePast DEF JobId
    <3>2. CASE k = x
      BY <2>2, <3>1, <3>2 DEF JobId
    <3>3. CASE k # x
      <4>1. k \in lineage[q] /\ lineage[k] = {i \in lineage[q] : i <= k}
        BY <2>2, <3>3 DEF Tree
      <4>2. lineage'[k] = lineage[k]
        BY <4>1, LineagePast, Fixed DEF KeepsRow
      <4>3. k < x /\ k \in Nat /\ x \in Nat
        BY <2>2, <3>1, <4>1
      <4> QED
        BY <2>2, <4>1, <4>2, <4>3
    <3> QED
      BY <3>2, <3>3
  <2> QED
    BY <1>3, <2>1, <2>2, JoinsLine
<1> QED
  BY <1>2, <1>3

\* Which plan a job that continues q gets.
LEMMA NextPlans ==
  ASSUME OrderInv, Next, NEW x \in JobId, NEW q \in JobId, Continues(x, q)
  PROVE  \/ plan'[x] = plan[q]
         \/ Redo(x)' /\ Selected(x)' = Forced(x)'
         \/ Selected(x)' = Selected(q) /\ Forced(x)' = Selected(q) \ Reusable(q)
<1>1. TypeOK
  BY DEF OrderInv, Inv
<1>2. CASE Adds(x, q, plan[q])
  BY <1>1, <1>2, Added
<1>3. ASSUME NEW S \in SUBSET Phases, S # {}, Adds(x, q, ForceAll(S))
      PROVE  Redo(x)' /\ Selected(x)' = Forced(x)'
  <2>1. plan'[x] = ForceAll(S)
    BY <1>1, <1>3, Added
  <2> QED
    BY <1>3, <2>1 DEF ForceAll, Redo, Planned, NoPlan, Selected, Forced
<1>4. CASE Adds(x, q, [selected |-> SourcePlan(q).selected,
                       forced |-> SourcePlan(q).selected \ Reusable(q)])
  <2>1. plan'[x] = [selected |-> SourcePlan(q).selected,
                    forced |-> SourcePlan(q).selected \ Reusable(q)]
    BY <1>1, <1>4, Added
  <2>2. SourcePlan(q).selected # {} /\ SourcePlan(q).selected = Selected(q)
    BY <1>1, Sources DEF SourcePlan, Selected
  <2> QED
    BY <2>1, <2>2 DEF Planned, NoPlan, Selected, Forced
<1> QED
  BY <1>2, <1>3, <1>4 DEF Continues

LEMMA SameSelectionStep == OrderInv /\ SameSelection /\ Next => SameSelection'
<1> SUFFICES ASSUME OrderInv, SameSelection, Next, NEW x \in JobId, NEW k \in lineage'[x],
                    \A c \in lineage'[x] : k < c => ~Redo(c)'
             PROVE  Selected(x)' = Selected(k)'
  BY DEF SameSelection
<1>1. TypeOK
  BY DEF OrderInv, Inv
<1>2. CASE ~Joins(x)
  <2>1. lineage'[x] = lineage[x]
    BY <1>1, <1>2, Lives DEF KeepsRow
  <2>2. status[x] # "none"
    BY <2>1 DEF OrderInv, Line
  <2>3. \A c \in lineage[x] : c \in JobId /\ (Redo(c)' <=> Redo(c)) /\ Selected(c)' = Selected(c)
    BY LineagePast, Fixed
  <2> QED
    BY <2>1, <2>2, <2>3, Fixed DEF SameSelection
<1>3. CASE Joins(x)
  <2>1. CASE lineage'[x] = {x}
    BY <2>1
  <2>2. ASSUME NEW q \in JobId, Continues(x, q), lineage'[x] = {x} \cup lineage[q],
               \A i \in lineage[q] : i < x, q \in lineage[q], k # x
        PROVE  Selected(x)' = Selected(k)'
    <3>1. \A c \in lineage[q] : c \in JobId /\ (Redo(c)' <=> Redo(c)) /\ Selected(c)' = Selected(c)
      BY LineagePast, Fixed
    <3>2. k \in lineage[q] /\ Selected(q) = Selected(k)
      BY <2>2, <3>1 DEF SameSelection
    <3>3. ~Redo(x)'
      BY <2>2, <3>2
    <3>4. plan'[x] = plan[q] => Selected(x)' = Selected(q)
      BY DEF Selected, Planned
    <3> QED
      BY <2>2, <3>1, <3>2, <3>3, <3>4, NextPlans
  <2> QED
    BY <1>3, <2>1, <2>2, JoinsLine
<1> QED
  BY <1>2, <1>3

LEMMA OwedStep == OrderInv /\ Owed /\ Next => Owed'
<1> SUFFICES ASSUME OrderInv, Owed, Next, NEW x \in JobId, NEW k \in lineage'[x],
                    NEW d \in Forced(k)', d \in Selected(x)', d \notin Forced(x)'
             PROVE  \E y \in lineage'[x] : k <= y /\ y < x /\ Usable(y, d)'
  BY DEF Owed
<1>1. TypeOK /\ Inv
  BY DEF OrderInv, Inv
<1>2. CASE ~Joins(x)
  <2>1. lineage'[x] = lineage[x]
    BY <1>1, <1>2, Lives DEF KeepsRow
  <2>2. status[x] # "none"
    BY <2>1 DEF OrderInv, Line
  <2>3. d \in Forced(k) /\ d \in Selected(x) /\ d \notin Forced(x)
    BY <2>1, <2>2, LineagePast, Fixed
  <2>4. PICK y \in lineage[x] : k <= y /\ y < x /\ Usable(y, d)
    BY <2>1, <2>3 DEF Owed
  <2>5. d \in Phases /\ y \in JobId
    BY <1>1, <2>3, Tables, LineagePast
  <2> QED
    BY <1>1, <2>1, <2>4, <2>5, RowsStay
<1>3. CASE Joins(x)
  <2>1. CASE lineage'[x] = {x}
    BY <2>1
  <2>2. ASSUME NEW q \in JobId, Continues(x, q), lineage'[x] = {x} \cup lineage[q],
               \A i \in lineage[q] : i < x, q \in lineage[q], k # x
        PROVE  \E y \in lineage'[x] : k <= y /\ y < x /\ Usable(y, d)'
    <3>0. k \in lineage[q] /\ q < x /\ x \in Nat
      BY <2>2 DEF JobId
    <3>1. k \in Nat /\ q \in Nat /\ k <= q /\ d \in Forced(k)
      BY <3>0, LineagePast, Fixed
    <3>2. \A y \in lineage[q] : Usable(y, d) => Usable(y, d)'
      <4>1. d \in Phases
        BY <1>1, <3>0, <3>1, Tables, LineagePast DEF Forced
      <4> QED
        BY <1>1, <4>1, LineagePast, RowsStay
    <3>3. CASE Usable(q, d)
      BY <2>2, <3>0, <3>1, <3>2, <3>3
    <3>4. CASE d \in Selected(q) /\ d \notin Forced(q)
      <4>1. PICK y \in lineage[q] : k <= y /\ y < q /\ Usable(y, d)
        BY <3>0, <3>1, <3>4 DEF Owed
      <4> QED
        BY <2>2, <3>0, <3>1, <3>2, <4>1
    <3>5. CASE plan'[x] = plan[q]
      <4>1. Selected(x)' = Selected(q) /\ Forced(x)' = Forced(q)
        BY <3>5 DEF Selected, Forced, Planned
      <4> QED
        BY <3>4, <4>1
    <3>6. CASE Selected(x)' = Selected(q) /\ Forced(x)' = Selected(q) \ Reusable(q)
      <4>1. d \in Selected(q) /\ d \in Reusable(q)
        BY <3>6
      <4>2. Usable(q, d) \/ d \notin SourcePlan(q).forced
        BY <4>1 DEF Reusable
      <4>3. d \in Forced(q) => d \in SourcePlan(q).forced
        BY DEF Forced, SourcePlan, Planned, NoPlan
      <4> QED
        BY <3>3, <3>4, <4>1, <4>2, <4>3
    <3>7. ~(Selected(x)' = Forced(x)')
      OBVIOUS
    <3> QED
      BY <2>2, <3>5, <3>6, <3>7, NextPlans
  <2>3. k # x
    OBVIOUS
  <2> QED
    BY <1>3, <2>1, <2>2, <2>3, JoinsLine
<1> QED
  BY <1>2, <1>3
-----------------------------------------------------------------------------
(* What a running job found                                                 *)

\* A set of naturals that is not empty has a least element.
LEMMA Least ==
  ASSUME NEW T \in SUBSET Nat, T # {}
  PROVE  \E x \in T : \A y \in T : x <= y
<1> DEFINE R == OpToRel(<, Nat)
<1>1. IsWellFoundedOn(R, Nat)
  BY NatLessThanWellFounded, Zenon
<1>2. \A a, b \in Nat : <<a, b>> \in R <=> a < b
  BY DEF OpToRel
<1> HIDE DEF R
<1>3. PICK x \in T : \A y \in T : ~(<<y, x>> \in R)
  BY <1>1, WFMin, Zenon
<1>4. ASSUME NEW y \in T PROVE x <= y
  <2>1. x \in Nat /\ y \in Nat /\ ~(y < x)
    BY <1>2, <1>3
  <2> QED
    BY <2>1
<1> QED
  BY <1>4

\* Of the jobs with a row there is one with the newest.
LEMMA NewestThere ==
  ASSUME TypeOK, Clocked, NEW p \in Phases, NEW S \in SUBSET JobId, S # {}
  PROVE  /\ Newest(S, p) \in S
         /\ \A i \in S : outs[i][p].at <= outs[Newest(S, p)][p].at
<1> DEFINE T == {clock - outs[i][p].at : i \in S}
           top == {k \in S : \A i \in S : outs[i][p].at <= outs[k][p].at}
<1>1. \A i \in S : outs[i][p].at \in Nat /\ outs[i][p].at <= clock /\ clock \in Nat
  BY RowNumbers DEF Clocked, TypeOK
<1>2. T \in SUBSET Nat /\ T # {}
  BY <1>1
<1>3. PICK x \in T : \A y \in T : x <= y
  BY <1>2, Least
<1>4. PICK k \in S : x = clock - outs[k][p].at
  OBVIOUS
<1>5. ASSUME NEW i \in S PROVE outs[i][p].at <= outs[k][p].at
  <2>1. clock - outs[k][p].at <= clock - outs[i][p].at
    BY <1>3, <1>4
  <2> QED
    BY <1>1, <2>1
<1>6. top # {}
  BY <1>5
<1>7. (CHOOSE i \in top : TRUE) \in top
  BY <1>6
<1>8. Newest(S, p) = IF top = {} THEN None ELSE CHOOSE i \in top : TRUE
  BY DEF Newest
<1> QED
  BY <1>6, <1>7, <1>8

\* While a job runs nothing is merged, until its own write.
LEMMA NoMerge ==
  ASSUME Inv, Next, NEW k \in JobId, Running(k), Active(k)', NEW i \in JobId, NEW q \in Phases
  PROVE  ~MergesRow(i, q)
<1>1. ASSUME NEW j \in JobId, Persist(j), Accepted(j) PROVE FALSE
  <2>1. j = k
    BY <1>1 DEF Inv, Single, Accepted
  <2>2. block'[j] = Ended
    BY <1>1 DEF Inv, Persist, Report, Over, TypeOK
  <2> QED
    BY <2>1, <2>2 DEF Active, Ended, Persisting
<1> QED
  BY <1>1 DEF MergesRow

\* While a job runs, a row another saves is late and newer than all others.
LEMMA OthersLate ==
  ASSUME Inv, Clocked, Next, NEW k \in JobId, Running(k), NEW i \in JobId \ {k},
         NEW q \in Phases, Saves(i, q)
  PROVE  outs'[i][q].late /\ Newer(k, i, q)'
<1>1. TypeOK /\ Single /\ clock \in Nat
  BY DEF Inv, TypeOK
<1>2. \A z \in JobId \ {k} : ~Running(z)
  BY <1>1 DEF Single
<1>3. ASSUME NEW z \in JobId \ {k}, NEW r \in Phases, Usable(z, r)', ~outs'[z][r].late
      PROVE  outs'[z][r].at < clock + 1
  <2>1. ~Saves(z, r)
    BY <1>2, <1>3 DEF Saves
  <2>2. outs'[z][r].at = outs[z][r].at
    BY <1>3, <2>1, RowNew, RowKept
  <2>3. outs[z][r].at <= clock /\ outs[z][r].at \in Nat
    BY <1>1, RowNumbers DEF Clocked
  <2> QED
    BY <1>1, <2>2, <2>3
<1> QED
  BY <1>2, <1>3 DEF Saves, Newer, Usable

LEMMA SharpStep == OrderInv /\ Clocked /\ Sharp /\ Next => Sharp'
<1> SUFFICES ASSUME OrderInv, Clocked, Sharp, Next, NEW k \in JobId, NEW q \in Phases,
                    Running(k)', Active(k)', HasParent(k)', q \in Selected(k)', ~Usable(k, q)'
             PROVE  SharpOf(k, q)'
  BY DEF Sharp
<1>1. Inv /\ TypeOK /\ Line
  BY DEF OrderInv, Inv
<1>2. CASE Start(k)
  <2>1. status[k] # "none" /\ outs' = outs
    BY <1>2 DEF Start, Claim
  <2>2. HasParent(k) /\ q \in Selected(k) /\ lineage'[k] = lineage[k] /\ ~Usable(k, q)
    BY <2>1, Fixed DEF KeepsRow, Usable
  <2>3. \A i \in JobId : i \in Seen(k, q) <=> Held(k, q, i)
    BY <2>2 DEF Seen, Held
  <2>4. \A i \in JobId : Held(k, q, i)' <=> Held(k, q, i)
    BY <2>1, <2>2 DEF Held, Usable
  <2>5. history'[k][q] = Newest(Seen(k, q), q)
    BY <1>1, <1>2 DEF Start, TypeOK
  <2>6. Seen(k, q) \in SUBSET JobId
    BY DEF Seen
  <2>7. CASE Seen(k, q) = {}
    <3>1. history'[k][q] = None
      BY <2>5, <2>6, <2>7, NewestSeen
    <3> QED
      BY <2>3, <2>4, <2>7, <3>1 DEF SharpOf
  <2>8. CASE Seen(k, q) # {}
    <3>1. /\ history'[k][q] \in Seen(k, q)
          /\ \A i \in Seen(k, q) : outs'[i][q].at <= outs'[history'[k][q]][q].at
      BY <1>1, <2>1, <2>5, <2>6, <2>8, NewestThere
    <3>2. history'[k][q] \in JobId /\ history'[k][q] # None
      BY <2>6, <3>1, CheckpointAssumption DEF JobId, None
    <3> QED
      BY <2>3, <2>4, <3>1, <3>2 DEF SharpOf
  <2> QED
    BY <2>7, <2>8
<1>3. CASE ~Start(k)
  <2>1. Active(k) /\ KeepsRow(k)
    BY <1>1, <1>3, RunDoes
  <2>2. Running(k)
    BY <1>1, <1>3, <2>1, Moves, CheckpointAssumption
      DEF JobMove, Joins, KeepsJob, EndsJob, Running, Inv, Waiting, Active, Persisting
  <2>3. HasParent(k) /\ q \in Selected(k) /\ ~Usable(k, q) /\ lineage'[k] = lineage[k]
    BY <1>1, <2>1, RowsStay DEF KeepsRow, HasParent, Selected, Planned
  <2>4. SharpOf(k, q)
    BY <2>1, <2>2, <2>3 DEF Sharp
  <2>5. history'[k][q] = history[k][q]
    <3>1. ~Produces(k, q)
      BY DEF Produces, Usable
    <3> QED
      BY <1>1, <1>3, <3>1, RunDoes DEF KeepsRun, Untouched, Reuses, Misses
  <2>0. PICK h : h = history[k][q]
    OBVIOUS
  <2>6. \A i \in JobId : ~MergesRow(i, q)
    BY <1>1, <2>2, NoMerge
  <2>7. ASSUME h # None PROVE Held(k, q, h)'
    <3>1. Held(k, q, h) /\ h \in JobId
      BY <1>1, <2>0, <2>4, <2>7, Jobs DEF SharpOf
    <3>2. Usable(h, q)' /\ outs'[h][q].merged = outs[h][q].merged
      BY <1>1, <2>6, <3>1, RowKept DEF Held
    <3> QED
      BY <2>3, <3>1, <3>2 DEF Held, Usable
  <2>8. ASSUME NEW i \in JobId, Held(k, q, i)'
        PROVE  (h # None /\ outs'[i][q].at <= outs'[h][q].at) \/ Newer(k, i, q)'
    <3>1. CASE Saves(i, q)
      BY <1>1, <2>2, <2>3, <2>8, <3>1, OthersLate DEF Held
    <3>2. CASE Usable(i, q)
      <4>1. Held(k, q, i) /\ outs'[i][q].at = outs[i][q].at
        BY <1>1, <2>3, <2>8, <3>2, RowKept, RowsStay DEF Held
      <4>2. CASE h # None /\ outs[i][q].at <= outs[h][q].at
        <5>1. h \in JobId /\ Usable(h, q)
          BY <1>1, <2>0, <2>4, <4>2, Jobs DEF SharpOf, Held
        <5>2. outs'[h][q].at = outs[h][q].at
          BY <1>1, <5>1, RowKept
        <5> QED
          BY <4>1, <4>2, <5>2
      <4>3. CASE Newer(k, i, q)
        <5>1. ASSUME NEW z \in JobId \ {k}, NEW r \in Phases, Usable(z, r)', ~outs'[z][r].late
              PROVE  outs'[z][r].at < outs'[i][q].at
          <6>1. ~Saves(z, r)
            BY <1>1, <2>2, <5>1, OthersLate
          <6>2. Usable(z, r) /\ outs'[z][r].at = outs[z][r].at /\ ~outs[z][r].late
            BY <1>1, <5>1, <6>1, RowNew, RowKept
          <6> QED
            BY <4>1, <4>3, <5>1, <6>2 DEF Newer
        <5> QED
          BY <5>1 DEF Newer, Usable
      <4> QED
        BY <2>0, <2>4, <4>1, <4>2, <4>3 DEF SharpOf
    <3> QED
      BY <1>1, <2>8, <3>1, <3>2, RowNew DEF Held, Usable
  <2> QED
    BY <2>0, <2>5, <2>7, <2>8 DEF SharpOf
<1> QED
  BY <1>2, <1>3
-----------------------------------------------------------------------------
(* What a run decided of a phase                                            *)

\* All phases but slugs depend on phases of earlier blocks.
LEMMA DepsEarlier ==
  \A p \in Phases \ {"slugs"} :
    \A d \in Deps(p) : d \in Phases \ {"slugs"} /\ BlockOf[d] < BlockOf[p]
<1>1. Phases \subseteq {"detect", "slugs", "acquire", "names", "descriptions",
                        "stockists", "faq", "products"}
  BY CheckpointAssumption DEF PhaseDeps
<1> QED
  BY <1>1 DEF Deps, PhaseDeps, BlockOf

\* Whether a phase is satisfied depends on it and on earlier blocks only.
LEMMA SatisfiedBefore ==
  ASSUME NEW j \in JobId, NEW d \in Phases \ {"slugs"}, Selected(j)' = Selected(j),
         \A q \in Phases : q = d \/ BlockOf[q] < BlockOf[d] => Time(j, q)' = Time(j, q)
  PROVE  Satisfied(j, d)' <=> Satisfied(j, d)
<1> DEFINE Below(S) == {q \in S : q = d \/ BlockOf[q] < BlockOf[d]}
<1>1. \A q \in Phases \ {"slugs"} : BlockOf[q] \in 1..5
  BY BlocksOfPhases DEF Blocks
<1>2. ASSUME NEW S, NEW q \in Below(S), S \subseteq Phases, q # "slugs", NEW e \in Deps(q), e \in S
      PROVE  e \in Below(S) /\ e \in Phases /\ e # "slugs"
  BY <1>1, <1>2, DepsEarlier
<1>3. ASSUME NEW S \in SUBSET Phases PROVE Below(S) \ {"slugs"} \in SUBSET Phases
  OBVIOUS
<1>4. ASSUME Satisfied(j, d) PROVE Satisfied(j, d)'
  <2>1. PICK S \in SUBSET Phases :
          /\ d \in S
          /\ \A p \in S :
               /\ Time(j, p) # 0
               /\ \A e \in Deps(p) \cap Selected(j) : e \in S /\ Time(j, e) <= Time(j, p)
    BY <1>4 DEF Satisfied
  <2> DEFINE B == Below(S) \ {"slugs"}
  <2>2. d \in B /\ B \in SUBSET Phases
    BY <2>1
  <2>3. ASSUME NEW p \in B
        PROVE  /\ Time(j, p)' # 0
               /\ \A e \in Deps(p) \cap Selected(j)' : e \in B /\ Time(j, e)' <= Time(j, p)'
    <3>1. Time(j, p)' = Time(j, p) /\ Time(j, p) # 0
      BY <2>1
    <3>2. ASSUME NEW e \in Deps(p) \cap Selected(j)'
          PROVE  e \in B /\ Time(j, e)' = Time(j, e) /\ Time(j, e) <= Time(j, p)
      BY <1>2, <2>1
    <3> QED
      BY <3>1, <3>2
  <2> HIDE DEF B
  <2> QED
    BY <2>2, <2>3 DEF Satisfied
<1>5. ASSUME Satisfied(j, d)' PROVE Satisfied(j, d)
  <2>1. PICK S \in SUBSET Phases :
          /\ d \in S
          /\ \A p \in S :
               /\ Time(j, p)' # 0
               /\ \A e \in Deps(p) \cap Selected(j)' : e \in S /\ Time(j, e)' <= Time(j, p)'
    BY <1>5 DEF Satisfied
  <2> DEFINE B == Below(S) \ {"slugs"}
  <2>2. d \in B /\ B \in SUBSET Phases
    BY <2>1
  <2>3. ASSUME NEW p \in B
        PROVE  /\ Time(j, p) # 0
               /\ \A e \in Deps(p) \cap Selected(j) : e \in B /\ Time(j, e) <= Time(j, p)
    <3>1. Time(j, p)' = Time(j, p) /\ Time(j, p)' # 0
      BY <2>1
    <3>2. ASSUME NEW e \in Deps(p) \cap Selected(j)
          PROVE  e \in B /\ Time(j, e)' = Time(j, e) /\ Time(j, e)' <= Time(j, p)'
      BY <1>2, <2>1
    <3> QED
      BY <3>1, <3>2
  <2> HIDE DEF B
  <2> QED
    BY <2>2, <2>3 DEF Satisfied
<1> QED
  BY <1>4, <1>5

\* Rows keep their time, so what the history tells of a phase stays.
LEMMA TimeStays ==
  ASSUME Inv, Made, Next, NEW k \in JobId, Active(k), NEW q \in Phases,
         history'[k][q] = history[k][q]
  PROVE  Time(k, q)' = Time(k, q)
<1>1. CASE history[k][q] = None
  BY <1>1 DEF Time
<1>2. CASE history[k][q] # None
  <2>1. PICK h \in JobId : h = history[k][q] /\ h = history'[k][q]
    BY <1>2, Jobs DEF Inv
  <2>2. outs'[h][q].at = outs[h][q].at
    BY <1>2, <2>1, RowKept DEF Made
  <2> QED
    BY <2>1, <2>2 DEF Time
<1> QED
  BY <1>1, <1>2

\* A run that comes to a block has been through all blocks before it.
LEMMA NoneSkipped ==
  ASSUME Inv, NEW k \in JobId, Start(k) \/ SkipBlock(k) \/ RunBlock(k), NEW d \in Phases,
         BlockOf[d] < block'[k]
  PROVE  BlockOf[d] <= block[k] /\ ~Start(k)
<1>1. TypeOK /\ Waiting
  BY DEF Inv
<1>2. BlockOf[d] \in 1..5 /\ d \in PhasesOf(BlockOf[d])
  BY BlocksOfPhases DEF Blocks, PhasesOf
<1>3. block[k] \in 0..5 /\ block'[k] = NextBlock(block[k])
  <2>1. CASE Start(k)
    BY <1>1, <2>1 DEF Start, Claim, Waiting, TypeOK
  <2>2. CASE SkipBlock(k) \/ RunBlock(k)
    BY <1>1, <2>2 DEF SkipBlock, RunBlock, Blocks, TypeOK
  <2> QED
    BY <2>1, <2>2
<1>4. /\ block'[k] \in block[k] + 1..Persisting
      /\ \A i \in block[k] + 1..block'[k] - 1 : PhasesOf(i) = {}
  BY <1>3, NextBlocks
<1>5. BlockOf[d] <= block[k]
  <2>1. ~(BlockOf[d] \in block[k] + 1..block'[k] - 1)
    BY <1>2, <1>4
  <2> QED
    BY <1>2, <1>3, <1>4, <2>1 DEF Persisting
<1>6. Start(k) => block[k] = 0
  BY <1>1 DEF Start, Claim, Waiting
<1> QED
  BY <1>2, <1>5, <1>6

LEMMA DecidedStep == OrderInv /\ Made /\ Decided /\ Next => Decided'
<1> SUFFICES ASSUME OrderInv, Made, Decided, Next, NEW k \in JobId, NEW d \in Phases,
                    Active(k)', d # "slugs", d \in Selected(k)', BlockOf[d] < block'[k]
             PROVE  DecidedOf(k, d)'
  BY DEF Decided
<1>1. Inv /\ TypeOK /\ Memory /\ RowsBehind
  BY DEF OrderInv, Inv
<1>2. BlockOf[d] \in 1..5 /\ block[k] \in 0..7
  BY <1>1, BlocksOfPhases DEF Blocks, TypeOK, Ended
<1>3. ~Start(k)
  BY <1>1, <1>2, NoneSkipped DEF Inv, Waiting, Start, Claim
<1>4. Active(k) /\ KeepsRow(k)
  BY <1>1, <1>3, RunDoes
<1>5. d \in Selected(k) /\ Selected(k)' = Selected(k) /\ Forced(k)' = Forced(k)
  BY <1>4 DEF KeepsRow, Selected, Planned, Forced
<1>6. Usable(k, d) => Usable(k, d)'
  BY <1>1, RowsStay
<1>7. ASSUME \A q \in Phases : q = d \/ BlockOf[q] < BlockOf[d] => history'[k][q] = history[k][q]
      PROVE  Satisfied(k, d)' <=> Satisfied(k, d)
  <2>1. \A q \in Phases : q = d \/ BlockOf[q] < BlockOf[d] => Time(k, q)' = Time(k, q)
    BY <1>1, <1>4, <1>7, TimeStays
  <2> QED
    BY <1>5, <2>1, SatisfiedBefore
<1>8. CASE KeepsRun(k)
  <2>1. DecidedOf(k, d)
    BY <1>4, <1>5, <1>8 DEF Decided, KeepsRun
  <2>2. saved'[k][d] = saved[k][d] /\ \A q \in Phases : history'[k][q] = history[k][q]
    BY <1>8 DEF KeepsRun
  <2> QED
    BY <1>5, <1>6, <1>7, <2>1, <2>2 DEF DecidedOf
<1>9. CASE SkipBlock(k) \/ RunBlock(k)
  <2>1. BlockOf[d] <= block[k]
    BY <1>1, <1>9, NoneSkipped
  <2>2. \A q \in Phases :
          Untouched(k, q) \/ Reuses(k, q) \/ Produces(k, q) \/ Misses(k, q)
    BY <1>1, <1>9, BlockDoes
  <2>3. ASSUME NEW q \in Phases, BlockOf[q] < block[k]
        PROVE  saved'[k][q] = saved[k][q] /\ history'[k][q] = history[k][q]
    <3>1. BlockOf[q] # block[k]
      BY <1>2, <2>3, BlocksOfPhases DEF Blocks
    <3> QED
      BY <2>2, <3>1 DEF Untouched, Reuses, Produces, Misses
  <2>4. CASE BlockOf[d] < block[k]
    <3>1. DecidedOf(k, d)
      BY <1>4, <1>5, <2>4 DEF Decided
    <3>2. \A q \in Phases : q = d \/ BlockOf[q] < BlockOf[d] => history'[k][q] = history[k][q]
      BY <1>2, <2>3, <2>4, BlocksOfPhases DEF Blocks
    <3> QED
      BY <1>5, <1>6, <1>7, <2>3, <2>4, <3>1, <3>2 DEF DecidedOf
  <2>5. CASE BlockOf[d] = block[k]
    <3>1. \A q \in Phases : BlockOf[q] < BlockOf[d] => history'[k][q] = history[k][q]
      BY <2>3, <2>5
    <3>2. CASE Produces(k, d)
      BY <3>2 DEF Produces, DecidedOf, Usable
    <3>3. CASE Misses(k, d)
      <4>1. Satisfied(k, d)' <=> Satisfied(k, d)
        BY <1>7, <3>1, <3>3 DEF Misses
      <4> QED
        BY <1>5, <3>3, <4>1 DEF Misses, DecidedOf, NeedsExecution
    <3>4. CASE Reuses(k, d)
      <4>1. Satisfied(k, d)' <=> Satisfied(k, d)
        BY <1>7, <3>1, <3>4 DEF Reuses
      <4>2. saved[k][d] = history[k][d] /\ history[k][d] # None
        BY <1>1, <1>2, <1>4, <2>5, <3>4 DEF Memory, MemoryOf, Reuses
      <4>3. ~Usable(k, d)
        BY <1>1, <1>2, <2>5 DEF RowsBehind
      <4>4. saved[k][d] # k
        BY <1>4, <4>2, <4>3 DEF Made
      <4> QED
        BY <1>5, <3>4, <4>1, <4>2, <4>4 DEF Reuses, DecidedOf
    <3>5. ~Untouched(k, d)
      BY <1>5, <2>5 DEF Untouched
    <3> QED
      BY <2>2, <3>2, <3>3, <3>4, <3>5
  <2> QED
    BY <1>2, <2>1, <2>4, <2>5
<1> QED
  BY <1>1, <1>3, <1>8, <1>9, RunDoes
-----------------------------------------------------------------------------
(* What a row was computed from                                             *)

\* What there was of the lineage when a row was saved, stays so.
LEMMA CandStays ==
  ASSUME OrderInv, Clocked, Next, NEW k \in JobId, NEW p \in Phases, Usable(k, p),
         NEW q \in Phases, NEW i \in JobId
  PROVE  /\ Cand(k, p, q, i)' <=> Cand(k, p, q, i)
         /\ Cand(k, p, q, i) =>
              outs'[i][q].at = outs[i][q].at /\ outs'[i][q].late = outs[i][q].late
<1>1. Inv /\ TypeOK /\ RowsBehind /\ Waiting /\ clock \in Nat
  BY DEF OrderInv, Inv, TypeOK
<1>2. lineage'[k] = lineage[k]
  <2>1. block[k] # 0
    BY <1>1, BlocksOfPhases DEF RowsBehind, Blocks
  <2> QED
    BY <1>1, <2>1, Fixed DEF Waiting, KeepsRow
<1>3. /\ outs'[k][p].at = outs[k][p].at /\ outs[k][p].at \in Nat /\ outs[k][p].at <= clock
  BY <1>1, RowKept, RowNumbers DEF Clocked
<1>4. CASE Usable(i, q)
  <2>1. /\ Usable(i, q)' /\ outs'[i][q].at = outs[i][q].at /\ outs'[i][q].late = outs[i][q].late
        /\ \/ outs'[i][q].merged = outs[i][q].merged
           \/ outs[i][q].merged = 0 /\ outs'[i][q].merged = clock + 1
    BY <1>1, <1>4, RowKept
  <2>2. clock + 1 > outs[k][p].at
    BY <1>1, <1>3
  <2>3. (outs'[i][q].merged = 0 \/ outs'[i][q].merged > outs'[k][p].at)
          <=> (outs[i][q].merged = 0 \/ outs[i][q].merged > outs[k][p].at)
    BY <1>3, <2>1, <2>2
  <2> QED
    BY <1>2, <1>3, <1>4, <2>1, <2>3 DEF Cand, Usable
<1>5. CASE ~Usable(i, q)
  <2>1. ASSUME Cand(k, p, q, i)' PROVE FALSE
    <3>1. Usable(i, q)' /\ outs'[i][q].at < outs'[k][p].at
      BY <2>1 DEF Cand, Usable
    <3>2. outs'[i][q].at = clock + 1
      BY <1>1, <1>5, <3>1, RowNew DEF Saves
    <3> QED
      BY <1>1, <1>3, <3>1, <3>2
  <2> QED
    BY <1>5, <2>1 DEF Cand
<1> QED
  BY <1>4, <1>5

\* A row that is there keeps its account.
LEMMA TracedStays ==
  ASSUME OrderInv, Clocked, Traced, Next, NEW k \in JobId, NEW p \in Phases, Usable(k, p),
         ~outs'[k][p].late, HasParent(k)', p # "slugs", NEW d \in Deps(p) \cap Selected(k)'
  PROVE  TracedOf(k, p, d)'
<1>1. Inv /\ TypeOK /\ RowsBehind /\ Waiting
  BY DEF OrderInv, Inv
<1>2. status[k] # "none"
  <2>1. block[k] # 0
    BY <1>1, BlocksOfPhases DEF RowsBehind, Blocks
  <2> QED
    BY <1>1, <2>1 DEF Waiting
<1>3. /\ HasParent(k) /\ lineage'[k] = lineage[k]
      /\ Selected(k)' = Selected(k) /\ Forced(k)' = Forced(k)
  BY <1>2, Fixed DEF KeepsRow
<1>4. outs'[k][p].inputs = outs[k][p].inputs /\ ~outs[k][p].late
  BY <1>1, RowKept
<1>5. d \in Phases /\ TracedOf(k, p, d)
  BY <1>3, <1>4, DepsBefore DEF Traced
<1>6. \A q \in Phases, i \in JobId :
        /\ Cand(k, p, q, i)' <=> Cand(k, p, q, i)
        /\ Cand(k, p, q, i) =>
             outs'[i][q].at = outs[i][q].at /\ outs'[i][q].late = outs[i][q].late
  BY CandStays
<1>7. PICK y : y = outs[k][p].inputs[d] /\ y = outs'[k][p].inputs[d]
  BY <1>4
<1>8. CASE y = k
  <2>1. \/ Usable(k, d) \/ d \in Forced(k)
        \/ ~\E S \in SUBSET Selected(k), f \in [Phases -> JobId] : Fitting(k, p, d, S, f)
    BY <1>5, <1>7, <1>8 DEF TracedOf
  <2>2. Usable(k, d) => Usable(k, d)'
    BY <1>1, <1>5, RowsStay
  <2>3. ASSUME NEW S \in SUBSET Selected(k)', NEW f \in [Phases -> JobId],
               Fitting(k, p, d, S, f)'
        PROVE  Fitting(k, p, d, S, f)
    <3>1. Selected(k) \in SUBSET Phases
      BY <1>1, Tables
    <3>2. ASSUME NEW q \in S
          PROVE  /\ q \in Phases /\ f[q] \in JobId /\ ~Usable(k, q) /\ Top(k, p, q, f[q])
                 /\ outs'[f[q]][q].at = outs[f[q]][q].at
                 /\ outs'[f[q]][q].late = outs[f[q]][q].late
      <4>1. q \in Phases /\ f[q] \in JobId
        BY <1>3, <3>1
      <4>2. ~Usable(k, q)' /\ Top(k, p, q, f[q])'
        BY <2>3 DEF Fitting, Usable, Top, Cand
      <4>3. Cand(k, p, q, f[q])
        BY <1>6, <4>1, <4>2 DEF Top, Cand, Usable
      <4>4. \A z \in JobId : Cand(k, p, q, z) => outs[z][q].at <= outs[f[q]][q].at
        BY <1>6, <4>1, <4>2, <4>3 DEF Top
      <4>5. ~Usable(k, q)
        BY <1>1, <4>1, <4>2, RowsStay
      <4> QED
        BY <1>6, <4>1, <4>3, <4>4, <4>5 DEF Top
    <3>3. d \in S /\ ~outs[f[d]][d].late
      BY <2>3, <3>2 DEF Fitting
    <3>4. ASSUME NEW q \in S
          PROVE  /\ outs[f[q]][q].at <= outs[f[d]][d].at
                 /\ \A e \in Deps(q) \cap Selected(k) :
                      e \in S /\ outs[f[e]][e].at <= outs[f[q]][q].at
      <4>1. /\ outs'[f[q]][q].at <= outs'[f[d]][d].at
            /\ \A e \in Deps(q) \cap Selected(k)' :
                 e \in S /\ outs'[f[e]][e].at <= outs'[f[q]][q].at
        BY <2>3 DEF Fitting
      <4> QED
        BY <1>3, <3>2, <3>3, <4>1
    <3> QED
      BY <3>2, <3>3, <3>4 DEF Fitting
  <2> QED
    BY <1>3, <1>7, <1>8, <2>1, <2>2, <2>3 DEF TracedOf
<1>9. CASE y # k
  <2>1. /\ Cand(k, p, d, y)
        /\ \A i \in JobId : Cand(k, p, d, i) /\ ~outs[i][d].late => outs[i][d].at <= outs[y][d].at
    BY <1>5, <1>7, <1>9 DEF TracedOf
  <2>2. y \in JobId
    BY <1>1, <2>1, Tables DEF Cand
  <2>3. /\ Cand(k, p, d, y)'
        /\ \A i \in JobId :
             Cand(k, p, d, i)' /\ ~outs'[i][d].late => outs'[i][d].at <= outs'[y][d].at
    BY <1>5, <1>6, <2>1, <2>2
  <2> QED
    BY <1>7, <1>9, <2>3 DEF TracedOf, Cand, Usable
<1> QED
  BY <1>8, <1>9

\* A row that a block saves in time has one: what the run decided of d, and found.
LEMMA TracedSaved ==
  ASSUME OrderInv, Clocked, Made, Sharp, Decided, Next, NEW k \in JobId, NEW p \in Phases,
         Saves(k, p), ~outs'[k][p].late, HasParent(k)', p # "slugs",
         NEW d \in Deps(p) \cap Selected(k)'
  PROVE  TracedOf(k, p, d)'
<1>1. Inv /\ TypeOK /\ clock \in Nat
  BY DEF OrderInv, Inv, TypeOK
<1>2. /\ RunBlock(k) /\ BlockOf[p] = block[k] /\ outs'[k][p].at = clock + 1 /\ Running(k)
      /\ outs'[k][p].inputs[d] = saved'[k][d]
  BY DEF Saves, SavesRow
<1>3. Active(k) /\ status[k] # "none"
  BY <1>2 DEF RunBlock, Active, Blocks, Persisting, Running
<1>4. /\ HasParent(k) /\ lineage'[k] = lineage[k]
      /\ Selected(k)' = Selected(k) /\ Forced(k)' = Forced(k)
  BY <1>3, Fixed DEF KeepsRow
<1>5. d \in Phases \ {"slugs"} /\ BlockOf[d] < BlockOf[p] /\ d \in Selected(k)
  BY <1>4, DepsEarlier
<1>6. saved'[k][d] = saved[k][d]
  <2>1. BlockOf[d] # block[k]
    BY <1>2, <1>5, BlocksOfPhases DEF Blocks
  <2> QED
    BY <1>1, <1>2, <1>5, <2>1, BlockDoes DEF Untouched, Reuses, Produces, Misses
<1>7. DecidedOf(k, d)
  BY <1>2, <1>3, <1>5 DEF Decided
<1>8. \A q \in Phases : q \in Selected(k) /\ ~Usable(k, q) => SharpOf(k, q)
  BY <1>2, <1>3, <1>4 DEF Sharp
<1>9. ASSUME NEW q \in Phases, NEW i \in JobId
      PROVE  /\ Cand(k, p, q, i)' <=> Held(k, q, i)
             /\ i # k => outs'[i][q] = outs[i][q]
  <2>1. i # k => outs'[i][q] = outs[i][q]
    BY <1>1, <1>2, BlockSaves DEF KeepsOuts
  <2>2. /\ outs[i][q].at \in Nat /\ outs[i][q].at <= clock
        /\ outs[i][q].merged \in Nat /\ outs[i][q].merged <= clock + 1
    BY <1>1, RowNumbers DEF Clocked
  <2>3. outs[i][q].at < clock + 1 /\ ~(outs[i][q].merged > clock + 1)
    BY <1>1, <2>2
  <2> QED
    BY <1>2, <1>4, <2>1, <2>3 DEF Cand, Held, Usable
<1>10. CASE saved[k][d] # k
  <2>1. PICK h : h = history[k][d] /\ h = outs'[k][p].inputs[d]
    BY <1>2, <1>6, <1>7, <1>10 DEF DecidedOf
  <2>2. h # None /\ h # k
    BY <1>2, <1>6, <1>7, <1>10, <2>1 DEF DecidedOf, Satisfied, Time
  <2>3. ~Usable(k, d)
    BY <1>3, <1>5, <1>10 DEF Made
  <2>4. SharpOf(k, d) /\ h \in JobId
    BY <1>1, <1>5, <1>8, <2>1, <2>2, <2>3, Jobs
  <2>5. Held(k, d, h)
    BY <2>1, <2>2, <2>4 DEF SharpOf
  <2>6. ASSUME NEW i \in JobId, Held(k, d, i), ~outs[i][d].late
        PROVE  outs[i][d].at <= outs[h][d].at
    <3>1. ~Newer(k, i, d)
      <4>1. i \in JobId \ {k} /\ Usable(i, d) /\ outs[i][d].at \in Nat
        BY <1>1, <1>5, <2>6, RowNumbers DEF Held
      <4>2. ~(outs[i][d].at < outs[i][d].at)
        BY <4>1
      <4> QED
        BY <1>5, <2>6, <4>1, <4>2 DEF Newer
    <3> QED
      BY <2>1, <2>4, <2>6, <3>1 DEF SharpOf
  <2>7. /\ Cand(k, p, d, h)'
        /\ \A i \in JobId :
             Cand(k, p, d, i)' /\ ~outs'[i][d].late => outs'[i][d].at <= outs'[h][d].at
    <3>1. \A i \in JobId : Held(k, d, i) => i # k
      BY DEF Held
    <3> QED
      BY <1>5, <1>9, <2>2, <2>4, <2>5, <2>6, <3>1
  <2> QED
    BY <2>1, <2>2, <2>7 DEF TracedOf, Cand, Usable
<1>11. CASE saved[k][d] = k
  <2>1. outs'[k][p].inputs[d] = k
    BY <1>2, <1>6, <1>11
  <2>2. Usable(k, d) \/ d \in Forced(k) \/ ~Satisfied(k, d)
    BY <1>7, <1>11 DEF DecidedOf
  <2>3. Usable(k, d) => Usable(k, d)'
    BY <1>1, <1>5, RowsStay
  <2>4. ASSUME NEW S \in SUBSET Selected(k)', NEW f \in [Phases -> JobId],
               Fitting(k, p, d, S, f)'
        PROVE  Satisfied(k, d)
    <3>1. S \in SUBSET Phases /\ d \in S
      BY <1>1, <1>4, <2>4, Tables DEF Fitting
    <3>2. ASSUME NEW q \in S
          PROVE  /\ q \in Phases /\ q \in Selected(k) /\ f[q] \in JobId /\ ~Usable(k, q)
                 /\ Held(k, q, f[q]) /\ outs'[f[q]][q] = outs[f[q]][q]
      <4>1. q \in Phases /\ q \in Selected(k) /\ f[q] \in JobId
        BY <1>4, <3>1
      <4>2. ~Usable(k, q)' /\ Top(k, p, q, f[q])'
        BY <2>4 DEF Fitting, Usable, Top, Cand
      <4>3. Cand(k, p, q, f[q])'
        BY <4>2 DEF Top, Cand, Usable
      <4>4. Held(k, q, f[q]) /\ f[q] # k
        BY <1>9, <4>1, <4>3 DEF Held
      <4>5. ~Usable(k, q)
        BY <1>1, <4>1, <4>2, RowsStay
      <4> QED
        BY <1>9, <4>1, <4>4, <4>5
    <3>3. ~outs[f[d]][d].late /\ Usable(f[d], d) /\ f[d] \in JobId \ {k}
      BY <2>4, <3>1, <3>2 DEF Fitting, Held
    <3>4. ASSUME NEW q \in S
          PROVE  /\ outs[f[q]][q].at <= outs[f[d]][d].at
                 /\ \A e \in Deps(q) \cap Selected(k) :
                      e \in S /\ outs[f[e]][e].at <= outs[f[q]][q].at
                 /\ \A z \in JobId : Held(k, q, z) => outs[z][q].at <= outs[f[q]][q].at
      <4>1. /\ outs'[f[q]][q].at <= outs'[f[d]][d].at
            /\ \A e \in Deps(q) \cap Selected(k)' :
                 e \in S /\ outs'[f[e]][e].at <= outs'[f[q]][q].at
            /\ Top(k, p, q, f[q])'
        BY <2>4 DEF Fitting, Top, Cand, Usable
      <4>2. \A z \in JobId : Cand(k, p, q, z)' => outs'[z][q].at <= outs'[f[q]][q].at
        BY <4>1 DEF Top, Cand, Usable
      <4>3. ASSUME NEW z \in JobId, Held(k, q, z) PROVE outs[z][q].at <= outs[f[q]][q].at
        <5>1. Cand(k, p, q, z)' /\ outs'[z][q] = outs[z][q]
          BY <1>9, <3>2, <4>3 DEF Held
        <5> QED
          BY <3>2, <4>2, <5>1
      <4> QED
        BY <1>4, <3>1, <3>2, <4>1, <4>3
    <3>5. ASSUME NEW q \in S PROVE Time(k, q) = outs[f[q]][q].at /\ Time(k, q) # 0
      <4>1. SharpOf(k, q) /\ Held(k, q, f[q])
        BY <1>8, <3>2
      <4>2. outs[f[q]][q].at \in Nat /\ outs[f[d]][d].at \in Nat
        BY <1>1, <3>1, <3>2, RowNumbers
      <4>3. ~Newer(k, f[q], q)
        <5>1. ~(outs[f[d]][d].at < outs[f[q]][q].at)
          BY <3>4, <4>2
        <5> QED
          BY <3>1, <3>3, <5>1 DEF Newer
      <4>4. PICK h : h = history[k][q]
        OBVIOUS
      <4>5. h # None /\ outs[f[q]][q].at <= outs[h][q].at /\ Held(k, q, h)
        BY <3>2, <4>1, <4>3, <4>4 DEF SharpOf
      <4>6. h \in JobId /\ outs[h][q].at \in Nat
        BY <1>1, <3>2, <4>4, <4>5, Jobs, RowNumbers
      <4>7. outs[h][q].at <= outs[f[q]][q].at
        BY <3>4, <4>5, <4>6
      <4> QED
        BY <4>2, <4>4, <4>5, <4>6, <4>7 DEF Time, Held, Usable
    <3>6. ASSUME NEW q \in S
          PROVE  /\ Time(k, q) # 0
                 /\ \A e \in Deps(q) \cap Selected(k) : e \in S /\ Time(k, e) <= Time(k, q)
      BY <3>4, <3>5
    <3> QED
      BY <3>1, <3>6 DEF Satisfied
  <2> QED
    BY <1>4, <2>1, <2>2, <2>3, <2>4 DEF TracedOf
<1> QED
  BY <1>10, <1>11

LEMMA TracedStep ==
  OrderInv /\ Clocked /\ Made /\ Sharp /\ Decided /\ Traced /\ Next => Traced'
<1> SUFFICES ASSUME OrderInv, Clocked, Made, Sharp, Decided, Traced, Next,
                    NEW k \in JobId, NEW p \in Phases, Usable(k, p)', ~outs'[k][p].late,
                    HasParent(k)', p # "slugs", NEW d \in Deps(p) \cap Selected(k)'
             PROVE  TracedOf(k, p, d)'
  BY DEF Traced
<1> QED
  BY TracedStays, TracedSaved, RowNew DEF OrderInv
-----------------------------------------------------------------------------
(* Detection and slugs                                                      *)

\* A plan selects and forces both or neither.
LEMMA TwinSelected ==
  ASSUME Both, TwinPlans, NEW j \in JobId
  PROVE  /\ TwinSet(Selected(j)) /\ TwinSet(Forced(j))
         /\ TwinSet(SourcePlan(j).selected) /\ TwinSet(SourcePlan(j).forced)
BY DEF Both, TwinPlans, TwinSet, Selected, Forced, SourcePlan

\* So do the scopes of a phase retry
LEMMA TwinScopes == ASSUME NEW S \in RetryScopes PROVE Both => TwinSet(S)
<1> SUFFICES ASSUME Both PROVE TwinSet(S)
  OBVIOUS
<1>1. "detect" \in Phases /\ "slugs" \in Phases
  BY DEF Both
<1>2. ASSUME NEW b PROVE TwinSet(PhasesOf(b))
  BY <1>1 DEF PhasesOf, TwinSet, BlockOf
<1>3. ASSUME NEW p \in PhasesOf(Editorial) PROVE TwinSet({p})
  <2>1. p # "detect" /\ p # "slugs"
    BY DEF PhasesOf, Editorial, BlockOf
  <2> QED
    BY <2>1 DEF TwinSet
<1>4. ASSUME NEW B PROVE TwinSet(UNION {PhasesOf(c) : c \in B})
  BY <1>2 DEF TwinSet
<1> QED
  BY <1>2, <1>3, <1>4 DEF RetryScopes

\* and a resume.
LEMMA TwinResume ==
  ASSUME TypeOK, Both, TwinPlans, TwinRows, TwinRuns, NEW j \in JobId
  PROVE  TwinSet(ResumePlan(j).selected) /\ TwinSet(ResumePlan(j).forced)
<1> DEFINE S == SourcePlan(j).selected
           R == Reusable(j)
           U == S \cap Unfinished(j)
<1>1. TwinSet(S) /\ TwinSet(SourcePlan(j).forced)
  BY TwinSelected
<1>2. "detect" \in Phases /\ "slugs" \in Phases /\ results[j]["detect"] = results[j]["slugs"]
  BY DEF Both, TwinRuns, Twin
<1>3. TwinSet(FailedPhases(j)) /\ TwinSet(Unfinished(j))
  BY <1>2 DEF FailedPhases, Unfinished, TwinSet
<1>4. TwinSet(R)
  <2>1. \A k \in lineage[j] :
          /\ Usable(k, "detect") <=> Usable(k, "slugs")
          /\ outs[k]["detect"].merged = outs[k]["slugs"].merged
    BY Tables DEF TwinRows, Usable
  <2> QED
    BY <1>1, <1>3, <2>1 DEF Reusable, TwinSet
<1>5. TwinSet(S \ R) /\ TwinSet(U)
  BY <1>1, <1>3, <1>4 DEF TwinSet
<1> HIDE DEF S, R, U
<1>6. ResumePlan(j) \in {ForceAll(S), [selected |-> S, forced |-> S \ R], ForceAll(U)}
  BY DEF ResumePlan, S, R, U
<1> QED
  BY <1>1, <1>5, <1>6 DEF ForceAll, S

LEMMA TwinEnqueue ==
  ASSUME TypeOK, TwinPlans, NEW n \in JobId, NEW q, NEW k, NEW new, Enqueue(n, q, k, new),
         TwinSet(new.selected), TwinSet(new.forced)
  PROVE  TwinPlans' /\ outs' = outs /\ UNCHANGED runVars
<1>1. plan' = [plan EXCEPT ![n] = new] /\ plan \in [JobId -> Plans]
  BY DEF Enqueue, TypeOK
<1> QED
  BY <1>1 DEF Enqueue, TwinPlans, TwinSet

LEMMA TwinOver ==
  ASSUME TypeOK, TwinRuns, NEW j \in JobId, Over(j), NEW r, Both,
         results' = [results EXCEPT ![j] = r], Twin(r)
  PROVE  TwinRuns'
<1>1. Twin(Nothing)
  BY DEF Both, Twin, Nothing
<1>2. ASSUME NEW i \in JobId
      PROVE  Twin(saved'[i]) /\ Twin(history'[i]) /\ Twin(results'[i]) /\ Twin(checkpoints'[i])
  BY <1>1 DEF TypeOK, TwinRuns, Over
<1> QED
  BY <1>2 DEF TwinRuns, Twin

LEMMA TwinReport ==
  ASSUME TypeOK, TwinRuns, NEW j \in JobId, NEW o, NEW r, Report(j, o, r), Both, Twin(r)
  PROVE  TwinRuns' /\ plan' = plan
<1>1. Twin(NoResults)
  BY DEF Both, Twin, NoResults
<1>2. PICK res : results' = [results EXCEPT ![j] = res] /\ Twin(res)
  BY <1>1 DEF Report
<1> QED
  BY <1>2, TwinOver DEF Report

\* A run takes the rows of one job for both.
LEMMA TwinStart ==
  ASSUME TypeOK, Both, TwinPlans, TwinRows, TwinRuns, NEW j \in JobId, Start(j)
  PROVE  TwinRuns'
<1>1. "detect" \in Phases /\ "slugs" \in Phases
  BY DEF Both
<1>2. \A k \in JobId :
        /\ outs[k]["detect"].at = outs[k]["slugs"].at
        /\ outs[k]["detect"].merged = outs[k]["slugs"].merged
  BY DEF TwinRows
<1>3. Seen(j, "detect") = Seen(j, "slugs")
  BY <1>2, TwinSelected DEF Seen, Usable, TwinSet
<1> DEFINE S == Seen(j, "detect")
           Tops(p) == {k \in S : \A i \in S : outs[i][p].at <= outs[k][p].at}
<1>4. Tops("detect") = Tops("slugs")
  BY <1>2 DEF Seen
<1>5. \A p : Newest(S, p) = IF Tops(p) = {} THEN None ELSE CHOOSE k \in Tops(p) : TRUE
  BY DEF Newest
<1> HIDE DEF Tops, S
<1>6. Newest(S, "detect") = Newest(S, "slugs")
  BY <1>4, <1>5
<1>7. /\ saved'[j]["detect"] = Newest(S, "detect") /\ saved'[j]["slugs"] = Newest(S, "slugs")
      /\ history'[j]["detect"] = Newest(S, "detect")
      /\ history'[j]["slugs"] = Newest(S, "slugs")
  BY <1>1, <1>3 DEF Start, TypeOK, S
<1>8. ASSUME NEW i \in JobId
      PROVE  Twin(saved'[i]) /\ Twin(history'[i]) /\ Twin(results'[i]) /\ Twin(checkpoints'[i])
  <2>1. CASE i = j
    BY <1>6, <1>7, <2>1 DEF Start, TwinRuns, Twin
  <2>2. CASE i # j
    BY <2>2 DEF Start, TypeOK, TwinRuns
  <2> QED
    BY <2>1, <2>2
<1> QED
  BY <1>8 DEF TwinRuns, Twin

\* Both are satisfied or neither is: each if it has a row in the history.
LEMMA TwinSatisfied ==
  ASSUME TypeOK, Both, TwinPlans, TwinRows, TwinRuns, NEW j \in JobId
  PROVE  Satisfied(j, "detect") <=> Satisfied(j, "slugs")
<1>1. "detect" \in Phases /\ "slugs" \in Phases
  BY DEF Both
<1>2. Time(j, "detect") = Time(j, "slugs") /\ Time(j, "detect") \in Nat
  <2>1. history[j]["detect"] = history[j]["slugs"]
    BY DEF TwinRuns, Twin
  <2>2. CASE history[j]["detect"] = None
    BY <2>1, <2>2 DEF Time
  <2>3. CASE history[j]["detect"] # None
    <3>1. PICK h \in JobId : h = history[j]["detect"]
      BY <1>1, <2>3, Jobs
    <3>2. outs[h]["detect"].at = outs[h]["slugs"].at /\ outs[h]["detect"].at \in Nat
      BY <1>1, RowNumbers DEF TwinRows
    <3> QED
      BY <2>1, <2>3, <3>1, <3>2 DEF Time
  <2> QED
    BY <2>2, <2>3
<1>3. Deps("detect") = {} /\ Deps("slugs") = {"detect"}
  BY <1>1 DEF Deps, PhaseDeps
<1>4. ASSUME Satisfied(j, "detect") PROVE Satisfied(j, "slugs")
  <2>1. Time(j, "slugs") # 0
    BY <1>2, <1>4 DEF Satisfied
  <2> DEFINE S == {"detect", "slugs"}
  <2>2. S \in SUBSET Phases /\ "slugs" \in S
    BY <1>1
  <2>3. \A p \in S :
          /\ Time(j, p) # 0
          /\ \A d \in Deps(p) \cap Selected(j) : d \in S /\ Time(j, d) <= Time(j, p)
    BY <1>2, <1>3, <2>1
  <2> HIDE DEF S
  <2> QED
    BY <2>2, <2>3 DEF Satisfied
<1>5. ASSUME Satisfied(j, "slugs") PROVE Satisfied(j, "detect")
  <2>1. Time(j, "detect") # 0
    BY <1>2, <1>5 DEF Satisfied
  <2>2. {"detect"} \in SUBSET Phases
    BY <1>1
  <2>3. \A p \in {"detect"} :
          /\ Time(j, p) # 0
          /\ \A d \in Deps(p) \cap Selected(j) : d \in {"detect"} /\ Time(j, d) <= Time(j, p)
    BY <1>3, <2>1
  <2> QED
    BY <2>2, <2>3 DEF Satisfied
<1> QED
  BY <1>4, <1>5

\* A block executes both or neither.
LEMMA TwinExecute ==
  ASSUME TypeOK, Both, TwinPlans, TwinRows, TwinRuns, NEW j \in JobId
  PROVE  TwinSet(Chosen(j)) /\ TwinSet(Execute(j))
<1>1. "detect" \in Phases /\ "slugs" \in Phases
  BY DEF Both
<1>2. TwinSet(Selected(j)) /\ TwinSet(Forced(j))
  BY TwinSelected
<1>3. BlockOf["detect"] = BlockOf["slugs"]
  BY DEF BlockOf
<1>4. TwinSet(Chosen(j))
  BY <1>1, <1>2, <1>3 DEF Chosen, PhasesOf, TwinSet
<1>5. NeedsExecution(j, "detect") <=> NeedsExecution(j, "slugs")
  BY <1>2, TwinSatisfied DEF NeedsExecution, TwinSet
<1> QED
  BY <1>4, <1>5 DEF Execute, TwinSet

\* What a run takes of one it takes of the other.
LEMMA TwinReused ==
  ASSUME TypeOK, Both, TwinRows, TwinRuns, NEW j \in JobId, NEW S, TwinSet(S)
  PROVE  Twin(TakeReused(j, S))
<1>1. "detect" \in Phases /\ "slugs" \in Phases
  BY DEF Both
<1>2. /\ saved[j]["detect"] = saved[j]["slugs"]
      /\ checkpoints[j]["detect"] = checkpoints[j]["slugs"]
  BY DEF TwinRuns, Twin
<1>3. saved[j]["detect"] # None =>
        outs[saved[j]["detect"]]["detect"].merged = outs[saved[j]["slugs"]]["slugs"].merged
  <2>1. saved[j]["detect"] # None => saved[j]["detect"] \in JobId
    BY <1>1, Jobs
  <2> QED
    BY <1>2, <2>1 DEF TwinRows
<1>4. \A p \in Phases :
        TakeReused(j, S)[p] =
          IF p \in S /\ saved[j][p] # None /\ outs[saved[j][p]][p].merged = 0
               /\ Owned(j, saved[j][p])
          THEN saved[j][p] ELSE checkpoints[j][p]
  BY DEF TakeReused
<1> QED
  BY <1>1, <1>2, <1>3, <1>4 DEF Twin, TwinSet

\* A block saves both or neither.
LEMMA TwinBlock ==
  ASSUME TypeOK, Both, TwinPlans, TwinRows, TwinRuns, NEW j \in JobId, RunBlock(j)
  PROVE  TwinRows' /\ TwinRuns'
<1>1. PICK outcome \in [Execute(j) -> Results] :
        LET exec == Execute(j)
            done == {q \in exec : outcome[q] = "succeeded"} IN
        /\ {"detect", "slugs"} \subseteq exec => outcome["detect"] = outcome["slugs"]
        /\ outs' = [outs EXCEPT ![j] = Recorded(j, exec, done)]
        /\ saved' = [saved EXCEPT ![j] = [q \in Phases |-> IF q \in exec THEN j ELSE @[q]]]
        /\ history' = [history EXCEPT ![j] = [q \in Phases |-> IF q \in done THEN j ELSE @[q]]]
        /\ checkpoints' = [checkpoints EXCEPT ![j] = [q \in Phases |->
                             IF q \in done THEN j ELSE TakeReused(j, Chosen(j) \ exec)[q]]]
        /\ results' = [results EXCEPT ![j] = [q \in Phases |->
                         IF q \in exec THEN outcome[q]
                         ELSE IF q \in Chosen(j) THEN "history" ELSE @[q]]]
  BY DEF RunBlock
<1> DEFINE exec == Execute(j)
           done == {q \in exec : outcome[q] = "succeeded"}
<1>2. "detect" \in Phases /\ "slugs" \in Phases
  BY DEF Both
<1>3. TwinSet(exec) /\ TwinSet(Chosen(j)) /\ TwinSet(done) /\ TwinSet(Chosen(j) \ exec)
  <2>1. TwinSet(exec) /\ TwinSet(Chosen(j))
    BY TwinExecute
  <2>2. "detect" \in exec => outcome["detect"] = outcome["slugs"]
    BY <1>1, <2>1 DEF TwinSet
  <2> QED
    BY <2>1, <2>2 DEF TwinSet
<1>4. Twin(TakeReused(j, Chosen(j) \ exec))
  BY <1>3, TwinReused
<1>5. "detect" \in exec => outcome["detect"] = outcome["slugs"]
  BY <1>1, <1>3 DEF TwinSet
<1> HIDE DEF exec, done
<1>6. /\ outs' = [outs EXCEPT ![j] = Recorded(j, exec, done)]
      /\ saved' = [saved EXCEPT ![j] = [q \in Phases |-> IF q \in exec THEN j ELSE @[q]]]
      /\ history' = [history EXCEPT ![j] = [q \in Phases |-> IF q \in done THEN j ELSE @[q]]]
      /\ checkpoints' = [checkpoints EXCEPT ![j] = [q \in Phases |->
                           IF q \in done THEN j ELSE TakeReused(j, Chosen(j) \ exec)[q]]]
      /\ results' = [results EXCEPT ![j] = [q \in Phases |->
                       IF q \in exec THEN outcome[q]
                       ELSE IF q \in Chosen(j) THEN "history" ELSE @[q]]]
  BY <1>1 DEF exec, done
<1>7. Twin(saved[j]) /\ Twin(history[j]) /\ Twin(results[j]) /\ Twin(checkpoints[j])
  BY DEF TwinRuns
<1>8. ASSUME NEW i \in JobId
      PROVE  Twin(saved'[i]) /\ Twin(history'[i]) /\ Twin(results'[i]) /\ Twin(checkpoints'[i])
  <2>1. CASE i = j
    <3>1. \A q \in Phases :
            /\ saved'[j][q] = IF q \in exec THEN j ELSE saved[j][q]
            /\ history'[j][q] = IF q \in done THEN j ELSE history[j][q]
            /\ checkpoints'[j][q] = IF q \in done THEN j ELSE TakeReused(j, Chosen(j) \ exec)[q]
            /\ results'[j][q] = IF q \in exec THEN outcome[q]
                                ELSE IF q \in Chosen(j) THEN "history" ELSE results[j][q]
      BY <1>6 DEF TypeOK
    <3>2. Twin(saved'[j]) /\ Twin(history'[j])
      BY <1>2, <1>3, <1>7, <3>1 DEF Twin, TwinSet
    <3>3. Twin(results'[j])
      BY <1>2, <1>3, <1>5, <1>7, <3>1 DEF Twin, TwinSet
    <3>4. Twin(checkpoints'[j])
      BY <1>2, <1>3, <1>4, <3>1 DEF Twin, TwinSet
    <3> QED
      BY <2>1, <3>2, <3>3, <3>4
  <2>2. CASE i # j
    BY <1>6, <2>2 DEF TypeOK, TwinRuns
  <2> QED
    BY <2>1, <2>2
<1>9. ASSUME NEW i \in JobId
      PROVE  /\ outs'[i]["detect"].at = outs'[i]["slugs"].at
             /\ outs'[i]["detect"].merged = outs'[i]["slugs"].merged
  <2>1. CASE i # j
    BY <1>6, <2>1 DEF TypeOK, TwinRows
  <2>2. CASE i = j
    <3>1. \A q \in Phases : q \in done => outs'[j][q].at = clock + 1 /\ outs'[j][q].merged = 0
      BY <1>6 DEF TypeOK, Recorded
    <3>2. \A q \in Phases : q \notin done => outs'[j][q] = outs[j][q]
      BY <1>6 DEF TypeOK, Recorded
    <3> QED
      BY <1>2, <1>3, <2>2, <3>1, <3>2 DEF TwinSet, TwinRows
  <2> QED
    BY <2>1, <2>2
<1> QED
  BY <1>8, <1>9 DEF TwinRuns, TwinRows, Twin

\* A write stamps both or neither.
LEMMA TwinMerge ==
  ASSUME TypeOK, Both, TwinRows, TwinRuns, NEW j \in JobId, Merge(j)
  PROVE  TwinRows'
<1>1. "detect" \in Phases /\ "slugs" \in Phases
  BY DEF Both
<1>2. checkpoints[j]["detect"] = checkpoints[j]["slugs"]
  BY DEF TwinRuns, Twin
<1>3. "detect" \in Taken(j) <=> "slugs" \in Taken(j)
  BY <1>1, <1>2 DEF Taken
<1>4. ASSUME NEW k \in JobId
      PROVE  /\ outs'[k]["detect"].at = outs'[k]["slugs"].at
             /\ outs'[k]["detect"].merged = outs'[k]["slugs"].merged
  <2>1. \A p \in Phases :
          outs'[k][p] = IF p \in Taken(j) /\ checkpoints[j][p] = k
                        THEN [outs[k][p] EXCEPT !.merged = clock + 1] ELSE outs[k][p]
    BY DEF Merge
  <2>2. outs[k]["detect"] \in Rows /\ outs[k]["slugs"] \in Rows
    BY <1>1 DEF TypeOK
  <2>3. /\ outs[k]["detect"].at = outs[k]["slugs"].at
        /\ outs[k]["detect"].merged = outs[k]["slugs"].merged
    BY DEF TwinRows
  <2> QED
    BY <1>1, <1>2, <1>3, <2>1, <2>2, <2>3 DEF Rows
<1> QED
  BY <1>4 DEF TwinRows

LEMMA TwinsStep == TypeOK /\ Twins /\ Next => Twins'
<1> SUFFICES ASSUME TypeOK, Both, TwinPlans, TwinRows, TwinRuns, Next
             PROVE  TwinPlans' /\ TwinRows' /\ TwinRuns'
  BY DEF Twins, Both
<1> DEFINE Goal == TwinPlans' /\ TwinRows' /\ TwinRuns'
<1>0. /\ plan' = plan => TwinPlans'
      /\ outs' = outs => TwinRows'
      /\ UNCHANGED runVars => TwinRuns'
  BY DEF TwinPlans, TwinRows, TwinRuns, TwinSet, Twin, runVars
<1>1. CASE EnqueueRoot
  <2>1. TwinSet(NoPlan.selected) /\ TwinSet(NoPlan.forced)
    BY DEF TwinSet, NoPlan
  <2> QED
    BY <1>0, <1>1, <2>1, TwinEnqueue DEF EnqueueRoot
<1>2. CASE Review
  BY <1>0, <1>2 DEF Review, jobVars
<1>3. ASSUME NEW j \in JobId, EnqueueRetry(j) PROVE Goal
  <2>1. TwinSet(plan[j].selected) /\ TwinSet(plan[j].forced)
    BY DEF TwinPlans
  <2> QED
    BY <1>0, <1>3, <2>1, TwinEnqueue DEF EnqueueRetry
<1>4. ASSUME NEW j \in JobId, EnqueueRecovery(j) PROVE Goal
  <2>1. \A S : TwinSet(S) => TwinSet(ForceAll(S).selected) /\ TwinSet(ForceAll(S).forced)
    BY DEF ForceAll
  <2>2. PICK n \in JobId :
          \/ Enqueue(n, j, "recovery", ForceAll(SourcePlan(j).selected))
          \/ Enqueue(n, j, "recovery", ResumePlan(j))
          \/ \E S \in RetryScopes : Enqueue(n, j, "recovery", ForceAll(S))
    BY <1>4 DEF EnqueueRecovery
  <2>3. CASE Enqueue(n, j, "recovery", ResumePlan(j))
    BY <1>0, <2>3, TwinResume, TwinEnqueue
  <2>4. ASSUME NEW S, TwinSet(S), Enqueue(n, j, "recovery", ForceAll(S)) PROVE Goal
    <3>1. TwinSet(ForceAll(S).selected) /\ TwinSet(ForceAll(S).forced)
      BY <2>1, <2>4
    <3> QED
      BY <1>0, <2>4, <3>1, TwinEnqueue
  <2> HIDE DEF Goal
  <2> QED
    BY <2>2, <2>3, <2>4, TwinSelected, TwinScopes
<1>5. ASSUME NEW j \in JobId, Start(j) PROVE Goal
  BY <1>0, <1>5, TwinStart DEF Start
<1>6. ASSUME NEW j \in JobId, StartTooLate(j) PROVE Goal
  BY <1>0, <1>6 DEF StartTooLate
<1>7. Twin(NoResults) /\ \A j \in JobId : Twin(results[j])
  BY DEF Both, TwinRuns, Twin, NoResults
<1>8. ASSUME NEW j \in JobId, Cancel(j) PROVE Goal
  <2>1. plan' = plan /\ outs' = outs
    BY <1>8 DEF Cancel
  <2>2. TwinRuns'
    BY <1>0, <1>7, <1>8, TwinOver DEF Cancel
  <2> QED
    BY <1>0, <2>1, <2>2
<1>9. ASSUME NEW j \in JobId, SkipBlock(j) PROVE Goal
  <2>1. /\ plan' = plan /\ outs' = outs /\ saved' = saved /\ history' = history
        /\ checkpoints' = [checkpoints EXCEPT ![j] = TakeReused(j, Chosen(j))]
        /\ results' = [results EXCEPT ![j] = [p \in Phases |->
                         IF p \in Chosen(j) THEN "history" ELSE @[p]]]
    BY <1>9 DEF SkipBlock, jobVars
  <2>2. TwinSet(Chosen(j)) /\ Twin(TakeReused(j, Chosen(j)))
    BY TwinExecute, TwinReused
  <2>3. Twin([p \in Phases |-> IF p \in Chosen(j) THEN "history" ELSE results[j][p]])
    BY <1>7, <2>2 DEF Both, Twin, TwinSet
  <2>4. ASSUME NEW i \in JobId
        PROVE  Twin(saved'[i]) /\ Twin(history'[i]) /\ Twin(results'[i]) /\ Twin(checkpoints'[i])
    BY <2>1, <2>2, <2>3 DEF TypeOK, TwinRuns
  <2>5. TwinRuns'
    BY <2>4 DEF TwinRuns, Twin
  <2> QED
    BY <1>0, <2>1, <2>5
<1>10. ASSUME NEW j \in JobId, NoInputs(j) PROVE Goal
  <2> DEFINE res == [p \in Phases |-> IF p \in Execute(j) THEN "failed"
                                      ELSE IF p \in Chosen(j) THEN "history" ELSE results[j][p]]
  <2>1. Report(j, "failed", res) /\ outs' = outs
    BY <1>10 DEF NoInputs
  <2>2. Twin(res)
    BY <1>7, TwinExecute DEF Both, Twin, TwinSet
  <2> HIDE DEF res
  <2> QED
    BY <1>0, <2>1, <2>2, TwinReport
<1>11. ASSUME NEW j \in JobId, RunBlock(j) PROVE Goal
  <2>1. plan' = plan
    BY <1>11 DEF RunBlock, jobVars
  <2> QED
    BY <1>0, <1>11, <2>1, TwinBlock
<1>12. ASSUME NEW j \in JobId, EndEarly(j) \/ PersistNothing(j) PROVE Goal
  <2>1. PICK o : Report(j, o, results[j])
    BY <1>12 DEF EndEarly, PersistNothing
  <2>2. outs' = outs
    BY <1>12 DEF EndEarly, PersistNothing
  <2> QED
    BY <1>0, <1>7, <2>1, <2>2, TwinReport
<1>13. ASSUME NEW j \in JobId, RunThrows(j) PROVE Goal
  BY <1>0, <1>7, <1>13, TwinOver DEF RunThrows
<1>14. ASSUME NEW j \in JobId, Persist(j) PROVE Goal
  <2>1. TwinRows'
    BY <1>0, <1>14, TwinMerge DEF Persist
  <2>2. CASE Over(j) /\ results' = [results EXCEPT ![j] = NoResults] /\ plan' = plan
    BY <1>0, <1>7, <2>1, <2>2, TwinOver
  <2>3. ASSUME NEW o, Report(j, o, results[j]) PROVE Goal
    BY <1>0, <1>7, <2>1, <2>3, TwinReport
  <2> QED
    BY <1>14, <2>2, <2>3 DEF Persist
<1> QED
  BY <1>1, <1>2, <1>3, <1>4, <1>5, <1>6, <1>8, <1>9, <1>10, <1>11, <1>12, <1>13, <1>14
    DEF Next
-----------------------------------------------------------------------------
(* What a write holds                                                       *)

\* What OneVersion asks of a job that comes to its write, and for a phase.
Writing(j) ==
  /\ Running(j) /\ block[j] = Persisting /\ InOrder(j) /\ Settled(j)
  /\ \A p \in Taken(j) : ~outs[checkpoints[j][p]][p].late

ReadsIts(j, p, d) == outs[checkpoints[j][p]][p].inputs[d] = checkpoints[j][d]

\* What is taken of a phase is a row the result RPC accepts.
LEMMA TakenRow ==
  ASSUME OneInv, NEW j \in JobId, Writing(j), NEW p \in Taken(j)
  PROVE  LET k == checkpoints[j][p] IN
         /\ p \in Phases /\ p \in Selected(j) /\ k \in JobId /\ k \in lineage[j]
         /\ Usable(k, p) /\ outs[k][p].merged = 0 /\ ~outs[k][p].late /\ saved[j][p] = k
         /\ Active(j) /\ BlockOf[p] < block[j]
<1>1. Inv /\ TypeOK /\ Fit /\ Own
  BY DEF OneInv, OrderInv, Inv
<1>2. Active(j) /\ p \in Phases /\ checkpoints[j][p] # None
  BY DEF Writing, Active, Taken, Persisting
<1>3. Eligible(j, checkpoints[j][p], p) /\ checkpoints[j][p] \in JobId
  BY <1>1, <1>2, Jobs DEF Fit, Writing
<1>4. p \in Selected(j)
  BY <1>2, <1>3 DEF Eligible, Selected
<1> QED
  BY <1>1, <1>2, <1>3, <1>4 DEF Eligible, Own, OwnInputs, Writing

\* What is taken of another job is satisfied history.
LEMMA TakenOver ==
  ASSUME OneInv, NEW j \in JobId, Writing(j), NEW p \in Taken(j), p # "slugs",
         checkpoints[j][p] # j
  PROVE  LET k == checkpoints[j][p] IN
         /\ k # None /\ HasParent(j) /\ history[j][p] = k /\ p \notin Forced(j) /\ Satisfied(j, p)
         /\ NewestOf(j, p, k)
<1>1. Line /\ Decided /\ Reused
  BY DEF OneInv, OrderInv
<1>2. PICK k \in JobId : k = checkpoints[j][p] /\ k # j
  BY TakenRow
<1>3. /\ p \in Phases /\ p \in Selected(j) /\ k \in lineage[j] /\ saved[j][p] = k
      /\ Active(j) /\ BlockOf[p] < block[j] /\ Running(j)
  BY <1>2, TakenRow DEF Writing
<1>4. HasParent(j)
  BY <1>1, <1>2, <1>3 DEF HasParent, Line
<1>5. DecidedOf(j, p)
  BY <1>1, <1>3 DEF Decided
<1>6. history[j][p] = k /\ p \notin Forced(j) /\ Satisfied(j, p)
  BY <1>2, <1>3, <1>5 DEF DecidedOf
<1>7. NewestOf(j, p, k)
  BY <1>1, <1>2, <1>3, <1>4 DEF Reused
<1>8. k # None
  BY CheckpointAssumption DEF JobId, None
<1> QED
  BY <1>2, <1>4, <1>6, <1>7, <1>8

\* Detection and slugs are taken of one job, which computed the one from the
\* other.
LEMMA SlugsFit ==
  ASSUME OneInv, NEW j \in JobId, Writing(j), "slugs" \in Taken(j),
         NEW d \in Deps("slugs") \cap Taken(j)
  PROVE  ReadsIts(j, "slugs", d)
<1>1. d = "detect" /\ Both
  BY DEF Deps, PhaseDeps, Taken, Both
<1>2. checkpoints[j]["detect"] = checkpoints[j]["slugs"]
  BY <1>1 DEF OneInv, Twins, TwinRuns, Twin
<1> QED
  BY <1>1, <1>2, TakenRow DEF OneInv, SelfFed, ReadsIts

\* The rest is about a phase p taken of job k, which depends on d, taken of an
\* earlier job x.
Apart(j, p, d, k, x) ==
  /\ Writing(j) /\ p \in Taken(j) /\ p # "slugs" /\ d \in Deps(p) /\ d \in Taken(j)
  /\ k = checkpoints[j][p] /\ x = checkpoints[j][d] /\ k # j /\ x # j /\ x < k

LEMMA ApartFacts ==
  ASSUME OneInv, NEW j \in JobId, NEW p, NEW d, NEW k, NEW x, Apart(j, p, d, k, x)
  PROVE  /\ p \in Phases /\ d \in Phases /\ d # "slugs" /\ k \in lineage[j] /\ x \in lineage[j]
         /\ k \in JobId /\ x \in JobId /\ k \in Nat /\ x \in Nat /\ k < j /\ x < j /\ j \in Nat
         /\ Usable(k, p) /\ ~outs[k][p].late
         /\ Usable(x, d) /\ ~outs[x][d].late /\ outs[x][d].merged = 0
         /\ Active(j) /\ Running(j) /\ HasParent(j) /\ p \in Selected(j) /\ d \in Selected(j)
         /\ history[j][p] = k /\ history[j][d] = x /\ saved[j][d] = x
         /\ Satisfied(j, p) /\ d \notin Forced(j) /\ NewestOf(j, d, x)
<1>1. Writing(j) /\ p \in Taken(j) /\ d \in Taken(j) /\ d # "slugs" /\ OrderInv
  BY DepsEarlier DEF Apart, OneInv, Taken
<1>2. /\ p \in Phases /\ p \in Selected(j) /\ k \in JobId /\ k \in lineage[j]
      /\ Usable(k, p) /\ ~outs[k][p].late /\ Active(j)
  BY <1>1, TakenRow DEF Apart
<1>3. /\ d \in Phases /\ d \in Selected(j) /\ x \in JobId /\ x \in lineage[j]
      /\ Usable(x, d) /\ outs[x][d].merged = 0 /\ ~outs[x][d].late /\ saved[j][d] = x
  BY <1>1, TakenRow DEF Apart
<1>4. HasParent(j) /\ history[j][p] = k /\ Satisfied(j, p)
  BY <1>1, TakenOver DEF Apart
<1>5. history[j][d] = x /\ d \notin Forced(j) /\ NewestOf(j, d, x)
  BY <1>1, TakenOver DEF Apart
<1>6. k \in Nat /\ x \in Nat /\ j \in Nat /\ k <= j /\ x <= j
  BY <1>1, <1>2, <1>3, LineagePast
<1> QED
  BY <1>1, <1>2, <1>3, <1>4, <1>5, <1>6 DEF Apart, Writing

\* From x on nothing of the lineage is merged or late, no job of it is done or
\* forces all; k follows the same selection, has a lineage with x, and no row
\* of d.
LEMMA ApartQuiet ==
  ASSUME OneInv, NEW j \in JobId, NEW p, NEW d, NEW k, NEW x, Apart(j, p, d, k, x)
  PROVE  /\ \A e \in lineage[j] :
              /\ x < e => ~Redo(e)
              /\ x <= e => target[e] # "done" /\ status[e] # "cancelled"
              /\ x <= e => \A q \in Phases :
                   outs[e][q].merged = 0 /\ (Usable(e, q) => ~outs[e][q].late)
         /\ Selected(j) = Selected(k) /\ HasParent(k)
         /\ lineage[k] = {i \in lineage[j] : i <= k}
         /\ ~Usable(k, d)
<1>1. /\ p \in Phases /\ d \in Phases /\ k \in lineage[j] /\ x \in lineage[j]
      /\ k \in JobId /\ x \in JobId /\ k \in Nat /\ x \in Nat /\ k < j /\ x < j /\ j \in Nat
      /\ Usable(x, d) /\ Running(j) /\ d \in Selected(j)
      /\ d \notin Forced(j) /\ NewestOf(j, d, x) /\ x < k
  BY ApartFacts DEF Apart
<1>2. OrderInv /\ Inv /\ TypeOK /\ Line /\ Overdue /\ Tree /\ SameSelection
  BY DEF OneInv, OrderInv, Inv
<1>3. InOrder(j)
  BY DEF Apart, Writing
<1>4. \A e \in lineage[j] :
        /\ x < e => ~Redo(e)
        /\ x <= e => target[e] # "done" /\ status[e] # "cancelled"
        /\ x <= e => \A q \in Phases : outs[e][q].merged = 0
  BY <1>1, <1>2, <1>3, Quiet
<1>5. \A e \in lineage[j] : e \in JobId /\ e \in Nat
  BY <1>2, LineageJobs
<1>6. \A e \in lineage[j] : x <= e => \A q \in Phases : Usable(e, q) => ~outs[e][q].late
  BY <1>2, <1>4, <1>5 DEF Overdue
<1>7. Selected(j) = Selected(k)
  <2>1. \A c \in lineage[j] : k < c => ~Redo(c)
    BY <1>1, <1>4, <1>5
  <2> QED
    BY <1>1, <1>2, <2>1 DEF SameSelection
<1>8. lineage[k] = {i \in lineage[j] : i <= k}
  BY <1>1, <1>2 DEF Tree
<1>9. HasParent(k)
  <2>1. x \in lineage[k] /\ x # k
    BY <1>1, <1>8
  <2> QED
    BY <1>1, <1>2, <2>1 DEF HasParent, Line
<1>10. ASSUME Usable(k, d) PROVE FALSE
  <2>1. outs[k][d].merged = 0 /\ status[k] # "cancelled"
    BY <1>1, <1>4
  <2>2. outs[k][d].at <= outs[x][d].at
    BY <1>1, <1>10, <2>1 DEF NewestOf
  <2>3. outs[x][d].at < outs[k][d].at
    BY <1>1, <1>3, <1>10 DEF InOrder
  <2>4. outs[x][d].at \in Nat /\ outs[k][d].at \in Nat
    BY <1>1, <1>2, RowNumbers
  <2> QED
    BY <2>2, <2>3, <2>4
<1> QED
  BY <1>4, <1>6, <1>7, <1>8, <1>9, <1>10

\* A row there was for k when it saved its row of p is still there for j, and
\* is not one a late worker brought in since.
LEMMA ApartCand ==
  ASSUME OneInv, NEW j \in JobId, NEW p, NEW d, NEW k, NEW x, Apart(j, p, d, k, x),
         NEW q \in Phases, NEW i \in JobId, Cand(k, p, q, i)
  PROVE  Held(j, q, i) /\ ~Newer(j, i, q)
<1>1. /\ p \in Phases /\ k \in lineage[j] /\ x \in lineage[j]
      /\ k \in JobId /\ x \in JobId /\ k \in Nat /\ x \in Nat /\ k < j /\ x < j /\ j \in Nat
      /\ Usable(k, p) /\ ~outs[k][p].late /\ x < k
  BY ApartFacts DEF Apart
<1>2. OrderInv /\ TypeOK
  BY DEF OneInv, OrderInv, Inv
<1>3. InOrder(j) /\ Settled(j)
  BY DEF Apart, Writing
<1>4. \A e \in lineage[j] : e \in JobId /\ e \in Nat
  BY <1>2, LineageJobs
<1>5. i \in lineage[j] /\ i # k /\ i <= k
  BY ApartQuiet DEF Cand
<1>6. /\ outs[i][q].merged \in Nat /\ outs[i][q].at \in Nat /\ outs[k][p].at \in Nat
  BY <1>1, <1>2, RowNumbers
<1>7. outs[i][q].merged = 0
  <2>1. ASSUME outs[i][q].merged # 0 PROVE FALSE
    <3>1. PICK e \in lineage[j] : e >= i /\ target[e] = "done"
      BY <1>3, <1>5, <2>1 DEF InOrder
    <3>2. ~(x <= e)
      BY <3>1, ApartQuiet
    <3>3. e < k /\ i <= e
      BY <1>1, <1>4, <1>5, <3>1, <3>2
    <3>4. outs[i][q].merged <= outs[k][p].at
      BY <1>1, <1>3, <1>5, <2>1, <3>1, <3>3 DEF Settled
    <3>5. outs[i][q].merged > outs[k][p].at
      BY <2>1 DEF Cand
    <3> QED
      BY <1>6, <3>4, <3>5
  <2> QED
    BY <2>1
<1>8. Held(j, q, i)
  BY <1>1, <1>4, <1>5, <1>7 DEF Held, Cand
<1>9. ASSUME Newer(j, i, q) PROVE FALSE
  <2>1. outs[k][p].at < outs[i][q].at
    BY <1>1, <1>9 DEF Newer
  <2>2. outs[i][q].at < outs[k][p].at
    BY DEF Cand
  <2> QED
    BY <1>6, <2>1, <2>2
<1> QED
  BY <1>8, <1>9

\* What j has in its history of a phase at or before its row of d.
LEMMA ApartHistory ==
  ASSUME OneInv, NEW j \in JobId, NEW p, NEW d, NEW k, NEW x, Apart(j, p, d, k, x),
         NEW q \in Phases, q \in Selected(j), NEW h, h = history[j][q], h # None,
         Time(j, q) <= Time(j, d)
  PROVE  /\ h \in JobId /\ Time(j, q) = outs[h][q].at /\ h < k
         /\ SharpOf(j, q) /\ ~Usable(k, q) /\ Top(k, p, q, h)
<1>1. /\ p \in Phases /\ d \in Phases /\ k \in lineage[j] /\ x \in lineage[j]
      /\ k \in JobId /\ x \in JobId /\ k \in Nat /\ x \in Nat /\ k < j /\ x < j /\ j \in Nat
      /\ Usable(k, p) /\ ~outs[k][p].late /\ Usable(x, d)
      /\ Active(j) /\ Running(j) /\ HasParent(j) /\ history[j][d] = x /\ x < k
  BY ApartFacts DEF Apart
<1>2. OrderInv /\ TypeOK /\ Made /\ Sharp
  BY DEF OneInv, OrderInv, Inv
<1>3. InOrder(j)
  BY DEF Apart, Writing
<1>4. x # None
  BY <1>1, CheckpointAssumption DEF JobId, None
<1>5. h \in JobId /\ Usable(h, q)
  BY <1>1, <1>2, Jobs DEF Made
<1>6. Time(j, q) = outs[h][q].at /\ Time(j, d) = outs[x][d].at
  BY <1>1, <1>4 DEF Time
<1>7. outs[h][q].at \in Nat /\ outs[x][d].at \in Nat /\ outs[k][q].at \in Nat
  BY <1>1, <1>2, <1>5, RowNumbers
<1>8. h # j
  <2>1. ASSUME h = j PROVE FALSE
    <3>1. j \in lineage[j]
      BY <1>1, <1>2 DEF OrderInv, Inv, OwnLine, Running
    <3>2. outs[x][d].at < outs[j][q].at
      BY <1>1, <1>3, <1>5, <2>1, <3>1 DEF InOrder
    <3> QED
      BY <1>6, <1>7, <2>1, <3>2
  <2> QED
    BY <2>1
<1>9. ~Usable(j, q)
  BY <1>1, <1>2, <1>8 DEF Made
<1>10. SharpOf(j, q)
  BY <1>1, <1>2, <1>9 DEF Sharp
<1>11. Held(j, q, h)
  BY <1>10 DEF SharpOf
<1>12. h \in lineage[j] /\ h \in Nat /\ h < k
  <2>1. h \in lineage[j] /\ h \in Nat
    BY <1>2, <1>5, <1>11, LineageJobs DEF Held
  <2>2. ~(x < h)
    <3>1. x < h => outs[x][d].at < outs[h][q].at
      BY <1>1, <1>3, <1>5, <2>1 DEF InOrder
    <3> QED
      BY <1>6, <1>7, <3>1
  <2> QED
    BY <1>1, <2>1, <2>2
<1>13. ~Usable(k, q)
  <2>1. ASSUME Usable(k, q) PROVE FALSE
    <3>1. outs[k][q].merged = 0 /\ ~outs[k][q].late
      BY <1>1, <2>1, ApartQuiet
    <3>2. Held(j, q, k)
      BY <1>1, <2>1, <3>1 DEF Held
    <3>3. outs[h][q].at < outs[k][q].at
      BY <1>1, <1>3, <1>5, <1>12, <2>1 DEF InOrder
    <3>4. ~(outs[k][q].at <= outs[h][q].at)
      BY <1>7, <3>3
    <3>5. Newer(j, k, q)
      BY <1>1, <1>10, <3>2, <3>4 DEF SharpOf
    <3>6. outs[k][q].at < outs[k][q].at
      BY <1>1, <2>1, <3>1, <3>5 DEF Newer
    <3> QED
      BY <1>7, <3>6
  <2> QED
    BY <2>1
<1>14. Cand(k, p, q, h)
  <2>1. h \in lineage[k] \ {k}
    BY <1>1, <1>12, ApartQuiet
  <2>2. outs[h][q].at < outs[k][p].at
    BY <1>1, <1>3, <1>5, <1>12 DEF InOrder
  <2> QED
    BY <1>5, <1>11, <2>1, <2>2 DEF Cand, Held
<1>15. ASSUME NEW z \in JobId, Cand(k, p, q, z) PROVE outs[z][q].at <= outs[h][q].at
  BY <1>10, <1>15, ApartCand DEF SharpOf
<1> QED
  BY <1>5, <1>6, <1>10, <1>12, <1>13, <1>14, <1>15 DEF Top

\* Had k computed p from its own d although its lineage had all it takes to be
\* satisfied, d was forced, and would have been since.
LEMMA ApartSelf ==
  ASSUME OneInv, NEW j \in JobId, NEW p, NEW d, NEW k, NEW x, Apart(j, p, d, k, x)
  PROVE  outs[k][p].inputs[d] # k
<1> SUFFICES ASSUME outs[k][p].inputs[d] = k PROVE FALSE
  OBVIOUS
<1>1. /\ p \in Phases /\ d \in Phases /\ k \in lineage[j] /\ x \in lineage[j]
      /\ k \in JobId /\ x \in JobId /\ k \in Nat /\ x \in Nat /\ k < j /\ x < j /\ j \in Nat
      /\ Usable(k, p) /\ ~outs[k][p].late /\ Usable(x, d) /\ ~outs[x][d].late
      /\ d \in Selected(j) /\ d \notin Forced(j) /\ Satisfied(j, p) /\ NewestOf(j, d, x)
      /\ history[j][d] = x /\ p # "slugs" /\ d \in Deps(p) /\ x < k
  BY ApartFacts DEF Apart
<1>2. OrderInv /\ TypeOK /\ Owed /\ Traced
  BY DEF OneInv, OrderInv, Inv
<1>3. InOrder(j)
  BY DEF Apart, Writing
<1>4. Selected(j) = Selected(k) /\ HasParent(k) /\ ~Usable(k, d)
  BY ApartQuiet
<1>5. TracedOf(k, p, d)
  BY <1>1, <1>2, <1>4 DEF Traced
<1>6. d \notin Forced(k)
  <2>1. ASSUME d \in Forced(k) PROVE FALSE
    <3>1. PICK z \in lineage[j] : k <= z /\ z < j /\ Usable(z, d)
      BY <1>1, <1>2, <2>1 DEF Owed
    <3>2. z \in JobId /\ z \in Nat /\ x < z /\ z # j
      <4>1. z \in JobId /\ z \in Nat
        BY <1>2, <3>1, LineageJobs
      <4> QED
        BY <1>1, <3>1, <4>1
    <3>3. outs[z][d].merged = 0 /\ status[z] # "cancelled"
      BY <1>1, <3>1, <3>2, ApartQuiet
    <3>4. outs[z][d].at <= outs[x][d].at
      BY <1>1, <3>1, <3>2, <3>3 DEF NewestOf
    <3>5. outs[x][d].at < outs[z][d].at
      BY <1>1, <1>3, <3>1, <3>2 DEF InOrder
    <3> QED
      BY <1>1, <1>2, <3>2, <3>4, <3>5, RowNumbers
  <2> QED
    BY <2>1
<1>7. \A S \in SUBSET Selected(k), f \in [Phases -> JobId] : ~Fitting(k, p, d, S, f)
  BY <1>4, <1>5, <1>6 DEF TracedOf
<1>8. PICK T \in SUBSET Phases :
        /\ p \in T
        /\ \A q \in T :
             /\ Time(j, q) # 0
             /\ \A e \in Deps(q) \cap Selected(j) : e \in T /\ Time(j, e) <= Time(j, q)
  BY <1>1 DEF Satisfied
<1> DEFINE S == {q \in T \cap Selected(j) : Time(j, q) <= Time(j, d)}
           f == [q \in Phases |-> IF q \in S THEN history[j][q] ELSE j]
<1>9. x # None /\ Time(j, d) = outs[x][d].at /\ Time(j, d) \in Nat
  BY <1>1, <1>2, RowNumbers, CheckpointAssumption DEF Time, JobId, None
<1>10. d \in S
  BY <1>1, <1>8, <1>9
<1>11. ASSUME NEW q \in S
       PROVE  /\ q \in Phases /\ history[j][q] \in JobId /\ Time(j, q) = outs[history[j][q]][q].at
              /\ Time(j, q) \in Nat /\ ~Usable(k, q) /\ Top(k, p, q, history[j][q])
  <2>1. q \in Phases /\ q \in Selected(j) /\ Time(j, q) # 0 /\ Time(j, q) <= Time(j, d)
    BY <1>8
  <2>2. PICK h : h = history[j][q]
    OBVIOUS
  <2>3. h # None
    BY <2>1, <2>2 DEF Time
  <2>4. /\ h \in JobId /\ Time(j, q) = outs[h][q].at /\ ~Usable(k, q) /\ Top(k, p, q, h)
    BY <2>1, <2>2, <2>3, ApartHistory
  <2>5. outs[h][q].at \in Nat
    BY <1>2, <2>1, <2>4, RowNumbers
  <2> QED
    BY <2>1, <2>2, <2>4, <2>5
<1>12. ASSUME NEW q \in S, NEW e \in Deps(q) \cap Selected(k)
       PROVE  e \in S /\ Time(j, e) <= Time(j, q)
  <2>1. e \in T /\ Time(j, e) <= Time(j, q) /\ e \in Selected(j) /\ e \in Phases
    BY <1>4, <1>8, <1>12
  <2>2. Time(j, e) \in Nat
    <3>1. TypeOK
      BY <1>2
    <3> QED
      BY <2>1, <3>1, Jobs, RowNumbers DEF Time
  <2>3. Time(j, q) \in Nat /\ Time(j, q) <= Time(j, d)
    BY <1>11
  <2> QED
    BY <1>9, <2>1, <2>2, <2>3
<1>13. f \in [Phases -> JobId] /\ \A q \in S : f[q] = history[j][q]
  BY <1>11
<1>14. S \in SUBSET Selected(k)
  BY <1>4
<1>15. \A q \in S : Time(j, q) <= Time(j, d)
  OBVIOUS
<1> HIDE DEF S, f
<1>16. Fitting(k, p, d, S, f)
  <2>1. d \in S /\ ~outs[f[d]][d].late
    BY <1>1, <1>10, <1>13
  <2>2. ASSUME NEW q \in S
        PROVE  /\ ~Usable(k, q) /\ Top(k, p, q, f[q])
               /\ outs[f[q]][q].at <= outs[f[d]][d].at
               /\ \A e \in Deps(q) \cap Selected(k) :
                    e \in S /\ outs[f[e]][e].at <= outs[f[q]][q].at
    <3>1. ~Usable(k, q) /\ Top(k, p, q, f[q])
      BY <1>11, <1>13
    <3>2. \A e \in S : Time(j, e) = outs[f[e]][e].at
      BY <1>11, <1>13
    <3>3. outs[f[q]][q].at <= outs[f[d]][d].at
      BY <1>15, <2>1, <3>2
    <3> QED
      BY <1>12, <3>1, <3>2, <3>3
  <2> QED
    BY <2>1, <2>2 DEF Fitting
<1> QED
  BY <1>7, <1>13, <1>14, <1>16

\* So k computed p from the row of x.
LEMMA ApartFits ==
  ASSUME OneInv, NEW j \in JobId, NEW p, NEW d, NEW k, NEW x, Apart(j, p, d, k, x)
  PROVE  outs[k][p].inputs[d] = x
<1>1. /\ p \in Phases /\ d \in Phases /\ k \in lineage[j] /\ x \in lineage[j]
      /\ k \in JobId /\ x \in JobId /\ k \in Nat /\ x \in Nat /\ k < j /\ x < j /\ j \in Nat
      /\ Usable(k, p) /\ ~outs[k][p].late
      /\ Usable(x, d) /\ ~outs[x][d].late /\ outs[x][d].merged = 0
      /\ Active(j) /\ Running(j) /\ HasParent(j) /\ d \in Selected(j)
      /\ history[j][d] = x /\ p # "slugs" /\ d \in Deps(p) /\ x < k /\ x # j
  BY ApartFacts DEF Apart
<1>2. OrderInv /\ TypeOK /\ Clocked /\ Made /\ Sharp /\ Traced
  BY DEF OneInv, OrderInv, Inv
<1>3. InOrder(j)
  BY DEF Apart, Writing
<1>4. Selected(j) = Selected(k) /\ HasParent(k)
  BY ApartQuiet
<1>5. PICK y : y = outs[k][p].inputs[d]
  OBVIOUS
<1>6. y # k
  BY <1>5, ApartSelf
<1>7. TracedOf(k, p, d)
  BY <1>1, <1>2, <1>4 DEF Traced
<1>8. /\ Cand(k, p, d, y)
      /\ \A i \in JobId : Cand(k, p, d, i) /\ ~outs[i][d].late => outs[i][d].at <= outs[y][d].at
  BY <1>5, <1>6, <1>7 DEF TracedOf
<1>9. y \in JobId
  BY <1>1, <1>2, <1>8, LineageJobs DEF Cand
<1>10. Held(j, d, y) /\ ~Newer(j, y, d)
  BY <1>1, <1>8, <1>9, ApartCand
<1>11. SharpOf(j, d)
  <2>1. ~Usable(j, d)
    BY <1>1, <1>2 DEF Made
  <2> QED
    BY <1>1, <1>2, <2>1 DEF Sharp
<1>12. outs[y][d].at <= outs[x][d].at
  BY <1>1, <1>9, <1>10, <1>11 DEF SharpOf
<1>13. Cand(k, p, d, x)
  <2>1. x \in lineage[k] \ {k}
    BY <1>1, ApartQuiet
  <2>2. outs[x][d].at < outs[k][p].at
    BY <1>1, <1>3 DEF InOrder
  <2> QED
    BY <1>1, <2>1, <2>2 DEF Cand
<1>14. outs[x][d].at <= outs[y][d].at
  BY <1>1, <1>8, <1>13
<1>15. outs[x][d].at = outs[y][d].at
  BY <1>1, <1>2, <1>9, <1>12, <1>14, RowNumbers
<1>16. x = y
  BY <1>1, <1>2, <1>9, <1>15 DEF Clocked
<1> QED
  BY <1>5, <1>16

\* Where a write has a phase and one it depends on, the first was computed from
\* the second.
LEMMA WriteFits ==
  ASSUME OneInv, NEW j \in JobId, Writing(j), NEW p \in Taken(j), NEW d \in Deps(p) \cap Taken(j)
  PROVE  ReadsIts(j, p, d)
<1>1. Inv /\ TypeOK /\ Own /\ Made /\ SelfFed /\ OrderInv /\ OwnLine
  BY DEF OneInv, OrderInv, Inv
<1>2. PICK k \in JobId : k = checkpoints[j][p]
  BY TakenRow
<1>3. PICK x \in JobId : x = checkpoints[j][d]
  BY TakenRow
<1>4. /\ p \in Phases /\ p \in Selected(j) /\ k \in lineage[j] /\ Usable(k, p) /\ Active(j)
      /\ saved[j][p] = k
  BY <1>2, TakenRow
<1>5. /\ d \in Phases /\ d \in Selected(j) /\ x \in lineage[j] /\ Usable(x, d)
      /\ saved[j][d] = x
  BY <1>3, TakenRow
<1>6. CASE k = j
  <2>1. OwnInputs(j, p)
    BY <1>1, <1>4 DEF Own
  <2>2. outs[j][p].inputs[d] = saved[j][d]
    BY <1>2, <1>6, <2>1 DEF OwnInputs
  <2> QED
    BY <1>2, <1>3, <1>5, <1>6, <2>2 DEF ReadsIts
<1>7. CASE p = "slugs"
  BY <1>7, SlugsFit
<1>8. CASE k # j /\ p # "slugs"
  <2>1. history[j][p] = k /\ Satisfied(j, p) /\ k # None
    BY <1>2, <1>8, TakenOver
  <2>2. Time(j, d) <= Time(j, p) /\ Time(j, p) = outs[k][p].at
    BY <1>5, <2>1 DEF Satisfied, Time
  <2>3. InOrder(j) /\ Running(j) /\ k \in Nat /\ x \in Nat /\ j \in Nat /\ k <= j
    BY <1>1, <1>4, <1>5, LineagePast DEF Writing
  <2>4. outs[k][p].at \in Nat /\ outs[x][d].at \in Nat
    BY <1>1, <1>4, <1>5, RowNumbers
  <2>5. history[j][d] = x
    <3>1. CASE x = j
      BY <1>1, <1>4, <1>5, <3>1 DEF Made
    <3>2. CASE x # j
      BY <1>3, <3>2, TakenOver, DepsEarlier, <1>4, <1>8
    <3> QED
      BY <3>1, <3>2
  <2>6. outs[x][d].at <= outs[k][p].at
    <3>1. x # None
      BY CheckpointAssumption DEF JobId, None
    <3> QED
      BY <2>2, <2>5, <3>1 DEF Time
  <2>7. x <= k
    <3>1. k < x => outs[k][p].at < outs[x][d].at
      BY <1>4, <1>5, <2>3 DEF InOrder
    <3> QED
      BY <2>3, <2>4, <2>6, <3>1
  <2>8. CASE x = k
    BY <1>1, <1>2, <1>3, <1>4, <1>5, <2>8 DEF SelfFed, ReadsIts
  <2>9. CASE x < k
    <3>1. x # j
      BY <2>3, <2>9
    <3>2. Apart(j, p, d, k, x)
      BY <1>2, <1>3, <1>8, <2>9, <3>1 DEF Apart
    <3>3. outs[k][p].inputs[d] = x
      BY <3>2, ApartFits
    <3> QED
      BY <1>2, <1>3, <3>3 DEF ReadsIts
  <2> QED
    BY <2>3, <2>7, <2>8, <2>9
<1> QED
  BY <1>6, <1>7, <1>8

-----------------------------------------------------------------------------
(* The invariant and the theorem                                            *)

LEMMA OneInit == Init => OneInv
<1> SUFFICES ASSUME Init PROVE OneInv
  OBVIOUS
<1>1. OrderInv /\ TypeOK
  BY OrderInit DEF OrderInv, Inv
<1>2. \A k \in JobId : ~Active(k) /\ ~Running(k) /\ lineage[k] = {}
  BY DEF Init, Active, Running, Persisting
<1>3. \A k \in JobId, p \in Phases :
        outs[k][p].at = 0 /\ outs[k][p].merged = 0 /\ ~Usable(k, p)
  BY DEF Init, Usable, NoRow
<1>4. Own /\ Made /\ Sharp /\ Decided
  BY <1>2 DEF Own, Made, Sharp, Decided
<1>5. Clocked
  BY <1>3 DEF Clocked, Init
<1>6. SelfFed /\ Overdue /\ Traced
  BY <1>3 DEF SelfFed, Overdue, Traced
<1>7. Tree /\ SameSelection /\ Owed
  BY <1>2 DEF Tree, SameSelection, Owed
<1>8. Twins
  <2>1. ASSUME Both PROVE TwinPlans /\ TwinRows /\ TwinRuns
    <3>1. "detect" \in Phases /\ "slugs" \in Phases
      BY <2>1 DEF Both
    <3>2. TwinPlans
      BY DEF Init, TwinPlans, TwinSet, NoPlan
    <3>3. TwinRows
      BY <1>3, <3>1 DEF TwinRows
    <3>4. TwinRuns
      BY <3>1 DEF Init, TwinRuns, Twin, Nothing, NoResults
    <3> QED
      BY <3>2, <3>3, <3>4
  <2> QED
    BY <2>1 DEF Twins
<1> QED
  BY <1>1, <1>4, <1>5, <1>6, <1>7, <1>8 DEF OneInv

LEMMA OneStutter == OneInv /\ UNCHANGED vars => OneInv'
<1> SUFFICES ASSUME OneInv, UNCHANGED vars PROVE OneInv'
  OBVIOUS
<1> USE DEF vars, jobVars, runVars
<1>1. OrderInv'
  BY OrderStep DEF OneInv
<1>2. Own' /\ Made' /\ Overdue'
  BY DEF OneInv, Own, OwnInputs, Made, Overdue, Active, Usable
<1>3. Clocked' /\ SelfFed' /\ Tree'
  BY DEF OneInv, Clocked, SelfFed, Tree, Usable
<1>4. SameSelection' /\ Owed'
  BY DEF OneInv, SameSelection, Owed, Selected, Planned, Forced, Redo, Usable
<1>5. \A k, p, q, i : /\ Cand(k, p, q, i)' <=> Cand(k, p, q, i)
                      /\ Held(k, q, i)' <=> Held(k, q, i)
                      /\ Newer(k, i, q)' <=> Newer(k, i, q)
  BY DEF Cand, Held, Newer, Usable
<1>6. Sharp'
  BY <1>5 DEF OneInv, Sharp, SharpOf, Held, Newer, Usable, Running, Active, HasParent,
              Selected, Planned
<1>7. Decided'
  <2>1. \A k, d : Satisfied(k, d)' <=> Satisfied(k, d)
    BY DEF Satisfied, Time, Selected, Planned
  <2>2. \A k, d : DecidedOf(k, d)' <=> DecidedOf(k, d)
    BY <2>1 DEF DecidedOf, Usable, Forced
  <2> QED
    BY <2>2 DEF OneInv, Decided, Active, Selected, Planned
<1>8. Traced'
  <2>1. \A k, p, q, i : Top(k, p, q, i)' <=> Top(k, p, q, i)
    BY <1>5 DEF Top, Cand, Usable
  <2>2. \A k : /\ Selected(k)' = Selected(k)
              /\ Forced(k)' = Forced(k)
              /\ (HasParent(k)' <=> HasParent(k))
    BY DEF Selected, Planned, Forced, HasParent
  <2>3. \A k, p, d, S, f : Fitting(k, p, d, S, f)' <=> Fitting(k, p, d, S, f)
    BY <2>1, <2>2 DEF Fitting, Top, Cand, Usable
  <2>4. ASSUME NEW k \in JobId, NEW p, NEW d, TracedOf(k, p, d) PROVE TracedOf(k, p, d)'
    <3>1. PICK y : y = outs[k][p].inputs[d]
      OBVIOUS
    <3>2. CASE y = k
      <4>1. \/ Usable(k, d) \/ d \in Forced(k)
            \/ ~\E S \in SUBSET Selected(k), f \in [Phases -> JobId] : Fitting(k, p, d, S, f)
        BY <2>4, <3>1, <3>2 DEF TracedOf
      <4>2. \/ Usable(k, d)' \/ d \in Forced(k)'
            \/ ~\E S \in SUBSET Selected(k)', f \in [Phases -> JobId] : Fitting(k, p, d, S, f)'
        <5>1. Usable(k, d)' <=> Usable(k, d)
          BY DEF Usable
        <5>2. Selected(k)' = Selected(k) /\ Forced(k)' = Forced(k)
          BY <2>2
        <5> HIDE DEF vars, jobVars, runVars
        <5> QED
          BY <2>3, <4>1, <5>1, <5>2
      <4>3. (outs[k][p].inputs[d])' = k
        BY <3>1, <3>2
      <4> QED
        BY <4>2, <4>3 DEF TracedOf
    <3>3. CASE y # k
      BY <1>5, <2>4, <3>1, <3>3 DEF TracedOf, Cand, Usable
    <3> QED
      BY <3>2, <3>3
  <2> QED
    BY <2>2, <2>4 DEF OneInv, Traced, Usable
<1>9. Twins'
  BY DEF OneInv, Twins, Both, TwinPlans, TwinRows, TwinRuns, Twin, TwinSet
<1> QED
  BY <1>1, <1>2, <1>3, <1>4, <1>6, <1>7, <1>8, <1>9 DEF OneInv

LEMMA OneStep == OneInv /\ [Next]_vars => OneInv'
<1>1. ASSUME OneInv, Next PROVE OneInv'
  <2>1. OrderInv /\ Inv /\ TypeOK
    BY <1>1 DEF OneInv, OrderInv, Inv
  <2>2. OrderInv' /\ Own'
    BY <1>1, <2>1, OrderStep, OwnStep DEF OneInv
  <2>3. Clocked' /\ Made' /\ SelfFed' /\ Overdue'
    BY <1>1, <2>1, ClockedStep, MadeStep, SelfFedStep, OverdueStep DEF OneInv
  <2>4. Tree' /\ SameSelection' /\ Owed'
    BY <1>1, <2>1, TreeStep, SameSelectionStep, OwedStep DEF OneInv
  <2>5. Sharp' /\ Decided' /\ Traced'
    BY <1>1, <2>1, SharpStep, DecidedStep, TracedStep DEF OneInv
  <2>6. Twins'
    BY <1>1, <2>1, TwinsStep DEF OneInv
  <2> QED
    BY <2>2, <2>3, <2>4, <2>5, <2>6 DEF OneInv
<1> QED
  BY <1>1, OneStutter

\* One write holds outputs that belong together: along a lineage worked off in
\* its order, in which no write reached back behind rows saved since and no row
\* of the write is late, each output a write merges was computed from the very
\* outputs of the phases it depends on that are merged with it, the job's own
\* and the ones it reuses from its ancestors alike.
THEOREM OutputsFit == Spec => []OneVersion
<1>1. ASSUME OneInv PROVE OneVersion
  <2>1. ASSUME NEW j \in JobId, Running(j), block[j] = Persisting, InOrder(j), Settled(j),
               \A p \in Taken(j) : ~outs[checkpoints[j][p]][p].late
        PROVE  \A p \in Taken(j) : \A d \in Deps(p) \cap Taken(j) :
                 outs[checkpoints[j][p]][p].inputs[d] = checkpoints[j][d]
    <3>1. Writing(j)
      BY <2>1 DEF Writing
    <3> QED
      BY <1>1, <3>1, WriteFits DEF ReadsIts
  <2> QED
    BY <2>1 DEF OneVersion
<1>2. OneInv => OneVersion
  BY <1>1
<1>3. Spec => []OneInv
  BY OneInit, OneStep, PTL DEF Spec
<1> QED
  BY <1>2, <1>3, PTL
=============================================================================
