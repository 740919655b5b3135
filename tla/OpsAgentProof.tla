--------------------------- MODULE OpsAgentProof ---------------------------
(***************************************************************************)
(* Safety of the ops agent for every number of requests, presses, agent    *)
(* runs and every combination of failures.                                 *)
(***************************************************************************)
EXTENDS OpsAgent, FiniteSetTheorems, TLAPS

-----------------------------------------------------------------------------
(* Types *)

LEMMA Numbers ==
  /\ MaxTime \in Nat /\ ConfirmWindow \in Nat /\ StaleCheck \in Nat
  /\ SweepAge \in Nat /\ PendingLease \in Nat /\ RunningLease \in Nat
  /\ DailyCap \in Nat /\ Never \in Nat
  BY OpsAssumption DEF Never

LEMMA TypeInit == Init => TypeOK
<1> SUFFICES ASSUME Init PROVE TypeOK
  OBVIOUS
<1> SomeRequest \in Requests
  BY OpsAssumption DEF SomeRequest
<1> QED
  BY Numbers DEF Init, TypeOK, Status, RunStep, ExecStep, AgentStep, ClickState,
     AgentState

LEMMA TypeStep == TypeOK /\ [Next]_vars => TypeOK'
<1> SUFFICES ASSUME TypeOK, [Next]_vars PROVE TypeOK'
  OBVIOUS
<1> USE Numbers
<1>1. ASSUME Tick PROVE TypeOK'
  BY <1>1 DEF Tick, TypeOK, Status, RunStep, ExecStep, rowVars, slotVars, procVars
<1>2. ASSUME Restart PROVE TypeOK'
  <2>1. run' \in [Requests -> RunStep]
    BY <1>2 DEF Restart, TypeOK, RunStep
  <2>2. exec' \in [Requests -> ExecStep]
    BY <1>2 DEF Restart, TypeOK, ExecStep
  <2>3. click' \in [Clicks -> ClickState]
    <3>1. ASSUME NEW c \in Clicks
          PROVE  [click[c] EXCEPT !.step = IF @ = "act" THEN "done" ELSE @] \in ClickState
      <4>1. click[c] \in ClickState
        BY DEF TypeOK
      <4> QED
        BY <4>1 DEF ClickState
    <3> QED
      BY <1>2, <3>1 DEF Restart
  <2> QED
    BY <1>2, <2>1, <2>2, <2>3 DEF Restart, TypeOK, rowVars, slotVars, procVars
<1>3. ASSUME NEW r \in Requests, Deliver(r) PROVE TypeOK'
  <2>1. st' \in [Requests -> Status]
    BY <1>3 DEF Deliver, TypeOK, Status
  <2>2. run' \in [Requests -> RunStep]
    BY <1>3 DEF Deliver, TypeOK, RunStep
  <2>3. born' \in [Requests -> Nat]
    BY <1>3 DEF Deliver, TypeOK
  <2> QED
    BY <1>3, <2>1, <2>2, <2>3 DEF Deliver, TypeOK, rowVars, slotVars, procVars
<1>4. ASSUME NEW r \in Requests, Redeliver(r) PROVE TypeOK'
  BY <1>4 DEF Redeliver, vars, TypeOK, Status, RunStep, ExecStep, rowVars, slotVars,
     procVars
<1>5. ASSUME NEW r \in Requests, Admit(r) PROVE TypeOK'
  <2>1. st' \in [Requests -> Status]
    BY <1>5 DEF Admit, Goes, Move, Moved, TypeOK, Status
  <2>2. run' \in [Requests -> RunStep]
    BY <1>5 DEF Admit, Goes, Move, Moved, TypeOK, RunStep
  <2> QED
    BY <1>5, <2>1, <2>2 DEF Admit, Goes, Move, Moved, TypeOK, rowVars, slotVars,
       procVars
<1>6. ASSUME NEW r \in Requests, SweepRunning(r) PROVE TypeOK'
  BY <1>6 DEF SweepRunning, Goes, TypeOK, Status, RunStep, ExecStep, rowVars,
     slotVars, procVars
<1>7. ASSUME NEW r \in Requests, SweepUnanswered(r) PROVE TypeOK'
  BY <1>7 DEF SweepUnanswered, Goes, TypeOK, Status, RunStep, ExecStep, rowVars,
     slotVars, procVars
<1>8. ASSUME NEW r \in Requests, Start(r) PROVE TypeOK'
  BY <1>8 DEF Start, Goes, Move, Moved, TypeOK, Status, RunStep, ExecStep, rowVars,
     slotVars, procVars
<1>9. ASSUME NEW r \in Requests, Conclude(r) PROVE TypeOK'
  BY <1>9 DEF Conclude, TryMove, Move, Moved, TypeOK, Status, RunStep, ExecStep,
     rowVars, slotVars, procVars
<1>10. ASSUME NEW r \in Requests, FireRoutine(r) PROVE TypeOK'
  <2>1. st' \in [Requests -> Status]
    BY <1>10 DEF FireRoutine, TryMove, Move, Moved, TypeOK, Status
  <2>2. run' \in [Requests -> RunStep]
    BY <1>10 DEF FireRoutine, TryMove, Move, Moved, TypeOK, RunStep
  <2>3. acts' \in [Requests -> Nat]
    BY <1>10 DEF FireRoutine, TryMove, Move, Moved, TypeOK
  <2> QED
    BY <1>10, <2>1, <2>2, <2>3 DEF FireRoutine, TryMove, Move, Moved, TypeOK,
       rowVars, slotVars, procVars
<1>11. ASSUME NEW r \in Requests, AfterFire(r) PROVE TypeOK'
  BY <1>11 DEF AfterFire, Goes, Move, Moved, TypeOK, Status, RunStep, ExecStep,
     rowVars, slotVars, procVars
<1>12. ASSUME NEW r \in Requests, PostCard(r) PROVE TypeOK'
  BY <1>12 DEF PostCard, Goes, TypeOK, Status, RunStep, ExecStep, rowVars, slotVars,
     procVars
<1>13. ASSUME NEW r \in Requests, Await(r) PROVE TypeOK'
  <2>1. st' \in [Requests -> Status]
    BY <1>13 DEF Await, Goes, Move, Moved, TypeOK, Status
  <2>2. run' \in [Requests -> RunStep]
    BY <1>13 DEF Await, Goes, Move, Moved, TypeOK, RunStep
  <2>3. expires' \in [Requests -> Nat]
    BY <1>13 DEF Await, Goes, Move, Moved, TypeOK
  <2>4. kind' \in [Requests -> Kinds \cup {"none"}]
    BY <1>13 DEF Await, Goes, Move, Moved, TypeOK
  <2> QED
    BY <1>13, <2>1, <2>2, <2>3, <2>4 DEF Await, Goes, Move, Moved, TypeOK, rowVars,
       slotVars, procVars
<1>14. ASSUME NEW r \in Requests, Perform(r) PROVE TypeOK'
  <2>1. exec' \in [Requests -> ExecStep]
    BY <1>14 DEF Perform, Steps, TypeOK, ExecStep
  <2>2. acts' \in [Requests -> Nat]
    BY <1>14 DEF Perform, Steps, TypeOK
  <2> QED
    BY <1>14, <2>1, <2>2 DEF Perform, Steps, TypeOK, rowVars, slotVars, procVars
<1>15. ASSUME NEW r \in Requests, FindInFlight(r) PROVE TypeOK'
  BY <1>15 DEF FindInFlight, Steps, TypeOK, Status, RunStep, ExecStep, rowVars,
     slotVars, procVars
<1>16. ASSUME NEW r \in Requests, RecordDispatch(r) PROVE TypeOK'
  BY <1>16 DEF RecordDispatch, Steps, TypeOK, Status, RunStep, ExecStep, rowVars,
     slotVars, procVars
<1>17. ASSUME NEW r \in Requests, Trigger(r) PROVE TypeOK'
  <2>1. exec' \in [Requests -> ExecStep]
    BY <1>17 DEF Trigger, Steps, TypeOK, ExecStep
  <2>2. acts' \in [Requests -> Nat]
    BY <1>17 DEF Trigger, Steps, TypeOK
  <2> QED
    BY <1>17, <2>1, <2>2 DEF Trigger, Steps, TypeOK, rowVars, slotVars, procVars
<1>18. ASSUME NEW r \in Requests, ClearDispatch(r) PROVE TypeOK'
  <2>1. exec' \in [Requests -> ExecStep]
    BY <1>18 DEF ClearDispatch, Steps, TypeOK, ExecStep
  <2>2. sent' \in [Requests -> Nat]
    BY <1>18 DEF ClearDispatch, Steps, TypeOK
  <2> QED
    BY <1>18, <2>1, <2>2 DEF ClearDispatch, Steps, TypeOK, rowVars, slotVars,
       procVars
<1>19. ASSUME NEW r \in Requests, SettleWorked(r) PROVE TypeOK'
  <2>1. st' \in [Requests -> Status]
    BY <1>19 DEF SettleWorked, Steps, Move, Moved, TypeOK, Status
  <2>2. exec' \in [Requests -> ExecStep]
    BY <1>19 DEF SettleWorked, Steps, Move, Moved, TypeOK, ExecStep
  <2>3. timer' \in [Requests -> Nat]
    BY <1>19 DEF SettleWorked, Steps, Move, Moved, TypeOK
  <2> QED
    BY <1>19, <2>1, <2>2, <2>3 DEF SettleWorked, Steps, Move, Moved, TypeOK,
       rowVars, slotVars, procVars
<1>20. ASSUME NEW r \in Requests, SettleRefused(r) PROVE TypeOK'
  BY <1>20 DEF SettleRefused, Steps, TryMove, Move, Moved, TypeOK, Status, RunStep,
     ExecStep, rowVars, slotVars, procVars
<1>21. ASSUME NEW r \in Requests, CheckStale(r) PROVE TypeOK'
  <2>1. timer' \in [Requests -> Nat]
    BY <1>21 DEF CheckStale, TypeOK
  <2>2. closed' \in [Requests -> BOOLEAN] /\ notice' \in [Requests -> BOOLEAN]
    BY <1>21 DEF CheckStale, TypeOK
  <2> QED
    BY <1>21, <2>1, <2>2 DEF CheckStale, TypeOK, rowVars, slotVars, procVars
<1>22. ASSUME NEW c \in Clicks, NEW r \in Requests, ReadRow(c, r) PROVE TypeOK'
  BY <1>22 DEF ReadRow, TypeOK, Status, RunStep, ExecStep, rowVars, slotVars,
     procVars, ClickState
<1>23. ASSUME NEW c \in Clicks, PressLate(c) PROVE TypeOK'
  <2>1. click[c].req \in Requests
    BY <1>23 DEF PressLate, Ends, Move, Moved, TypeOK, ClickState
  <2>2. st' \in [Requests -> Status]
    BY <1>23 DEF PressLate, Ends, Move, Moved, TypeOK, Status
  <2>3. click' \in [Clicks -> ClickState]
    BY <1>23 DEF PressLate, Ends, Move, Moved, TypeOK, ClickState
  <2> QED
    BY <1>23, <2>1, <2>2, <2>3 DEF PressLate, Ends, Move, Moved, TypeOK, rowVars,
       slotVars, procVars
<1>24. ASSUME NEW c \in Clicks, PressTooSoon(c) PROVE TypeOK'
  BY <1>24 DEF PressTooSoon, Ends, TypeOK, Status, RunStep, ExecStep, rowVars,
     slotVars, procVars, ClickState
<1>25. ASSUME NEW c \in Clicks, PressCancel(c) PROVE TypeOK'
  <2>1. click[c].req \in Requests
    BY <1>25 DEF PressCancel, Ends, Move, Moved, TypeOK, ClickState
  <2>2. st' \in [Requests -> Status]
    BY <1>25 DEF PressCancel, Ends, Move, Moved, TypeOK, Status
  <2>3. click' \in [Clicks -> ClickState]
    BY <1>25 DEF PressCancel, Ends, Move, Moved, TypeOK, ClickState
  <2> QED
    BY <1>25, <2>1, <2>2, <2>3 DEF PressCancel, Ends, Move, Moved, TypeOK, rowVars,
       slotVars, procVars
<1>26. ASSUME NEW c \in Clicks, PressConfirm(c) PROVE TypeOK'
  <2>1. click[c].req \in Requests
    BY <1>26 DEF PressConfirm, Ends, Move, Moved, TypeOK, ClickState
  <2>2. st' \in [Requests -> Status]
    BY <1>26 DEF PressConfirm, Ends, Move, Moved, TypeOK, Status
  <2>3. exec' \in [Requests -> ExecStep]
    BY <1>26 DEF PressConfirm, Ends, Move, Moved, TypeOK, ExecStep
  <2>4. click' \in [Clicks -> ClickState]
    BY <1>26 DEF PressConfirm, Ends, Move, Moved, TypeOK, ClickState
  <2> QED
    BY <1>26, <2>1, <2>2, <2>3, <2>4 DEF PressConfirm, Ends, Move, Moved, TypeOK,
       rowVars, slotVars, procVars
<1>27. ASSUME NEW a \in Agents, Boot(a) PROVE TypeOK'
  <2>1. PICK C \in SUBSET Pending :
           agent' = [agent EXCEPT ![a].step = "claim", ![a].left = C]
    BY <1>27 DEF Boot
  <2>2. C \subseteq Requests
    BY DEF Pending
  <2>3. [agent[a] EXCEPT !.step = "claim", !.left = C] \in AgentState
    <3>1. agent[a] \in AgentState
      BY DEF TypeOK
    <3> QED
      BY <2>2, <3>1 DEF AgentState, AgentStep
  <2>4. agent' \in [Agents -> AgentState]
    BY <2>1, <2>3 DEF TypeOK, AgentState, AgentStep
  <2> QED
    BY <1>27, <2>4 DEF Boot, TypeOK, rowVars, slotVars
<1>28. ASSUME NEW a \in Agents, RunUnbound(a) PROVE TypeOK'
  <2>1. [agent[a] EXCEPT !.step = "free"] \in AgentState
    <3>1. agent[a] \in AgentState
      BY DEF TypeOK
    <3> QED
      BY <3>1 DEF AgentState, AgentStep
  <2>2. agent' \in [Agents -> AgentState]
    BY <1>28, <2>1 DEF RunUnbound, TypeOK
  <2> QED
    BY <1>28, <2>2 DEF RunUnbound, TypeOK, rowVars, slotVars
<1>29. ASSUME NEW a \in Agents, Complete(a) PROVE TypeOK'
  <2>1. agent' \in [Agents -> AgentState]
    BY <1>29 DEF Complete, TypeOK, AgentState, AgentStep
  <2>2. closed' \in [Requests -> BOOLEAN]
    BY <1>29 DEF Complete, TypeOK, AgentState, AgentStep
  <2> QED
    BY <1>29, <2>1, <2>2 DEF Complete, TypeOK, rowVars, slotVars, procVars
<1>30. ASSUME NEW a \in Agents, NEW r \in Requests, ClaimNext(a, r) PROVE TypeOK'
  <2>1. /\ agent[a] \in AgentState /\ agent[a].left \ {r} \in SUBSET Requests
    BY <1>30 DEF ClaimNext, TypeOK, AgentState, AgentStep
  <2>2. agent' \in [Agents -> AgentState]
    BY <1>30 DEF ClaimNext, TypeOK, AgentState, AgentStep, Unclaimed
  <2>3. owner' \in [Requests -> Agents \cup {Nobody}]
    BY <1>30 DEF ClaimNext, TypeOK
  <2>4. claimed' \in [Requests -> Nat]
    BY <1>30 DEF ClaimNext, TypeOK
  <2> QED
    BY <1>30, <2>1, <2>2, <2>3, <2>4 DEF ClaimNext, TypeOK, rowVars, slotVars,
       procVars
<1>31. ASSUME UNCHANGED vars PROVE TypeOK'
  BY <1>31 DEF vars, TypeOK, Status, RunStep, ExecStep, rowVars, slotVars, procVars
<1> QED
  BY <1>1, <1>2, <1>3, <1>4, <1>5, <1>6, <1>7, <1>8, <1>9, <1>10, <1>11, <1>12,
     <1>13, <1>14, <1>15, <1>16, <1>17, <1>18, <1>19, <1>20, <1>21, <1>22, <1>23,
     <1>24, <1>25, <1>26, <1>27, <1>28, <1>29, <1>30, <1>31
  DEF Next, RunNext, ClickNext, ExecNext, AgentNext

\* Every column and every process keeps its type.
THEOREM TypeCorrect == Spec => []TypeOK
  BY TypeInit, TypeStep, PTL DEF Spec

-----------------------------------------------------------------------------
(* The life of a request: where its handler is says what its status may be, *)
(* and an effect is still possible only while there was none.               *)

Life(q) ==
  /\ run[q] = "idle" <=> st[q] = "none"
  /\ run[q] \in {"count", "queued", "sweep", "start"} => st[q] = "received"
  /\ run[q] \in {"graph", "repair", "card"} => st[q] \in {"running", "failed"}
  /\ run[q] \in {"graph", "repair", "card"} => acts[q] = 0 /\ exec[q] = "none"
  /\ run[q] = "fired" => st[q] \in {"running", "failed"} /\ exec[q] = "none"
  /\ st[q] = "received" => run[q] \in {"count", "queued", "sweep", "start", "done"}
  /\ st[q] = "awaiting_confirm" => run[q] = "done"
  /\ st[q] \in {"none", "received", "awaiting_confirm", "cancelled", "expired", "refused"}
       => exec[q] = "none" /\ acts[q] = 0
  /\ exec[q] # "none" => run[q] = "done" /\ st[q] \in {"running", "executed", "failed"}
  /\ exec[q] \in {"begin", "record", "trigger"} => acts[q] = 0
  /\ acts[q] <= 1

Lives == \A q \in Requests : Life(q)

LEMMA LifeInit == Init => Lives
  BY DEF Init, Lives, Life

LEMMA LifeStep == TypeOK /\ Lives /\ [Next]_vars => Lives'
<1> SUFFICES ASSUME TypeOK, [Next]_vars, NEW q \in Requests, Life(q) PROVE Life(q)'
  BY DEF Lives
<1>1. ASSUME Tick PROVE Life(q)'
  BY <1>1 DEF Tick, Life, rowVars, slotVars, procVars
<1>2. ASSUME Restart PROVE Life(q)'
  BY <1>2 DEF Restart, TypeOK, Status, RunStep, ExecStep, Life, rowVars, slotVars,
     procVars
<1>3. ASSUME NEW r \in Requests, Deliver(r) PROVE Life(q)'
  BY <1>3 DEF Deliver, TypeOK, Status, RunStep, ExecStep, Life, rowVars, slotVars,
     procVars
<1>4. ASSUME NEW r \in Requests, Redeliver(r) PROVE Life(q)'
  BY <1>4 DEF Redeliver, vars, TypeOK, Status, RunStep, ExecStep, Life, rowVars,
     slotVars, procVars
<1>5. ASSUME NEW r \in Requests, Admit(r) PROVE Life(q)'
  BY <1>5 DEF Admit, Goes, Move, Moved, TypeOK, Status, RunStep, ExecStep, Life,
     rowVars, slotVars, procVars
<1>6. ASSUME NEW r \in Requests, SweepRunning(r) PROVE Life(q)'
  BY <1>6 DEF SweepRunning, Goes, TypeOK, Status, RunStep, ExecStep, Life, rowVars,
     slotVars, procVars
<1>7. ASSUME NEW r \in Requests, SweepUnanswered(r) PROVE Life(q)'
  BY <1>7 DEF SweepUnanswered, Goes, TypeOK, Status, RunStep, ExecStep, Life,
     rowVars, slotVars, procVars
<1>8. ASSUME NEW r \in Requests, Start(r) PROVE Life(q)'
  BY <1>8 DEF Start, Goes, Move, Moved, TypeOK, Status, RunStep, ExecStep, Life,
     rowVars, slotVars, procVars
<1>9. ASSUME NEW r \in Requests, Conclude(r) PROVE Life(q)'
  BY <1>9 DEF Conclude, TryMove, Move, Moved, TypeOK, Status, RunStep, ExecStep,
     Life, rowVars, slotVars, procVars
<1>10. ASSUME NEW r \in Requests, FireRoutine(r) PROVE Life(q)'
  BY <1>10 DEF FireRoutine, TryMove, Move, Moved, TypeOK, Status, RunStep, ExecStep,
     Life, rowVars, slotVars, procVars
<1>11. ASSUME NEW r \in Requests, AfterFire(r) PROVE Life(q)'
  BY <1>11 DEF AfterFire, Goes, Move, Moved, TypeOK, Status, RunStep, ExecStep,
     Life, rowVars, slotVars, procVars
<1>12. ASSUME NEW r \in Requests, PostCard(r) PROVE Life(q)'
  BY <1>12 DEF PostCard, Goes, TypeOK, Status, RunStep, ExecStep, Life, rowVars,
     slotVars, procVars
<1>13. ASSUME NEW r \in Requests, Await(r) PROVE Life(q)'
  BY <1>13 DEF Await, Goes, Move, Moved, TypeOK, Status, RunStep, ExecStep, Life,
     rowVars, slotVars, procVars
<1>14. ASSUME NEW r \in Requests, Perform(r) PROVE Life(q)'
  BY <1>14 DEF Perform, Steps, TypeOK, Status, RunStep, ExecStep, Life, rowVars,
     slotVars, procVars
<1>15. ASSUME NEW r \in Requests, FindInFlight(r) PROVE Life(q)'
  BY <1>15 DEF FindInFlight, Steps, TypeOK, Status, RunStep, ExecStep, Life,
     rowVars, slotVars, procVars
<1>16. ASSUME NEW r \in Requests, RecordDispatch(r) PROVE Life(q)'
  BY <1>16 DEF RecordDispatch, Steps, TypeOK, Status, RunStep, ExecStep, Life,
     rowVars, slotVars, procVars
<1>17. ASSUME NEW r \in Requests, Trigger(r) PROVE Life(q)'
  BY <1>17 DEF Trigger, Steps, TypeOK, Status, RunStep, ExecStep, Life, rowVars,
     slotVars, procVars
<1>18. ASSUME NEW r \in Requests, ClearDispatch(r) PROVE Life(q)'
  BY <1>18 DEF ClearDispatch, Steps, TypeOK, Status, RunStep, ExecStep, Life,
     rowVars, slotVars, procVars
<1>19. ASSUME NEW r \in Requests, SettleWorked(r) PROVE Life(q)'
  BY <1>19 DEF SettleWorked, Steps, Move, Moved, TypeOK, Status, RunStep, ExecStep,
     Life, rowVars, slotVars, procVars
<1>20. ASSUME NEW r \in Requests, SettleRefused(r) PROVE Life(q)'
  BY <1>20 DEF SettleRefused, Steps, TryMove, Move, Moved, TypeOK, Status, RunStep,
     ExecStep, Life, rowVars, slotVars, procVars
<1>21. ASSUME NEW r \in Requests, CheckStale(r) PROVE Life(q)'
  BY <1>21 DEF CheckStale, TypeOK, Status, RunStep, ExecStep, Life, rowVars,
     slotVars, procVars
<1>22. ASSUME NEW c \in Clicks, NEW r \in Requests, ReadRow(c, r) PROVE Life(q)'
  BY <1>22 DEF ReadRow, TypeOK, Status, RunStep, ExecStep, Life, rowVars, slotVars,
     procVars, ClickState
<1>23. ASSUME NEW c \in Clicks, PressLate(c) PROVE Life(q)'
  BY <1>23 DEF PressLate, Ends, Move, Moved, TypeOK, Status, RunStep, ExecStep,
     Life, rowVars, slotVars, procVars, ClickState
<1>24. ASSUME NEW c \in Clicks, PressTooSoon(c) PROVE Life(q)'
  BY <1>24 DEF PressTooSoon, Ends, TypeOK, Status, RunStep, ExecStep, Life, rowVars,
     slotVars, procVars, ClickState
<1>25. ASSUME NEW c \in Clicks, PressCancel(c) PROVE Life(q)'
  BY <1>25 DEF PressCancel, Ends, Move, Moved, TypeOK, Status, RunStep, ExecStep,
     Life, rowVars, slotVars, procVars, ClickState
<1>26. ASSUME NEW c \in Clicks, PressConfirm(c) PROVE Life(q)'
  BY <1>26 DEF PressConfirm, Ends, Move, Moved, TypeOK, Status, RunStep, ExecStep,
     Life, rowVars, slotVars, procVars, ClickState
<1>27. ASSUME NEW a \in Agents, Boot(a) PROVE Life(q)'
  BY <1>27 DEF Boot, TypeOK, Status, RunStep, ExecStep, Life, rowVars, slotVars,
     procVars
<1>28. ASSUME NEW a \in Agents, RunUnbound(a) PROVE Life(q)'
  BY <1>28 DEF RunUnbound, TypeOK, Status, RunStep, ExecStep, Life, rowVars,
     slotVars, procVars
<1>29. ASSUME NEW a \in Agents, Complete(a) PROVE Life(q)'
  BY <1>29 DEF Complete, TypeOK, Status, RunStep, ExecStep, Life, rowVars, slotVars,
     procVars
<1>30. ASSUME NEW a \in Agents, NEW r \in Requests, ClaimNext(a, r) PROVE Life(q)'
  BY <1>30 DEF ClaimNext, Unclaimed, TypeOK, Status, RunStep, ExecStep, Life,
     rowVars, slotVars, procVars
<1>31. ASSUME UNCHANGED vars PROVE Life(q)'
  BY <1>31 DEF vars, TypeOK, Status, RunStep, ExecStep, Life, rowVars, slotVars,
     procVars
<1> QED
  BY <1>1, <1>2, <1>3, <1>4, <1>5, <1>6, <1>7, <1>8, <1>9, <1>10, <1>11, <1>12,
     <1>13, <1>14, <1>15, <1>16, <1>17, <1>18, <1>19, <1>20, <1>21, <1>22, <1>23,
     <1>24, <1>25, <1>26, <1>27, <1>28, <1>29, <1>30, <1>31
  DEF Next, RunNext, ClickNext, ExecNext, AgentNext

\* The shape of a request's life is inductive with the types.
LEMMA LivesAlways == Spec => [](TypeOK /\ Lives)
  BY TypeInit, LifeInit, TypeStep, LifeStep, PTL DEF Spec

LEMMA LifeMeans == Lives => ActsOnce /\ NoMeansNo
  BY DEF Lives, Life, ActsOnce, NoMeansNo

\* A request takes effect at most once, however its messages are delivered
\* and its buttons pressed.
THEOREM EffectOnce == Spec => []ActsOnce
  BY LivesAlways, LifeMeans, PTL

\* What the operator cancelled, what expired and what was refused has no effect.
THEOREM RefusalHolds == Spec => []NoMeansNo
  BY LivesAlways, LifeMeans, PTL

-----------------------------------------------------------------------------
(* A final status: every move names the status it leaves *)

Stays == \A r \in Requests : st[r] \in Final => st'[r] = st[r]

LEMMA StaysStep == TypeOK /\ [Next]_vars => Stays
<1> SUFFICES ASSUME TypeOK, [Next]_vars, NEW q \in Requests, st[q] \in Final PROVE
   st'[q] = st[q]
  BY DEF Stays
<1>1. ASSUME Tick PROVE st'[q] = st[q]
  BY <1>1 DEF Tick, TypeOK, Status, Final, rowVars, slotVars, procVars
<1>2. ASSUME Restart PROVE st'[q] = st[q]
  BY <1>2 DEF Restart, TypeOK, Status, Final, rowVars, slotVars, procVars
<1>3. ASSUME NEW r \in Requests, Deliver(r) PROVE st'[q] = st[q]
  BY <1>3 DEF Deliver, TypeOK, Status, Final, rowVars, slotVars, procVars
<1>4. ASSUME NEW r \in Requests, Redeliver(r) PROVE st'[q] = st[q]
  BY <1>4 DEF Redeliver, vars, TypeOK, Status, Final, rowVars, slotVars, procVars
<1>5. ASSUME NEW r \in Requests, Admit(r) PROVE st'[q] = st[q]
  BY <1>5 DEF Admit, Goes, Move, Moved, TypeOK, Status, Final, rowVars, slotVars,
     procVars
<1>6. ASSUME NEW r \in Requests, SweepRunning(r) PROVE st'[q] = st[q]
  BY <1>6 DEF SweepRunning, Goes, TypeOK, Status, Final, rowVars, slotVars, procVars
<1>7. ASSUME NEW r \in Requests, SweepUnanswered(r) PROVE st'[q] = st[q]
  BY <1>7 DEF SweepUnanswered, Goes, TypeOK, Status, Final, rowVars, slotVars,
     procVars
<1>8. ASSUME NEW r \in Requests, Start(r) PROVE st'[q] = st[q]
  BY <1>8 DEF Start, Goes, Move, Moved, TypeOK, Status, Final, rowVars, slotVars,
     procVars
<1>9. ASSUME NEW r \in Requests, Conclude(r) PROVE st'[q] = st[q]
  BY <1>9 DEF Conclude, TryMove, Move, Moved, TypeOK, Status, Final, rowVars,
     slotVars, procVars
<1>10. ASSUME NEW r \in Requests, FireRoutine(r) PROVE st'[q] = st[q]
  BY <1>10 DEF FireRoutine, TryMove, Move, Moved, TypeOK, Status, Final, rowVars,
     slotVars, procVars
<1>11. ASSUME NEW r \in Requests, AfterFire(r) PROVE st'[q] = st[q]
  BY <1>11 DEF AfterFire, Goes, Move, Moved, TypeOK, Status, Final, rowVars,
     slotVars, procVars
<1>12. ASSUME NEW r \in Requests, PostCard(r) PROVE st'[q] = st[q]
  BY <1>12 DEF PostCard, Goes, TypeOK, Status, Final, rowVars, slotVars, procVars
<1>13. ASSUME NEW r \in Requests, Await(r) PROVE st'[q] = st[q]
  BY <1>13 DEF Await, Goes, Move, Moved, TypeOK, Status, Final, rowVars, slotVars,
     procVars
<1>14. ASSUME NEW r \in Requests, Perform(r) PROVE st'[q] = st[q]
  BY <1>14 DEF Perform, Steps, TypeOK, Status, Final, rowVars, slotVars, procVars
<1>15. ASSUME NEW r \in Requests, FindInFlight(r) PROVE st'[q] = st[q]
  BY <1>15 DEF FindInFlight, Steps, TypeOK, Status, Final, rowVars, slotVars,
     procVars
<1>16. ASSUME NEW r \in Requests, RecordDispatch(r) PROVE st'[q] = st[q]
  BY <1>16 DEF RecordDispatch, Steps, TypeOK, Status, Final, rowVars, slotVars,
     procVars
<1>17. ASSUME NEW r \in Requests, Trigger(r) PROVE st'[q] = st[q]
  BY <1>17 DEF Trigger, Steps, TypeOK, Status, Final, rowVars, slotVars, procVars
<1>18. ASSUME NEW r \in Requests, ClearDispatch(r) PROVE st'[q] = st[q]
  BY <1>18 DEF ClearDispatch, Steps, TypeOK, Status, Final, rowVars, slotVars,
     procVars
<1>19. ASSUME NEW r \in Requests, SettleWorked(r) PROVE st'[q] = st[q]
  BY <1>19 DEF SettleWorked, Steps, Move, Moved, TypeOK, Status, Final, rowVars,
     slotVars, procVars
<1>20. ASSUME NEW r \in Requests, SettleRefused(r) PROVE st'[q] = st[q]
  BY <1>20 DEF SettleRefused, Steps, TryMove, Move, Moved, TypeOK, Status, Final,
     rowVars, slotVars, procVars
<1>21. ASSUME NEW r \in Requests, CheckStale(r) PROVE st'[q] = st[q]
  BY <1>21 DEF CheckStale, TypeOK, Status, Final, rowVars, slotVars, procVars
<1>22. ASSUME NEW c \in Clicks, NEW r \in Requests, ReadRow(c, r) PROVE st'[q] =
   st[q]
  BY <1>22 DEF ReadRow, TypeOK, Status, Final, rowVars, slotVars, procVars
<1>23. ASSUME NEW c \in Clicks, PressLate(c) PROVE st'[q] = st[q]
  BY <1>23 DEF PressLate, Ends, Move, Moved, TypeOK, Status, Final, rowVars,
     slotVars, procVars
<1>24. ASSUME NEW c \in Clicks, PressTooSoon(c) PROVE st'[q] = st[q]
  BY <1>24 DEF PressTooSoon, Ends, TypeOK, Status, Final, rowVars, slotVars,
     procVars
<1>25. ASSUME NEW c \in Clicks, PressCancel(c) PROVE st'[q] = st[q]
  BY <1>25 DEF PressCancel, Ends, Move, Moved, TypeOK, Status, Final, rowVars,
     slotVars, procVars
<1>26. ASSUME NEW c \in Clicks, PressConfirm(c) PROVE st'[q] = st[q]
  BY <1>26 DEF PressConfirm, Ends, Move, Moved, TypeOK, Status, Final, rowVars,
     slotVars, procVars
<1>27. ASSUME NEW a \in Agents, Boot(a) PROVE st'[q] = st[q]
  BY <1>27 DEF Boot, TypeOK, Status, Final, rowVars, slotVars, procVars
<1>28. ASSUME NEW a \in Agents, RunUnbound(a) PROVE st'[q] = st[q]
  BY <1>28 DEF RunUnbound, TypeOK, Status, Final, rowVars, slotVars, procVars
<1>29. ASSUME NEW a \in Agents, Complete(a) PROVE st'[q] = st[q]
  BY <1>29 DEF Complete, TypeOK, Status, Final, rowVars, slotVars, procVars
<1>30. ASSUME NEW a \in Agents, NEW r \in Requests, ClaimNext(a, r) PROVE st'[q] =
   st[q]
  BY <1>30 DEF ClaimNext, Unclaimed, TypeOK, Status, Final, rowVars, slotVars,
     procVars
<1>31. ASSUME UNCHANGED vars PROVE st'[q] = st[q]
  BY <1>31 DEF vars, rowVars
<1> QED
  BY <1>1, <1>2, <1>3, <1>4, <1>5, <1>6, <1>7, <1>8, <1>9, <1>10, <1>11, <1>12,
     <1>13, <1>14, <1>15, <1>16, <1>17, <1>18, <1>19, <1>20, <1>21, <1>22, <1>23,
     <1>24, <1>25, <1>26, <1>27, <1>28, <1>29, <1>30, <1>31
  DEF Next, RunNext, ClickNext, ExecNext, AgentNext

\* A request that was answered, executed, refused, failed, cancelled or
\* expired stays so: late presses, sweeps and executions find no row to move.
THEOREM EndStays == Spec => FinalStays
<1>1. TypeOK /\ [Next]_vars => [Stays]_vars
  BY StaysStep
<1>2. Spec => [][Stays]_vars
  BY <1>1, TypeCorrect, PTL DEF Spec
<1> QED
  BY <1>2 DEF Stays, FinalStays

-----------------------------------------------------------------------------
(* The dispatch slot: a dispatch that was given up is closed, and a closed *)
(* one is not claimed.                                                     *)

GivenUp == \A q \in Requests : notice[q] => closed[q] /\ owner[q] = Nobody

Bound(b) == agent[b].step \in {"bound", "done"} => owner[agent[b].task] = b

Slot == GivenUp /\ \A b \in Agents : Bound(b)

LEMMA SlotInit == Init => Slot
  BY DEF Init, Slot, GivenUp, Bound

LEMMA SlotStep == TypeOK /\ Slot /\ [Next]_vars => Slot'
<1> SUFFICES ASSUME TypeOK, Slot, [Next]_vars PROVE Slot'
  OBVIOUS
<1> USE OpsAssumption
<1>1. ASSUME Tick PROVE Slot'
  BY <1>1 DEF Tick, TypeOK, Slot, Bound, GivenUp, rowVars, slotVars, procVars,
     Unclaimed, AgentState, AgentStep
<1>2. ASSUME Restart PROVE Slot'
  BY <1>2 DEF Restart, TypeOK, Slot, Bound, GivenUp, rowVars, slotVars, procVars,
     Unclaimed, AgentState, AgentStep
<1>3. ASSUME NEW r \in Requests, Deliver(r) PROVE Slot'
  BY <1>3 DEF Deliver, TypeOK, Slot, Bound, GivenUp, rowVars, slotVars, procVars,
     Unclaimed, AgentState, AgentStep
<1>4. ASSUME NEW r \in Requests, Redeliver(r) PROVE Slot'
  BY <1>4 DEF Redeliver, vars, TypeOK, Slot, Bound, GivenUp, rowVars, slotVars,
     procVars, Unclaimed, AgentState, AgentStep
<1>5. ASSUME NEW r \in Requests, Admit(r) PROVE Slot'
  BY <1>5 DEF Admit, Goes, Move, Moved, TypeOK, Slot, Bound, GivenUp, rowVars,
     slotVars, procVars, Unclaimed, AgentState, AgentStep
<1>6. ASSUME NEW r \in Requests, SweepRunning(r) PROVE Slot'
  BY <1>6 DEF SweepRunning, Goes, TypeOK, Slot, Bound, GivenUp, rowVars, slotVars,
     procVars, Unclaimed, AgentState, AgentStep
<1>7. ASSUME NEW r \in Requests, SweepUnanswered(r) PROVE Slot'
  BY <1>7 DEF SweepUnanswered, Goes, TypeOK, Slot, Bound, GivenUp, rowVars,
     slotVars, procVars, Unclaimed, AgentState, AgentStep
<1>8. ASSUME NEW r \in Requests, Start(r) PROVE Slot'
  BY <1>8 DEF Start, Goes, Move, Moved, TypeOK, Slot, Bound, GivenUp, rowVars,
     slotVars, procVars, Unclaimed, AgentState, AgentStep
<1>9. ASSUME NEW r \in Requests, Conclude(r) PROVE Slot'
  BY <1>9 DEF Conclude, TryMove, Move, Moved, TypeOK, Slot, Bound, GivenUp, rowVars,
     slotVars, procVars, Unclaimed, AgentState, AgentStep
<1>10. ASSUME NEW r \in Requests, FireRoutine(r) PROVE Slot'
  BY <1>10 DEF FireRoutine, TryMove, Move, Moved, TypeOK, Slot, Bound, GivenUp,
     rowVars, slotVars, procVars, Unclaimed, AgentState, AgentStep
<1>11. ASSUME NEW r \in Requests, AfterFire(r) PROVE Slot'
  BY <1>11 DEF AfterFire, Goes, Move, Moved, TypeOK, Slot, Bound, GivenUp, rowVars,
     slotVars, procVars, Unclaimed, AgentState, AgentStep
<1>12. ASSUME NEW r \in Requests, PostCard(r) PROVE Slot'
  BY <1>12 DEF PostCard, Goes, TypeOK, Slot, Bound, GivenUp, rowVars, slotVars,
     procVars, Unclaimed, AgentState, AgentStep
<1>13. ASSUME NEW r \in Requests, Await(r) PROVE Slot'
  BY <1>13 DEF Await, Goes, Move, Moved, TypeOK, Slot, Bound, GivenUp, rowVars,
     slotVars, procVars, Unclaimed, AgentState, AgentStep
<1>14. ASSUME NEW r \in Requests, Perform(r) PROVE Slot'
  BY <1>14 DEF Perform, Steps, TypeOK, Slot, Bound, GivenUp, rowVars, slotVars,
     procVars, Unclaimed, AgentState, AgentStep
<1>15. ASSUME NEW r \in Requests, FindInFlight(r) PROVE Slot'
  BY <1>15 DEF FindInFlight, Steps, TypeOK, Slot, Bound, GivenUp, rowVars, slotVars,
     procVars, Unclaimed, AgentState, AgentStep
<1>16. ASSUME NEW r \in Requests, RecordDispatch(r) PROVE Slot'
  BY <1>16 DEF RecordDispatch, Steps, TypeOK, Slot, Bound, GivenUp, rowVars,
     slotVars, procVars, Unclaimed, AgentState, AgentStep
<1>17. ASSUME NEW r \in Requests, Trigger(r) PROVE Slot'
  BY <1>17 DEF Trigger, Steps, TypeOK, Slot, Bound, GivenUp, rowVars, slotVars,
     procVars, Unclaimed, AgentState, AgentStep
<1>18. ASSUME NEW r \in Requests, ClearDispatch(r) PROVE Slot'
  BY <1>18 DEF ClearDispatch, Steps, TypeOK, Slot, Bound, GivenUp, rowVars,
     slotVars, procVars, Unclaimed, AgentState, AgentStep
<1>19. ASSUME NEW r \in Requests, SettleWorked(r) PROVE Slot'
  BY <1>19 DEF SettleWorked, Steps, Move, Moved, TypeOK, Slot, Bound, GivenUp,
     rowVars, slotVars, procVars, Unclaimed, AgentState, AgentStep
<1>20. ASSUME NEW r \in Requests, SettleRefused(r) PROVE Slot'
  BY <1>20 DEF SettleRefused, Steps, TryMove, Move, Moved, TypeOK, Slot, Bound,
     GivenUp, rowVars, slotVars, procVars, Unclaimed, AgentState, AgentStep
<1>21. ASSUME NEW r \in Requests, CheckStale(r) PROVE Slot'
  BY <1>21 DEF CheckStale, TypeOK, Slot, Bound, GivenUp, rowVars, slotVars,
     procVars, Unclaimed, AgentState, AgentStep
<1>22. ASSUME NEW c \in Clicks, NEW r \in Requests, ReadRow(c, r) PROVE Slot'
  BY <1>22 DEF ReadRow, TypeOK, Slot, Bound, GivenUp, rowVars, slotVars, procVars,
     Unclaimed, AgentState, AgentStep
<1>23. ASSUME NEW c \in Clicks, PressLate(c) PROVE Slot'
  BY <1>23 DEF PressLate, Ends, Move, Moved, TypeOK, Slot, Bound, GivenUp, rowVars,
     slotVars, procVars, Unclaimed, AgentState, AgentStep
<1>24. ASSUME NEW c \in Clicks, PressTooSoon(c) PROVE Slot'
  BY <1>24 DEF PressTooSoon, Ends, TypeOK, Slot, Bound, GivenUp, rowVars, slotVars,
     procVars, Unclaimed, AgentState, AgentStep
<1>25. ASSUME NEW c \in Clicks, PressCancel(c) PROVE Slot'
  BY <1>25 DEF PressCancel, Ends, Move, Moved, TypeOK, Slot, Bound, GivenUp,
     rowVars, slotVars, procVars, Unclaimed, AgentState, AgentStep
<1>26. ASSUME NEW c \in Clicks, PressConfirm(c) PROVE Slot'
  BY <1>26 DEF PressConfirm, Ends, Move, Moved, TypeOK, Slot, Bound, GivenUp,
     rowVars, slotVars, procVars, Unclaimed, AgentState, AgentStep
<1>27. ASSUME NEW a \in Agents, Boot(a) PROVE Slot'
  BY <1>27 DEF Boot, TypeOK, Slot, Bound, GivenUp, rowVars, slotVars, procVars,
     Unclaimed, AgentState, AgentStep
<1>28. ASSUME NEW a \in Agents, RunUnbound(a) PROVE Slot'
  BY <1>28 DEF RunUnbound, TypeOK, Slot, Bound, GivenUp, rowVars, slotVars,
     procVars, Unclaimed, AgentState, AgentStep
<1>29. ASSUME NEW a \in Agents, Complete(a) PROVE Slot'
  BY <1>29 DEF Complete, TypeOK, Slot, Bound, GivenUp, rowVars, slotVars, procVars,
     Unclaimed, AgentState, AgentStep
<1>30. ASSUME NEW a \in Agents, NEW r \in Requests, ClaimNext(a, r) PROVE Slot'
  <2>1. CASE Unclaimed(r)
    <3>1. owner' = [owner EXCEPT ![r] = a]
      BY <1>30, <2>1 DEF ClaimNext
    <3>2. GivenUp'
      BY <1>30, <2>1, <3>1 DEF ClaimNext, Unclaimed, Slot, GivenUp, TypeOK
    <3>3. ASSUME NEW b \in Agents PROVE Bound(b)'
      <4>1. agent[b].task \in Requests /\ Bound(b)
        BY DEF TypeOK, AgentState, Slot
      <4>2. CASE b = a
        BY <1>30, <2>1, <3>1, <4>2 DEF ClaimNext, Bound, TypeOK, AgentState
      <4>3. CASE b # a
        <5>1. agent'[b] = agent[b]
          BY <1>30, <4>3 DEF ClaimNext, TypeOK
        <5> QED
          BY <2>1, <3>1, <4>1, <4>3, <5>1 DEF Bound, Unclaimed, TypeOK
      <4> QED
        BY <4>2, <4>3
    <3> QED
      BY <3>2, <3>3 DEF Slot
  <2>2. CASE ~Unclaimed(r)
    BY <1>30, <2>2 DEF ClaimNext, Slot, Bound, GivenUp, TypeOK, AgentState
  <2> QED
    BY <2>1, <2>2
<1>31. ASSUME UNCHANGED vars PROVE Slot'
  BY <1>31 DEF vars, TypeOK, Slot, Bound, GivenUp, rowVars, slotVars, procVars,
     Unclaimed, AgentState, AgentStep
<1> QED
  BY <1>1, <1>2, <1>3, <1>4, <1>5, <1>6, <1>7, <1>8, <1>9, <1>10, <1>11, <1>12,
     <1>13, <1>14, <1>15, <1>16, <1>17, <1>18, <1>19, <1>20, <1>21, <1>22, <1>23,
     <1>24, <1>25, <1>26, <1>27, <1>28, <1>29, <1>30, <1>31
  DEF Next, RunNext, ClickNext, ExecNext, AgentNext

LEMMA SlotAlways == Spec => []Slot
  BY TypeInit, SlotInit, TypeStep, SlotStep, PTL DEF Spec

LEMMA SlotMeans == Slot => OneOwner /\ NoticeIsTrue
  BY DEF Slot, GivenUp, Bound, OneOwner, NoticeIsTrue

\* The run of the agent that reports for a dispatch is the one it was given to.
THEOREM DispatchHasOneOwner == Spec => []OneOwner
  BY SlotAlways, SlotMeans, PTL

\* A run the requester was told did not start is never taken over later.
THEOREM NoticeHolds == Spec => []NoticeIsTrue
  BY SlotAlways, SlotMeans, PTL

-----------------------------------------------------------------------------
(* The daily cap: a request enters the set only when its own count, taken  *)
(* after its insert, was within the cap, and it then counted all of them.  *)

LEMMA CapInit == Init => CapHolds
<1> SUFFICES ASSUME Init PROVE CapHolds
  OBVIOUS
<1>1. LetIn = {}
  BY DEF Init, LetIn, Counted
<1> QED
  BY <1>1, FS_EmptySet, Numbers DEF CapHolds

Smaller == LetIn' \subseteq LetIn \/ Cardinality(LetIn') <= DailyCap

LEMMA CapStep == TypeOK /\ Lives /\ [Next]_vars => Smaller
<1> SUFFICES ASSUME TypeOK, Lives, [Next]_vars PROVE Smaller
  OBVIOUS
<1>1. ASSUME Tick PROVE Smaller
  BY <1>1 DEF Tick, Smaller, LetIn, Counted, Lives, Life, TypeOK, Status, RunStep,
     rowVars, slotVars, procVars
<1>2. ASSUME Restart PROVE Smaller
  BY <1>2 DEF Restart, Smaller, LetIn, Counted, Lives, Life, TypeOK, Status,
     RunStep, rowVars, slotVars, procVars
<1>3. ASSUME NEW r \in Requests, Deliver(r) PROVE Smaller
  BY <1>3 DEF Deliver, Smaller, LetIn, Counted, Lives, Life, TypeOK, Status,
     RunStep, rowVars, slotVars, procVars
<1>4. ASSUME NEW r \in Requests, Redeliver(r) PROVE Smaller
  BY <1>4 DEF Redeliver, vars, Smaller, LetIn, Counted, Lives, Life, TypeOK, Status,
     RunStep, rowVars, slotVars, procVars
<1>5. ASSUME NEW r \in Requests, Admit(r) PROVE Smaller
  <2>1. CASE r \in SystemBots \/ OverCap(r) \/ run'[r] = "done"
    <3> SUFFICES ASSUME NEW q \in LetIn' PROVE q \in LetIn
      BY DEF Smaller
    <3> QED
      BY <1>5, <2>1 DEF Admit, Goes, Move, Moved, LetIn, Counted, Lives, Life,
         TypeOK
  <2>2. CASE r \notin SystemBots /\ ~OverCap(r) /\ run'[r] # "done"
    <3>1. st' = st
      BY <1>5, <2>2 DEF Admit, Goes, TypeOK
    <3>2. IsFiniteSet(Counted)
      BY FS_Subset, OpsAssumption DEF Counted
    <3>3. LetIn' \subseteq Counted
      BY <3>1 DEF LetIn, Counted
    <3>4. Cardinality(Counted) <= DailyCap
      BY <2>2, <3>2, FS_CardinalityType, Numbers DEF OverCap
    <3>5. Cardinality(LetIn') <= Cardinality(Counted)
      BY <3>3, <3>2, FS_Subset
    <3>6. Cardinality(LetIn') \in Nat /\ Cardinality(Counted) \in Nat
      BY <3>3, <3>2, FS_Subset, FS_CardinalityType
    <3> QED
      BY <3>4, <3>5, <3>6, Numbers DEF Smaller
  <2> QED
    BY <2>1, <2>2
<1>6. ASSUME NEW r \in Requests, SweepRunning(r) PROVE Smaller
  BY <1>6 DEF SweepRunning, Goes, Smaller, LetIn, Counted, Lives, Life, TypeOK,
     Status, RunStep, rowVars, slotVars, procVars
<1>7. ASSUME NEW r \in Requests, SweepUnanswered(r) PROVE Smaller
  BY <1>7 DEF SweepUnanswered, Goes, Smaller, LetIn, Counted, Lives, Life, TypeOK,
     Status, RunStep, rowVars, slotVars, procVars
<1>8. ASSUME NEW r \in Requests, Start(r) PROVE Smaller
  BY <1>8 DEF Start, Goes, Move, Moved, Smaller, LetIn, Counted, Lives, Life,
     TypeOK, Status, RunStep, rowVars, slotVars, procVars
<1>9. ASSUME NEW r \in Requests, Conclude(r) PROVE Smaller
  BY <1>9 DEF Conclude, TryMove, Move, Moved, Smaller, LetIn, Counted, Lives, Life,
     TypeOK, Status, RunStep, rowVars, slotVars, procVars
<1>10. ASSUME NEW r \in Requests, FireRoutine(r) PROVE Smaller
  BY <1>10 DEF FireRoutine, TryMove, Move, Moved, Smaller, LetIn, Counted, Lives,
     Life, TypeOK, Status, RunStep, rowVars, slotVars, procVars
<1>11. ASSUME NEW r \in Requests, AfterFire(r) PROVE Smaller
  BY <1>11 DEF AfterFire, Goes, Move, Moved, Smaller, LetIn, Counted, Lives, Life,
     TypeOK, Status, RunStep, rowVars, slotVars, procVars
<1>12. ASSUME NEW r \in Requests, PostCard(r) PROVE Smaller
  BY <1>12 DEF PostCard, Goes, Smaller, LetIn, Counted, Lives, Life, TypeOK, Status,
     RunStep, rowVars, slotVars, procVars
<1>13. ASSUME NEW r \in Requests, Await(r) PROVE Smaller
  BY <1>13 DEF Await, Goes, Move, Moved, Smaller, LetIn, Counted, Lives, Life,
     TypeOK, Status, RunStep, rowVars, slotVars, procVars
<1>14. ASSUME NEW r \in Requests, Perform(r) PROVE Smaller
  BY <1>14 DEF Perform, Steps, Smaller, LetIn, Counted, Lives, Life, TypeOK, Status,
     RunStep, rowVars, slotVars, procVars
<1>15. ASSUME NEW r \in Requests, FindInFlight(r) PROVE Smaller
  BY <1>15 DEF FindInFlight, Steps, Smaller, LetIn, Counted, Lives, Life, TypeOK,
     Status, RunStep, rowVars, slotVars, procVars
<1>16. ASSUME NEW r \in Requests, RecordDispatch(r) PROVE Smaller
  BY <1>16 DEF RecordDispatch, Steps, Smaller, LetIn, Counted, Lives, Life, TypeOK,
     Status, RunStep, rowVars, slotVars, procVars
<1>17. ASSUME NEW r \in Requests, Trigger(r) PROVE Smaller
  BY <1>17 DEF Trigger, Steps, Smaller, LetIn, Counted, Lives, Life, TypeOK, Status,
     RunStep, rowVars, slotVars, procVars
<1>18. ASSUME NEW r \in Requests, ClearDispatch(r) PROVE Smaller
  BY <1>18 DEF ClearDispatch, Steps, Smaller, LetIn, Counted, Lives, Life, TypeOK,
     Status, RunStep, rowVars, slotVars, procVars
<1>19. ASSUME NEW r \in Requests, SettleWorked(r) PROVE Smaller
  BY <1>19 DEF SettleWorked, Steps, Move, Moved, Smaller, LetIn, Counted, Lives,
     Life, TypeOK, Status, RunStep, rowVars, slotVars, procVars
<1>20. ASSUME NEW r \in Requests, SettleRefused(r) PROVE Smaller
  BY <1>20 DEF SettleRefused, Steps, TryMove, Move, Moved, Smaller, LetIn, Counted,
     Lives, Life, TypeOK, Status, RunStep, rowVars, slotVars, procVars
<1>21. ASSUME NEW r \in Requests, CheckStale(r) PROVE Smaller
  BY <1>21 DEF CheckStale, Smaller, LetIn, Counted, Lives, Life, TypeOK, Status,
     RunStep, rowVars, slotVars, procVars
<1>22. ASSUME NEW c \in Clicks, NEW r \in Requests, ReadRow(c, r) PROVE Smaller
  BY <1>22 DEF ReadRow, Smaller, LetIn, Counted, Lives, Life, TypeOK, Status,
     RunStep, rowVars, slotVars, procVars, ClickState
<1>23. ASSUME NEW c \in Clicks, PressLate(c) PROVE Smaller
  BY <1>23 DEF PressLate, Ends, Move, Moved, Smaller, LetIn, Counted, Lives, Life,
     TypeOK, Status, RunStep, rowVars, slotVars, procVars
<1>24. ASSUME NEW c \in Clicks, PressTooSoon(c) PROVE Smaller
  BY <1>24 DEF PressTooSoon, Ends, Smaller, LetIn, Counted, Lives, Life, TypeOK,
     Status, RunStep, rowVars, slotVars, procVars
<1>25. ASSUME NEW c \in Clicks, PressCancel(c) PROVE Smaller
  BY <1>25 DEF PressCancel, Ends, Move, Moved, Smaller, LetIn, Counted, Lives, Life,
     TypeOK, Status, RunStep, rowVars, slotVars, procVars
<1>26. ASSUME NEW c \in Clicks, PressConfirm(c) PROVE Smaller
  BY <1>26 DEF PressConfirm, Ends, Move, Moved, Smaller, LetIn, Counted, Lives,
     Life, TypeOK, Status, RunStep, rowVars, slotVars, procVars
<1>27. ASSUME NEW a \in Agents, Boot(a) PROVE Smaller
  BY <1>27 DEF Boot, Smaller, LetIn, Counted, Lives, Life, TypeOK, Status, RunStep,
     rowVars, slotVars, procVars
<1>28. ASSUME NEW a \in Agents, RunUnbound(a) PROVE Smaller
  BY <1>28 DEF RunUnbound, Smaller, LetIn, Counted, Lives, Life, TypeOK, Status,
     RunStep, rowVars, slotVars, procVars
<1>29. ASSUME NEW a \in Agents, Complete(a) PROVE Smaller
  BY <1>29 DEF Complete, Smaller, LetIn, Counted, Lives, Life, TypeOK, Status,
     RunStep, rowVars, slotVars, procVars
<1>30. ASSUME NEW a \in Agents, NEW r \in Requests, ClaimNext(a, r) PROVE Smaller
  BY <1>30 DEF ClaimNext, Unclaimed, Smaller, LetIn, Counted, Lives, Life, TypeOK,
     Status, RunStep, rowVars, slotVars, procVars
<1>31. ASSUME UNCHANGED vars PROVE Smaller
  BY <1>31 DEF vars, Smaller, LetIn, Counted, Lives, Life, TypeOK, Status, RunStep,
     rowVars, slotVars, procVars
<1> QED
  BY <1>1, <1>2, <1>3, <1>4, <1>5, <1>6, <1>7, <1>8, <1>9, <1>10, <1>11, <1>12,
     <1>13, <1>14, <1>15, <1>16, <1>17, <1>18, <1>19, <1>20, <1>21, <1>22, <1>23,
     <1>24, <1>25, <1>26, <1>27, <1>28, <1>29, <1>30, <1>31
  DEF Next, RunNext, ClickNext, ExecNext, AgentNext

LEMMA CapNext == TypeOK /\ Lives /\ CapHolds /\ [Next]_vars => CapHolds'
<1> SUFFICES ASSUME TypeOK, Lives, CapHolds, [Next]_vars PROVE CapHolds'
  OBVIOUS
<1>1. CASE Cardinality(LetIn') <= DailyCap
  BY <1>1 DEF CapHolds
<1>2. CASE LetIn' \subseteq LetIn
  <2>1. IsFiniteSet(LetIn)
    BY FS_Subset, OpsAssumption DEF LetIn, Counted
  <2>2. Cardinality(LetIn') <= Cardinality(LetIn)
    BY <1>2, <2>1, FS_Subset
  <2>3. Cardinality(LetIn') \in Nat /\ Cardinality(LetIn) \in Nat
    BY <1>2, <2>1, FS_Subset, FS_CardinalityType
  <2> QED
    BY <2>2, <2>3, Numbers DEF CapHolds
<1> QED
  BY <1>1, <1>2, CapStep DEF Smaller

\* The people's requests of a day that are let in are at most the cap.
THEOREM CapAlways == Spec => []CapHolds
  BY LivesAlways, CapInit, CapNext, PTL DEF Spec
=============================================================================
