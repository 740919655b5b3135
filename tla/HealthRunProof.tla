--------------------------- MODULE HealthRunProof ---------------------------
(***************************************************************************)
(* Safety of the nightly health run, for any number of starts, findings,   *)
(* days and rows, and whichever failures may happen.                       *)
(***************************************************************************)
EXTENDS HealthRun, TLAPS

-----------------------------------------------------------------------------
(* Types *)

LEMMA Numbers ==
  /\ FollowUp \in Nat /\ MaxDay \in Nat /\ MaxRows \in Nat
  /\ 0 \in Days /\ Days \subseteq Nat /\ RowId \subseteq Nat
  /\ \A d \in Days : d + 1 > 0
  BY HealthAssumption DEF Days, RowId

\* Writing into one row of one finding
LEMMA Put ==
  ASSUME NEW S, NEW t \in [Findings -> [RowId -> S]],
         NEW f \in Findings, NEW r, NEW x, r \in RowId => x \in S
  PROVE  [t EXCEPT ![f][r] = x] \in [Findings -> [RowId -> S]]
<1>1. [t[f] EXCEPT ![r] = x] \in [RowId -> S]
  OBVIOUS
<1> QED
  BY <1>1

LEMMA TypeInit == Init => TypeOK
<1> SUFFICES ASSUME Init PROVE TypeOK
  OBVIOUS
<1>1. cur \in [Runs -> Findings]
  BY HealthAssumption DEF Init
<1> QED
  BY <1>1, Numbers DEF Init, TypeOK, Step

LEMMA TypeStep == TypeOK /\ [Next]_vars => TypeOK'
<1> SUFFICES ASSUME TypeOK, [Next]_vars PROVE TypeOK'
  OBVIOUS
<1> USE Numbers
<1>1. ASSUME Tick PROVE TypeOK'
  <2>1. day' \in Days
    BY <1>1, HealthAssumption DEF Tick, TypeOK, Days
  <2> QED
    BY <1>1, <2>1 DEF Tick, TypeOK, ledgerVars, rowVars, ticketVars, sightVars,
       readVars, runVars
<1>2. ASSUME NEW w \in Runs, Admit(w) PROVE TypeOK'
  <2>1. step' \in [Runs -> Step]
    BY <1>2 DEF Admit, Goes, TypeOK, Step, ledgerVars, rowVars, ticketVars,
       sightVars, readVars, runVars
  <2>2. status' \in [Days -> {"free", "claimed", "completed", "failed"}]
    BY <1>2 DEF Admit, TypeOK, ledgerVars
  <2>3. owner' \in [Days -> Runs \cup {Nobody}]
    BY <1>2 DEF Admit, TypeOK, ledgerVars
  <2>4. date' \in [Runs -> Days]
    BY <1>2 DEF Admit, TypeOK
  <2> QED
    BY <1>2, <2>1, <2>2, <2>3, <2>4 DEF Admit, Goes, TypeOK, ledgerVars, rowVars,
       ticketVars, sightVars, readVars, runVars
<1>3. ASSUME NEW w \in Runs, Fail(w) PROVE TypeOK'
  BY <1>3 DEF Fail, Goes, End, TypeOK, Step, ledgerVars, rowVars, ticketVars,
     sightVars, readVars, runVars
<1>4. ASSUME NEW w \in Runs, Complete(w) PROVE TypeOK'
  BY <1>4 DEF Complete, Goes, End, TypeOK, Step, ledgerVars, rowVars, ticketVars,
     sightVars, readVars, runVars
<1>5. ASSUME NEW w \in Runs, Crash(w) PROVE TypeOK'
  <2>1. stranded' \in [Findings -> SUBSET (0..MaxRows)]
    BY <1>5 DEF Crash, Strand, TypeOK
  <2> QED
    BY <1>5, <2>1 DEF Crash, TypeOK, Step, ledgerVars, rowVars, ticketVars,
       sightVars, readVars, runVars
<1>6. ASSUME NEW w \in Runs, Detect(w) PROVE TypeOK'
  <2>1. step' \in [Runs -> Step]
    <3>1. step' = [step EXCEPT ![w] = "enqueue"] \/ step' = [step EXCEPT ![w] = "failing"]
      BY <1>6 DEF Detect, Goes
    <3> QED
      BY <3>1 DEF TypeOK, Step
  <2>2. seen' \in [Runs -> SUBSET Findings]
    BY <1>6 DEF Detect, Goes, TypeOK, ledgerVars, rowVars, ticketVars, sightVars,
       readVars, runVars
  <2>3. todo' \in [Runs -> SUBSET Findings]
    BY <1>6 DEF Detect, Goes, TypeOK, ledgerVars, rowVars, ticketVars, sightVars,
       readVars, runVars
  <2> QED
    BY <1>6, <2>1, <2>2, <2>3 DEF Detect, Goes, TypeOK, ledgerVars, rowVars,
       ticketVars, sightVars, readVars, runVars
<1>7. ASSUME NEW w \in Runs, NEW f \in Findings, Enqueue(w, f) PROVE TypeOK'
  <2>1. rows' \in [Findings -> 0..MaxRows]
    BY <1>7 DEF Enqueue, TypeOK, ledgerVars, rowVars, ticketVars, sightVars,
       readVars, runVars
  <2>2. id' \in [Runs -> [Findings -> 0..MaxRows]]
    BY <1>7 DEF Enqueue, TypeOK, ledgerVars, rowVars, ticketVars, sightVars,
       readVars, runVars
  <2>3. open' \in [Findings -> BOOLEAN]
    BY <1>7 DEF Enqueue, TypeOK, ledgerVars, rowVars, ticketVars, sightVars,
       readVars, runVars
  <2>4. todo' \in [Runs -> SUBSET Findings]
    BY <1>7 DEF Enqueue, TypeOK, ledgerVars, rowVars, ticketVars, sightVars,
       readVars, runVars
  <2> QED
    BY <1>7, <2>1, <2>2, <2>3, <2>4 DEF Enqueue, TypeOK, ledgerVars, rowVars,
       ticketVars, sightVars, readVars, runVars
<1>8. ASSUME NEW w \in Runs, EnqueueFails(w) PROVE TypeOK'
  BY <1>8 DEF EnqueueFails, TypeOK, Step, ledgerVars, rowVars, ticketVars,
     sightVars, readVars, runVars
<1>9. ASSUME NEW w \in Runs, Reconcile(w) PROVE TypeOK'
  BY <1>9 DEF Reconcile, Goes, TypeOK, Step, ledgerVars, rowVars, ticketVars,
     sightVars, readVars, runVars
<1>10. ASSUME NEW w \in Runs, ReadLedger(w) PROVE TypeOK'
  <2>1. step' \in [Runs -> Step]
    BY <1>10 DEF ReadLedger, Goes, TypeOK, Step, ledgerVars, rowVars, ticketVars,
       sightVars, readVars, runVars
  <2>2. todo' \in [Runs -> SUBSET Findings]
    BY <1>10 DEF ReadLedger, Goes, TypeOK, ledgerVars, rowVars, ticketVars,
       sightVars, readVars, runVars
  <2>3. clock' \in [Runs -> Days]
    BY <1>10 DEF ReadLedger, Goes, TypeOK, ledgerVars, rowVars, ticketVars,
       sightVars, readVars, runVars
  <2>4. read' \in [Runs -> BOOLEAN]
    BY <1>10 DEF ReadLedger, Goes, TypeOK, ledgerVars, rowVars, ticketVars,
       sightVars, readVars, runVars
  <2>5. \A g \in Enqueued(w) : id[w][g] \in RowId
    BY DEF TypeOK, Enqueued, RowId
  <2>6. was' \in [Runs -> [Findings -> Days \cup {Null}]]
    <3>1. \A g \in Enqueued(w) : at[g][id[w][g]] \in Days \cup {Null}
      BY <2>5 DEF TypeOK, Enqueued
    <3>2. [g \in Findings |-> IF g \in Enqueued(w) THEN at[g][id[w][g]] ELSE Null]
            \in [Findings -> Days \cup {Null}]
      BY <3>1
    <3> QED
      BY <1>10, <3>2 DEF ReadLedger, TypeOK
  <2>7. wasLink' \in [Runs -> [Findings -> BOOLEAN]]
    <3>1. \A g \in Enqueued(w) : link[g][id[w][g]] \in BOOLEAN
      BY <2>5 DEF TypeOK, Enqueued
    <3>2. [g \in Findings |-> g \in Enqueued(w) /\ link[g][id[w][g]]]
            \in [Findings -> BOOLEAN]
      BY <3>1
    <3> QED
      BY <1>10, <3>2 DEF ReadLedger, TypeOK
  <2>8. missed' \in [Runs -> SUBSET Findings]
    <3>1. missed' = missed \/ missed' = [missed EXCEPT ![w] = missed[w] \cup seen[w]]
      BY <1>10 DEF ReadLedger
    <3>2. missed \in [Runs -> SUBSET Findings] /\ seen[w] \in SUBSET Findings
      BY DEF TypeOK
    <3> QED
      BY <3>1, <3>2
  <2> QED
    BY <1>10, <2>1, <2>2, <2>3, <2>4, <2>5, <2>6, <2>7, <2>8 DEF ReadLedger, Goes,
       TypeOK, ledgerVars, rowVars, ticketVars, sightVars, readVars, runVars
<1>11. ASSUME NEW w \in Runs, NEW f \in Findings, PassOver(w, f) PROVE TypeOK'
  BY <1>11 DEF PassOver, TypeOK, Step, ledgerVars, rowVars, ticketVars, sightVars,
     readVars, runVars
<1>12. ASSUME NEW w \in Runs, NEW f \in Findings, Reserve(w, f) PROVE TypeOK'
  <2>1. step' \in [Runs -> Step]
    BY <1>12 DEF Reserve, Goes, TypeOK, Step
  <2>2. todo' \in [Runs -> SUBSET Findings]
    BY <1>12 DEF Reserve, Goes, TypeOK, ledgerVars, rowVars, ticketVars,
       sightVars, readVars, runVars
  <2>3. cur' \in [Runs -> Findings]
    BY <1>12 DEF Reserve, Goes, TypeOK, ledgerVars, rowVars, ticketVars,
       sightVars, readVars, runVars
  <2>4. at' \in [Findings -> [RowId -> Days \cup {Null}]]
    <3>1. at \in [Findings -> [RowId -> Days \cup {Null}]] /\ day \in Days \cup {Null}
      BY DEF TypeOK
    <3>2. [at EXCEPT ![f][id[w][f]] = day] \in [Findings -> [RowId -> Days \cup {Null}]]
      BY <3>1, Put
    <3> QED
      BY <1>12, <3>1, <3>2 DEF Reserve
  <2>5. missed' \in [Runs -> SUBSET Findings]
    <3>1. missed' = missed \/ missed' = [missed EXCEPT ![w] = missed[w] \cup {f}]
      BY <1>12 DEF Reserve
    <3>2. missed \in [Runs -> SUBSET Findings]
      BY DEF TypeOK
    <3> QED
      BY <3>1, <3>2
  <2> QED
    BY <1>12, <2>1, <2>2, <2>3, <2>4, <2>5 DEF Reserve, Goes, TypeOK, ledgerVars,
       rowVars, ticketVars, sightVars, readVars, runVars
<1>13. ASSUME NEW w \in Runs, Create(w) PROVE TypeOK'
  <2>0. cur[w] \in Findings /\ id[w] \in [Findings -> 0..MaxRows]
    BY DEF TypeOK
  <2>1. step' \in [Runs -> Step]
    <3>1. step' = [step EXCEPT ![w] = "finalize"] \/ step' = [step EXCEPT ![w] = "undo"]
      BY <1>13 DEF Create, Goes
    <3> QED
      BY <3>1 DEF TypeOK, Step
  <2>2. day \in Days /\ (id[w][cur[w]] \in RowId => tickets[cur[w]][id[w][cur[w]]] \in Seq(Days))
    BY <2>0 DEF TypeOK
  <2>3. id[w][cur[w]] \in RowId => Append(tickets[cur[w]][id[w][cur[w]]], day) \in Seq(Days)
    BY <2>2
  <2>4. tickets' \in [Findings -> [RowId -> Seq(Days)]]
    <3>1. tickets \in [Findings -> [RowId -> Seq(Days)]]
      BY DEF TypeOK
    <3>2. [tickets EXCEPT ![cur[w]][id[w][cur[w]]] =
             Append(tickets[cur[w]][id[w][cur[w]]], day)]
            \in [Findings -> [RowId -> Seq(Days)]]
      BY <2>0, <2>3, <3>1, Put
    <3> QED
      BY <1>13, <3>1, <3>2 DEF Create
  <2> QED
    BY <1>13, <2>1, <2>2, <2>3, <2>4 DEF Create, Goes, TypeOK, ledgerVars,
       rowVars, ticketVars, sightVars, readVars, runVars
<1>14. ASSUME NEW w \in Runs, Undo(w) PROVE TypeOK'
  <2>0. cur[w] \in Findings /\ id[w] \in [Findings -> 0..MaxRows]
    BY DEF TypeOK
  <2>1. step' \in [Runs -> Step]
    BY <1>14, <2>0 DEF Undo, Goes, TypeOK, Step
  <2>2. was[w][cur[w]] \in Days \cup {Null} /\ wasLink[w][cur[w]] \in BOOLEAN
    BY <2>0 DEF TypeOK
  <2>3. at' \in [Findings -> [RowId -> Days \cup {Null}]]
    <3>1. at \in [Findings -> [RowId -> Days \cup {Null}]]
      BY DEF TypeOK
    <3>2. [at EXCEPT ![cur[w]][id[w][cur[w]]] = was[w][cur[w]]]
            \in [Findings -> [RowId -> Days \cup {Null}]]
      BY <2>0, <2>2, <3>1, Put
    <3> QED
      BY <1>14, <3>1, <3>2 DEF Undo
  <2>4. link' \in [Findings -> [RowId -> BOOLEAN]]
    <3>1. link \in [Findings -> [RowId -> BOOLEAN]]
      BY DEF TypeOK
    <3>2. [link EXCEPT ![cur[w]][id[w][cur[w]]] = (was[w][cur[w]] # Null /\ wasLink[w][cur[w]])]
            \in [Findings -> [RowId -> BOOLEAN]]
      BY <2>0, <2>2, <3>1, Put
    <3> QED
      BY <1>14, <3>1, <3>2 DEF Undo
  <2>5. missed' \in [Runs -> SUBSET Findings]
    <3>1. \/ missed' = missed
          \/ missed' = [v \in Runs |-> IF read[v] /\ id[v][cur[w]] = id[w][cur[w]]
                                      THEN missed[v] \cup {cur[w]} ELSE missed[v]]
      BY <1>14 DEF Undo
    <3>2. missed \in [Runs -> SUBSET Findings]
      BY DEF TypeOK
    <3> QED
      BY <2>0, <3>1, <3>2
  <2>6. stranded' \in [Findings -> SUBSET (0..MaxRows)]
    <3>1. \/ stranded' = stranded
          \/ stranded' = [stranded EXCEPT ![cur[w]] =
                            stranded[cur[w]] \cup {id[w][cur[w]]}]
      BY <1>14 DEF Undo, Strand
    <3>2. stranded \in [Findings -> SUBSET (0..MaxRows)] /\ id[w][cur[w]] \in 0..MaxRows
      BY <2>0 DEF TypeOK
    <3> QED
      BY <2>0, <3>1, <3>2
  <2> QED
    BY <1>14, <2>1, <2>2, <2>3, <2>4, <2>5, <2>6 DEF Undo, Goes, TypeOK, ledgerVars, rowVars,
       ticketVars, sightVars, readVars, runVars
<1>15. ASSUME NEW w \in Runs, Finalize(w) PROVE TypeOK'
  <2>0. cur[w] \in Findings /\ id[w] \in [Findings -> 0..MaxRows]
    BY DEF TypeOK
  <2>1. step' \in [Runs -> Step]
    BY <1>15, <2>0 DEF Finalize, Goes, TypeOK, Step
  <2>2. at' \in [Findings -> [RowId -> Days \cup {Null}]]
    <3>1. at \in [Findings -> [RowId -> Days \cup {Null}]] /\ day \in Days
      BY DEF TypeOK
    <3>2. [at EXCEPT ![cur[w]][id[w][cur[w]]] = day]
            \in [Findings -> [RowId -> Days \cup {Null}]]
      BY <2>0, <3>1, Put
    <3> QED
      BY <1>15, <3>1, <3>2 DEF Finalize
  <2>3. link' \in [Findings -> [RowId -> BOOLEAN]]
    <3>1. link \in [Findings -> [RowId -> BOOLEAN]]
      BY DEF TypeOK
    <3>2. [link EXCEPT ![cur[w]][id[w][cur[w]]] = TRUE]
            \in [Findings -> [RowId -> BOOLEAN]]
      BY <2>0, <3>1, Put
    <3> QED
      BY <1>15, <3>1, <3>2 DEF Finalize
  <2> QED
    BY <1>15, <2>1, <2>2, <2>3 DEF Finalize, Goes, TypeOK, ledgerVars, rowVars,
       ticketVars, sightVars, readVars, runVars
<1>16. ASSUME NEW w \in Runs, Trigger(w) PROVE TypeOK'
  <2>1. hand' \in [Runs -> {"none", "sent", "unsure", "refused"}]
    BY <1>16 DEF Trigger, TypeOK, ledgerVars, rowVars, ticketVars, sightVars,
       readVars, runVars
  <2>2. asked' \in SUBSET Findings
    BY <1>16 DEF Trigger, TypeOK, ledgerVars, rowVars, ticketVars, sightVars,
       readVars, runVars
  <2>3. PICK A : A = seen[w] \cap AutoFix
    OBVIOUS
  <2>4. todo' \in [Runs -> SUBSET Findings]
    <3>1. A \in SUBSET Findings /\ todo \in [Runs -> SUBSET Findings]
      BY <2>3 DEF TypeOK
    <3>2. todo' = todo \/ todo' = [todo EXCEPT ![w] = A]
      BY <1>16, <2>3 DEF Trigger
    <3> QED
      BY <3>1, <3>2
  <2> QED
    BY <1>16, <2>1, <2>2, <2>3, <2>4 DEF Trigger, TypeOK, ledgerVars, rowVars,
       ticketVars, sightVars, readVars, runVars
<1>17. ASSUME NEW f \in Findings, RecordTickets(f) PROVE TypeOK'
  <2>1. at' \in [Findings -> [RowId -> Days \cup {Null}]]
    BY <1>17, Put DEF RecordTickets, TypeOK
  <2>2. link' \in [Findings -> [RowId -> BOOLEAN]]
    BY <1>17, Put DEF RecordTickets, TypeOK
  <2>3. rows[f] \in RowId => Append(tickets[f][rows[f]], day) \in Seq(Days)
    BY DEF TypeOK
  <2>4. tickets' \in [Findings -> [RowId -> Seq(Days)]]
    BY <1>17, <2>3, Put DEF RecordTickets, TypeOK
  <2> QED
    BY <1>17, <2>1, <2>2, <2>3, <2>4 DEF RecordTickets, TypeOK, ledgerVars,
       rowVars, ticketVars, sightVars, readVars, runVars
<1>18. ASSUME UNCHANGED vars PROVE TypeOK'
  BY <1>18 DEF vars, TypeOK, Step, ledgerVars, rowVars, ticketVars, sightVars,
     readVars, runVars
<1> QED
  BY <1>1, <1>2, <1>3, <1>4, <1>5, <1>6, <1>7, <1>8, <1>9, <1>10, <1>11, <1>12,
     <1>13, <1>14, <1>15, <1>16, <1>17, <1>18 DEF Next, RunNext

\* The tables and the processes keep their types.
THEOREM TypeCorrect == Spec => []TypeOK
  BY TypeInit, TypeStep, PTL DEF Spec

-----------------------------------------------------------------------------
(* The ledger: a date is claimed for the run that works on it *)

\* A run at work holds the row of its date.
Leased == \A w \in Runs : Working(w) =>
            status[date[w]] = "claimed" /\ owner[date[w]] = w

LEMMA LeaseInit == Init => Leased
  BY DEF Init, Leased, Working

LEMMA LeaseStep == TypeOK /\ Leased /\ [Next]_vars => Leased'
<1> SUFFICES ASSUME TypeOK, Leased, [Next]_vars PROVE Leased'
  OBVIOUS
<1>1. ASSUME Tick PROVE Leased'
  BY <1>1 DEF Tick, TypeOK, Leased, Working, ledgerVars, sightVars, runVars
<1>2. ASSUME NEW w \in Runs, Admit(w) PROVE Leased'
  <2>1. day \in Days /\ date' = [date EXCEPT ![w] = day]
    BY <1>2 DEF TypeOK, Admit
  <2>2. CASE Goes(w, "idle", "gone") /\ UNCHANGED ledgerVars
    BY <2>1, <2>2 DEF Goes, TypeOK, Leased, Working, ledgerVars
  <2>3. CASE /\ Claimable(day) /\ Goes(w, "idle", "detect")
             /\ status' = [status EXCEPT ![day] = "claimed"]
             /\ owner' = [owner EXCEPT ![day] = w]
    <3>1. \A v \in Runs : Working(v) => date[v] # day
      BY <2>3 DEF Leased, Claimable
    <3>2. \A v \in Runs : v # w => step'[v] = step[v] /\ date'[v] = date[v]
      BY <2>1, <2>3 DEF Goes, TypeOK
    <3>3. \A d \in Days : d # day => status'[d] = status[d] /\ owner'[d] = owner[d]
      BY <2>3 DEF TypeOK
    <3>4. status'[day] = "claimed" /\ owner'[day] = w /\ date'[w] = day
      BY <2>1, <2>3 DEF TypeOK
    <3>5. \A v \in Runs : date[v] \in Days
      BY DEF TypeOK
    <3> QED
      BY <2>1, <3>1, <3>2, <3>3, <3>4, <3>5 DEF Leased, Working
  <2> QED
    BY <1>2, <2>2, <2>3 DEF Admit
<1>3. ASSUME NEW w \in Runs, Fail(w) PROVE Leased'
  BY <1>3 DEF Fail, Goes, End, TypeOK, Leased, Working, sightVars
<1>4. ASSUME NEW w \in Runs, Complete(w) PROVE Leased'
  BY <1>4 DEF Complete, Goes, End, TypeOK, Leased, Working, sightVars
<1>5. ASSUME NEW w \in Runs, Crash(w) PROVE Leased'
  BY <1>5 DEF Crash, TypeOK, Leased, Working, ledgerVars, sightVars
<1>6. ASSUME NEW w \in Runs, Detect(w) PROVE Leased'
  <2>1. UNCHANGED <<status, owner, date>> /\ Working(w)
    BY <1>6 DEF Detect, Goes, Working, ledgerVars
  <2>2. \A v \in Runs : v # w => step'[v] = step[v]
    BY <1>6 DEF Detect, Goes, TypeOK
  <2> QED
    BY <2>1, <2>2 DEF Leased, Working
<1>7. ASSUME NEW w \in Runs, NEW f \in Findings, Enqueue(w, f) PROVE Leased'
  <2>1. UNCHANGED <<status, owner, date>> /\ Working(w)
    BY <1>7 DEF Enqueue, Goes, Working, ledgerVars, sightVars
  <2>2. \A v \in Runs : v # w => step'[v] = step[v]
    BY <1>7 DEF Enqueue, Goes, TypeOK
  <2> QED
    BY <2>1, <2>2 DEF Leased, Working
<1>8. ASSUME NEW w \in Runs, EnqueueFails(w) PROVE Leased'
  <2>1. UNCHANGED <<status, owner, date>> /\ Working(w)
    BY <1>8 DEF EnqueueFails, Goes, Working, ledgerVars, sightVars
  <2>2. \A v \in Runs : v # w => step'[v] = step[v]
    BY <1>8 DEF EnqueueFails, Goes, TypeOK
  <2> QED
    BY <2>1, <2>2 DEF Leased, Working
<1>9. ASSUME NEW w \in Runs, Reconcile(w) PROVE Leased'
  <2>1. UNCHANGED <<status, owner, date>> /\ Working(w)
    BY <1>9 DEF Reconcile, Goes, Working, ledgerVars, sightVars
  <2>2. \A v \in Runs : v # w => step'[v] = step[v]
    BY <1>9 DEF Reconcile, Goes, TypeOK
  <2> QED
    BY <2>1, <2>2 DEF Leased, Working
<1>10. ASSUME NEW w \in Runs, ReadLedger(w) PROVE Leased'
  <2>1. UNCHANGED <<status, owner, date>> /\ Working(w)
    BY <1>10 DEF ReadLedger, Goes, Working, ledgerVars, sightVars
  <2>2. \A v \in Runs : v # w => step'[v] = step[v]
    BY <1>10 DEF ReadLedger, Goes, TypeOK
  <2> QED
    BY <2>1, <2>2 DEF Leased, Working
<1>11. ASSUME NEW w \in Runs, NEW f \in Findings, PassOver(w, f) PROVE Leased'
  <2>1. UNCHANGED <<status, owner, date>> /\ Working(w)
    BY <1>11 DEF PassOver, Goes, Working, ledgerVars, sightVars
  <2>2. \A v \in Runs : v # w => step'[v] = step[v]
    BY <1>11 DEF PassOver, Goes, TypeOK
  <2> QED
    BY <2>1, <2>2 DEF Leased, Working
<1>12. ASSUME NEW w \in Runs, NEW f \in Findings, Reserve(w, f) PROVE Leased'
  <2>1. UNCHANGED <<status, owner, date>> /\ Working(w)
    BY <1>12 DEF Reserve, Goes, Working, ledgerVars, sightVars
  <2>2. \A v \in Runs : v # w => step'[v] = step[v]
    BY <1>12 DEF Reserve, Goes, TypeOK
  <2> QED
    BY <2>1, <2>2 DEF Leased, Working
<1>13. ASSUME NEW w \in Runs, Create(w) PROVE Leased'
  <2>1. UNCHANGED <<status, owner, date>> /\ Working(w)
    BY <1>13 DEF Create, Goes, Working, ledgerVars, sightVars
  <2>2. \A v \in Runs : v # w => step'[v] = step[v]
    BY <1>13 DEF Create, Goes, TypeOK
  <2> QED
    BY <2>1, <2>2 DEF Leased, Working
<1>14. ASSUME NEW w \in Runs, Undo(w) PROVE Leased'
  <2>1. UNCHANGED <<status, owner, date>> /\ Working(w)
    BY <1>14 DEF Undo, Goes, Working, ledgerVars, sightVars
  <2>2. \A v \in Runs : v # w => step'[v] = step[v]
    BY <1>14 DEF Undo, Goes, TypeOK
  <2> QED
    BY <2>1, <2>2 DEF Leased, Working
<1>15. ASSUME NEW w \in Runs, Finalize(w) PROVE Leased'
  <2>1. UNCHANGED <<status, owner, date>> /\ Working(w)
    BY <1>15 DEF Finalize, Goes, Working, ledgerVars, sightVars
  <2>2. \A v \in Runs : v # w => step'[v] = step[v]
    BY <1>15 DEF Finalize, Goes, TypeOK
  <2> QED
    BY <2>1, <2>2 DEF Leased, Working
<1>16. ASSUME NEW w \in Runs, Trigger(w) PROVE Leased'
  <2>1. UNCHANGED <<status, owner, date>> /\ Working(w)
    BY <1>16 DEF Trigger, Goes, Working, ledgerVars, sightVars
  <2>2. \A v \in Runs : v # w => step'[v] = step[v]
    BY <1>16 DEF Trigger, Goes, TypeOK
  <2> QED
    BY <2>1, <2>2 DEF Leased, Working
<1>17. ASSUME NEW f \in Findings, RecordTickets(f) PROVE Leased'
  BY <1>17 DEF RecordTickets, TypeOK, Leased, Working, ledgerVars, sightVars,
     runVars
<1>18. ASSUME UNCHANGED vars PROVE Leased'
  BY <1>18 DEF vars, Leased, Working, ledgerVars, sightVars, runVars
<1> QED
  BY <1>1, <1>2, <1>3, <1>4, <1>5, <1>6, <1>7, <1>8, <1>9, <1>10, <1>11, <1>12,
     <1>13, <1>14, <1>15, <1>16, <1>17, <1>18 DEF Next, RunNext

LEMMA LeaseMeans == TypeOK /\ Leased => OneRunPerDay
  BY DEF Leased, OneRunPerDay

\* Starts of the process that meet on a date: at most one of them works on it,
\* whether the others are refused, replayed or take it over after a failure.
THEOREM OneRun == Spec => []OneRunPerDay
  BY TypeInit, LeaseInit, TypeStep, LeaseStep, LeaseMeans, PTL DEF Spec

-----------------------------------------------------------------------------
(* Reservations: the update that is conditional on the ticketed_at that was *)
(* read keeps a second run off the row, and tells a later one of the ticket *)

Upto(s, d) == \A k \in 1..Len(s) : s[k] <= d

Spaced(s) == \A k \in 1..(Len(s) - 1) : s[k + 1] - s[k] > FollowUp

\* ticketed_at is set whenever there is a ticket, and is no earlier.
Row(f, i) ==
  /\ at[f][i] <= day
  /\ at[f][i] = Null => ~link[f][i] /\ tickets[f][i] = <<>>
  /\ Upto(tickets[f][i], at[f][i])
  /\ Spaced(tickets[f][i])

\* The row that is reserved, and what the ticket before it was.
Held(w) == step[w] \in Holding =>
  LET f == cur[w]  r == id[w][f] IN
    /\ r \in RowId
    /\ at[f][r] = day
    /\ step[w] # "finalize" =>
         /\ Upto(tickets[f][r], was[w][f])
         /\ IF was[w][f] = Null THEN tickets[f][r] = <<>> /\ ~link[f][r]
            ELSE wasLink[w][f] /\ day - was[w][f] > FollowUp

\* One run holds a reservation.
Alone == \A v, w \in Runs :
  /\ step[v] \in Holding /\ step[w] \in Holding
  /\ cur[v] = cur[w] /\ id[v][cur[v]] = id[w][cur[w]]
  => v = w

Rows == \A f \in Findings, i \in RowId : Row(f, i)
Holds == \A w \in Runs : Held(w) /\ clock[w] <= day
Reserved == Rows /\ Holds /\ Alone

LEMMA UptoMono ==
  ASSUME NEW s \in Seq(Days), NEW b \in Int, NEW d \in Int, Upto(s, b), b <= d
  PROVE  Upto(s, d)
<1>1. \A k \in 1..Len(s) : s[k] \in Days
  OBVIOUS
<1>2. \A k \in 1..Len(s) : s[k] \in Int
  BY <1>1, Numbers DEF Days
<1> QED
  BY <1>2 DEF Upto

\* A ticket that comes late enough after the earlier ones
LEMMA SpacedAppend ==
  ASSUME NEW s \in Seq(Days), NEW d \in Days, NEW b \in Days \cup {Null},
         Upto(s, b), Spaced(s), s = <<>> \/ d - b > FollowUp
  PROVE  Spaced(Append(s, d)) /\ Upto(Append(s, d), d)
<1>1. /\ Len(Append(s, d)) = Len(s) + 1
      /\ \A k \in 1..Len(s) : Append(s, d)[k] = s[k] /\ s[k] \in Nat
      /\ Append(s, d)[Len(s) + 1] = d
      /\ Len(s) \in Nat /\ d \in Nat /\ b \in Int /\ FollowUp \in Nat
  <2>1. \A k \in 1..Len(s) : s[k] \in Days
    OBVIOUS
  <2>2. (\A k \in 1..Len(s) : s[k] \in Nat) /\ d \in Nat /\ b \in Int
    BY <2>1, Numbers DEF Null, Days
  <2> QED
    BY <2>2, Numbers
<1>2. \A k \in 1..Len(s) : d - s[k] > FollowUp
  <2> SUFFICES ASSUME NEW k \in 1..Len(s) PROVE d - s[k] > FollowUp
    OBVIOUS
  <2>1. s # <<>>
    BY <1>1
  <2> QED
    BY <1>1, <2>1 DEF Upto
<1>3. Spaced(Append(s, d))
  <2> SUFFICES ASSUME NEW k \in 1..Len(s)
               PROVE  Append(s, d)[k + 1] - Append(s, d)[k] > FollowUp
    BY <1>1 DEF Spaced
  <2>1. CASE k = Len(s)
    BY <1>1, <1>2, <2>1
  <2>2. CASE k # Len(s)
    <3>1. k \in 1..(Len(s) - 1) /\ k + 1 \in 1..Len(s)
      BY <1>1, <2>2
    <3> QED
      BY <1>1, <3>1 DEF Spaced
  <2> QED
    BY <2>1, <2>2
<1>4. Upto(Append(s, d), d)
  BY <1>1, <1>2 DEF Upto
<1> QED
  BY <1>3, <1>4

LEMMA RowKept ==
  ASSUME NEW g \in Findings, NEW i \in RowId, Row(g, i), at[g][i] <= day',
         at'[g][i] = at[g][i] /\ link'[g][i] = link[g][i] /\ tickets'[g][i] = tickets[g][i]
  PROVE  Row(g, i)'
  BY DEF Row, Upto, Spaced

LEMMA RowMade ==
  ASSUME NEW g \in Findings, NEW i \in RowId, at'[g][i] = day', day' \in Nat,
         Upto(tickets'[g][i], day'), Spaced(tickets'[g][i])
  PROVE  Row(g, i)'
  BY DEF Row, Null, Upto, Spaced

\* What run v holds is as it was.
Same(v) ==
  /\ step'[v] = step[v] /\ cur'[v] = cur[v] /\ id'[v] = id[v]
  /\ was'[v] = was[v] /\ wasLink'[v] = wasLink[v] /\ clock'[v] = clock[v]

\* A step of run w that writes at most the row r of f, which is its own
LEMMA Frame ==
  ASSUME TypeOK, Reserved, UNCHANGED day,
         NEW w \in Runs, NEW f \in Findings, NEW r,
         \A g \in Findings, i \in RowId : (g # f \/ i # r) =>
            at'[g][i] = at[g][i] /\ link'[g][i] = link[g][i] /\ tickets'[g][i] = tickets[g][i],
         r \in RowId => Row(f, r)',
         \A v \in Runs \ {w} : Same(v),
         \A v \in Runs \ {w} : step[v] \in Holding => ~(cur[v] = f /\ id[v][f] = r),
         Held(w)', clock'[w] <= day,
         step'[w] \in Holding => cur'[w] = f /\ id'[w][f] = r
  PROVE  Reserved'
<1>1. Rows'
  <2> SUFFICES ASSUME NEW g \in Findings, NEW i \in RowId PROVE Row(g, i)'
    BY DEF Rows
  <2>1. CASE g = f /\ i = r
    BY <2>1
  <2>2. CASE g # f \/ i # r
    <3>1. Row(g, i) /\ at[g][i] <= day'
      BY DEF Reserved, Rows, Row
    <3> QED
      BY <2>2, <3>1, RowKept
  <2> QED
    BY <2>1, <2>2
<1>2. Holds'
  <2> SUFFICES ASSUME NEW v \in Runs \ {w} PROVE Held(v)' /\ clock'[v] <= day'
    BY DEF Holds
  <2>1. Held(v) /\ clock[v] <= day /\ cur[v] \in Findings /\ Same(v)
    BY DEF Reserved, Holds, TypeOK
  <2>2. PICK g, i : g = cur[v] /\ i = id[v][g]
    OBVIOUS
  <2>3. CASE step[v] \in Holding
    <3>1. i \in RowId /\ (g # f \/ i # r)
      BY <2>1, <2>2, <2>3 DEF Held
    <3>2. at'[g][i] = at[g][i] /\ link'[g][i] = link[g][i] /\ tickets'[g][i] = tickets[g][i]
      BY <2>1, <2>2, <3>1
    <3>3. /\ step'[v] = step[v] /\ cur'[v] = g /\ id'[v] = id[v]
          /\ was'[v] = was[v] /\ wasLink'[v] = wasLink[v] /\ day' = day
      BY <2>1, <2>2 DEF Same
    <3>4. /\ at[g][i] = day
          /\ step[v] # "finalize" =>
               /\ Upto(tickets[g][i], was[v][g])
               /\ IF was[v][g] = Null THEN tickets[g][i] = <<>> /\ ~link[g][i]
                  ELSE wasLink[v][g] /\ day - was[v][g] > FollowUp
      BY <2>1, <2>2, <2>3 DEF Held
    <3>5. i = id'[v][cur'[v]]
      BY <2>2, <3>3
    <3>6. Upto(tickets'[g][i], was'[v][g]) <=> Upto(tickets[g][i], was[v][g])
      BY <3>2, <3>3
    <3> QED
      BY <3>1, <3>2, <3>3, <3>4, <3>5, <3>6, <2>1 DEF Held, Same
  <2> QED
    BY <2>1, <2>3 DEF Held, Same
<1>3. Alone'
  BY DEF Reserved, Alone, Same
<1> QED
  BY <1>1, <1>2, <1>3 DEF Reserved

\* A step of run w that writes no row and leaves it without a reservation
LEMMA Quiet ==
  ASSUME TypeOK, Reserved, UNCHANGED <<day, at, link, tickets>>,
         NEW w \in Runs, step'[w] \notin Holding, clock'[w] <= day,
         \A v \in Runs \ {w} : Same(v)
  PROVE  Reserved'
<1>1. Rows'
  BY DEF Reserved, Rows, Row, Upto, Spaced
<1>2. Holds'
  <2> SUFFICES ASSUME NEW v \in Runs PROVE Held(v)' /\ clock'[v] <= day'
    BY DEF Holds
  <2>1. CASE v = w
    BY <2>1 DEF Held
  <2>2. CASE v # w
    <3>1. Held(v) /\ clock[v] <= day /\ Same(v)
      BY <2>2 DEF Reserved, Holds
    <3> QED
      BY <3>1 DEF Held, Same, Upto
  <2> QED
    BY <2>1, <2>2
<1>3. Alone'
  BY DEF Reserved, Alone, Same
<1> QED
  BY <1>1, <1>2, <1>3 DEF Reserved

LEMMA ReserveInit == Init => Reserved
<1> SUFFICES ASSUME Init PROVE Reserved
  OBVIOUS
<1>1. Rows
  BY Numbers DEF Init, Rows, Row, Upto, Spaced, Null
<1>2. Holds /\ Alone
  BY DEF Init, Holds, Held, Alone, Holding
<1> QED
  BY <1>1, <1>2 DEF Reserved

LEMMA ReserveStep == TypeOK /\ Reserved /\ [Next]_vars => Reserved'
<1> SUFFICES ASSUME TypeOK, Reserved, [Next]_vars PROVE Reserved'
  OBVIOUS
<1>1. ASSUME Tick PROVE Reserved'
  <2>1. /\ UNCHANGED <<at, link, tickets, step, clock>>
        /\ day' = day + 1
        /\ \A w \in Runs : step[w] \notin Holding
    BY <1>1 DEF Tick, ticketVars, runVars, readVars
  <2>0. /\ day \in Days /\ \A w \in Runs : clock[w] \in Days
        /\ \A f \in Findings, i \in RowId : at[f][i] \in Days \cup {Null}
    BY DEF TypeOK
  <2>2. day \in Int /\ \A w \in Runs : clock[w] \in Int
    BY <2>0, Numbers DEF Days
  <2>3. \A f \in Findings, i \in RowId : at[f][i] \in Int
    BY <2>0, Numbers DEF Null, Days
  <2>4. Rows'
    <3> SUFFICES ASSUME NEW f \in Findings, NEW i \in RowId PROVE Row(f, i)'
      BY DEF Rows
    <3>1. Row(f, i) /\ at[f][i] <= day
      BY DEF Reserved, Rows, Row
    <3>2. at[f][i] <= day'
      BY <2>1, <2>2, <2>3, <3>1
    <3> QED
      BY <2>1, <3>1, <3>2, RowKept
  <2>5. Holds'
    BY <2>1, <2>2 DEF Reserved, Holds, Held
  <2>6. Alone'
    BY <2>1 DEF Alone
  <2> QED
    BY <2>4, <2>5, <2>6 DEF Reserved
<1>2. ASSUME NEW w \in Runs, Admit(w) PROVE Reserved'
  <2>1. UNCHANGED <<day, at, link, tickets, cur>> /\ step'[w] \notin Holding
    BY <1>2 DEF Admit, Goes, ticketVars, TypeOK, Holding
  <2>2. \A v \in Runs \ {w} : Same(v)
    BY <1>2 DEF Admit, Goes, Same, readVars, TypeOK
  <2>3. clock'[w] <= day
    BY <1>2, Numbers DEF Admit, readVars, TypeOK, Reserved, Holds
  <2> QED
    BY <2>1, <2>2, <2>3, Quiet
<1>3. ASSUME NEW w \in Runs, Fail(w) PROVE Reserved'
  <2>1. UNCHANGED <<day, at, link, tickets, cur>> /\ step'[w] \notin Holding
    BY <1>3 DEF Fail, Goes, ticketVars, TypeOK, Holding
  <2>2. \A v \in Runs \ {w} : Same(v)
    BY <1>3 DEF Fail, Goes, Same, readVars, TypeOK
  <2>3. clock'[w] <= day
    BY <1>3, Numbers DEF Fail, readVars, TypeOK, Reserved, Holds
  <2> QED
    BY <2>1, <2>2, <2>3, Quiet
<1>4. ASSUME NEW w \in Runs, Complete(w) PROVE Reserved'
  <2>1. UNCHANGED <<day, at, link, tickets, cur>> /\ step'[w] \notin Holding
    BY <1>4 DEF Complete, Goes, ticketVars, TypeOK, Holding
  <2>2. \A v \in Runs \ {w} : Same(v)
    BY <1>4 DEF Complete, Goes, Same, readVars, TypeOK
  <2>3. clock'[w] <= day
    BY <1>4, Numbers DEF Complete, readVars, TypeOK, Reserved, Holds
  <2> QED
    BY <2>1, <2>2, <2>3, Quiet
<1>5. ASSUME NEW w \in Runs, Crash(w) PROVE Reserved'
  <2>1. UNCHANGED <<day, at, link, tickets, cur>> /\ step'[w] \notin Holding
    BY <1>5 DEF Crash, ticketVars, TypeOK, Holding
  <2>2. \A v \in Runs \ {w} : Same(v)
    BY <1>5 DEF Crash, Same, readVars, TypeOK
  <2>3. clock'[w] <= day
    BY <1>5, Numbers DEF Crash, readVars, TypeOK, Reserved, Holds
  <2> QED
    BY <2>1, <2>2, <2>3, Quiet
<1>6. ASSUME NEW w \in Runs, Detect(w) PROVE Reserved'
  <2>1. UNCHANGED <<day, at, link, tickets, cur>> /\ step'[w] \notin Holding
    BY <1>6 DEF Detect, Goes, ticketVars, TypeOK, Holding
  <2>2. \A v \in Runs \ {w} : Same(v)
    BY <1>6 DEF Detect, Goes, Same, readVars, TypeOK
  <2>3. clock'[w] <= day
    BY <1>6, Numbers DEF Detect, readVars, TypeOK, Reserved, Holds
  <2> QED
    BY <2>1, <2>2, <2>3, Quiet
<1>7. ASSUME NEW w \in Runs, NEW f \in Findings, Enqueue(w, f) PROVE Reserved'
  <2>1. UNCHANGED <<day, at, link, tickets, cur>> /\ step'[w] \notin Holding
    BY <1>7 DEF Enqueue, ticketVars, TypeOK, Holding
  <2>2. \A v \in Runs \ {w} : Same(v)
    BY <1>7 DEF Enqueue, Same, readVars, TypeOK
  <2>3. clock'[w] <= day
    BY <1>7, Numbers DEF Enqueue, readVars, TypeOK, Reserved, Holds
  <2> QED
    BY <2>1, <2>2, <2>3, Quiet
<1>8. ASSUME NEW w \in Runs, EnqueueFails(w) PROVE Reserved'
  <2>1. UNCHANGED <<day, at, link, tickets, cur>> /\ step'[w] \notin Holding
    BY <1>8 DEF EnqueueFails, ticketVars, TypeOK, Holding
  <2>2. \A v \in Runs \ {w} : Same(v)
    BY <1>8 DEF EnqueueFails, Same, readVars, TypeOK
  <2>3. clock'[w] <= day
    BY <1>8, Numbers DEF EnqueueFails, readVars, TypeOK, Reserved, Holds
  <2> QED
    BY <2>1, <2>2, <2>3, Quiet
<1>9. ASSUME NEW w \in Runs, Reconcile(w) PROVE Reserved'
  <2>1. UNCHANGED <<day, at, link, tickets, cur>> /\ step'[w] \notin Holding
    BY <1>9 DEF Reconcile, Goes, ticketVars, TypeOK, Holding
  <2>2. \A v \in Runs \ {w} : Same(v)
    BY <1>9 DEF Reconcile, Goes, Same, readVars, TypeOK
  <2>3. clock'[w] <= day
    BY <1>9, Numbers DEF Reconcile, readVars, TypeOK, Reserved, Holds
  <2> QED
    BY <2>1, <2>2, <2>3, Quiet
<1>10. ASSUME NEW w \in Runs, ReadLedger(w) PROVE Reserved'
  <2>1. UNCHANGED <<day, at, link, tickets, cur>> /\ step'[w] \notin Holding
    BY <1>10 DEF ReadLedger, Goes, ticketVars, TypeOK, Holding
  <2>2. \A v \in Runs \ {w} : Same(v)
    BY <1>10 DEF ReadLedger, Goes, Same, TypeOK
  <2>3. clock'[w] <= day
    BY <1>10, Numbers DEF ReadLedger, TypeOK, Reserved, Holds
  <2> QED
    BY <2>1, <2>2, <2>3, Quiet
<1>11. ASSUME NEW w \in Runs, NEW f \in Findings, PassOver(w, f) PROVE Reserved'
  <2>1. UNCHANGED <<day, at, link, tickets, cur>> /\ step'[w] \notin Holding
    BY <1>11 DEF PassOver, ticketVars, TypeOK, Holding
  <2>2. \A v \in Runs \ {w} : Same(v)
    BY <1>11 DEF PassOver, Same, readVars, TypeOK
  <2>3. clock'[w] <= day
    BY <1>11, Numbers DEF PassOver, readVars, TypeOK, Reserved, Holds
  <2> QED
    BY <2>1, <2>2, <2>3, Quiet
<1>12. ASSUME NEW w \in Runs, NEW f \in Findings, Reserve(w, f) PROVE Reserved'
  <2>0. /\ UNCHANGED <<day, link, tickets, id, was, wasLink, clock>>
        /\ cur' = [cur EXCEPT ![w] = f]
    BY <1>12 DEF Reserve, readVars
  <2>1. CASE Goes(w, "file", "file") /\ UNCHANGED at
    <3>1. step'[w] \notin Holding /\ \A v \in Runs \ {w} : Same(v)
      BY <2>0, <2>1 DEF Goes, Same, TypeOK, Holding
    <3> QED
      BY <2>0, <2>1, <3>1, Quiet DEF Reserved, Holds
  <2>2. CASE /\ at[f][id[w][f]] = was[w][f]
             /\ Goes(w, "file", "create")
             /\ at' = [at EXCEPT ![f][id[w][f]] = day]
    <3> DEFINE r == id[w][f]
    <3>1. r \in RowId /\ Eligible(w, f)
      BY <1>12 DEF Reserve, CanFile, Enqueued, TypeOK, RowId
    <3>2. /\ step[w] = "file" /\ step' = [step EXCEPT ![w] = "create"]
      BY <2>2 DEF Goes
    <3>3. /\ at'[f][r] = day
          /\ \A g \in Findings, i \in RowId : (g # f \/ i # r) => at'[g][i] = at[g][i]
      BY <2>2, <3>1 DEF TypeOK
    <3>4. day \in Nat /\ clock[w] \in Nat /\ was[w][f] \in Int /\ clock[w] <= day
      <4>1. day \in Days /\ clock[w] \in Days /\ was[w][f] \in Days \cup {Null}
        BY DEF TypeOK
      <4>2. clock[w] <= day
        BY DEF Reserved, Holds
      <4> QED
        BY <4>1, <4>2, Numbers DEF Null, Days
    <3>5. Row(f, r)
      BY <3>1 DEF Reserved, Rows
    <3>6. tickets[f][r] \in Seq(Days)
      BY <3>1 DEF TypeOK
    <3>7. Upto(tickets[f][r], day)
      BY <2>2, <3>4, <3>5, <3>6, UptoMono DEF Row
    <3>8. Row(f, r)'
      <4>1. Spaced(tickets[f][r])
        BY <3>5 DEF Row
      <4> QED
        BY <2>0, <3>1, <3>3, <3>4, <3>7, <4>1, RowMade
    <3>9. was[w][f] # day
      BY <3>1, <3>4, Numbers DEF Eligible, Null
    <3>10. \A v \in Runs \ {w} : step[v] \in Holding => ~(cur[v] = f /\ id[v][f] = r)
      BY <2>2, <3>9 DEF Reserved, Holds, Held
    <3>11. \A v \in Runs \ {w} : Same(v)
      BY <2>0, <3>2 DEF Same, TypeOK
    <3>12. cur'[w] = f /\ id'[w] = id[w]
      BY <2>0 DEF TypeOK
    <3>13. IF was[w][f] = Null THEN tickets[f][r] = <<>> /\ ~link[f][r]
           ELSE wasLink[w][f] /\ day - was[w][f] > FollowUp
      BY <2>2, <3>1, <3>4, <3>5, Numbers DEF Eligible, Row
    <3>14. Held(w)'
      BY <2>0, <2>2, <3>1, <3>3, <3>5, <3>12, <3>13 DEF Held, Row, Upto
    <3> HIDE DEF r
    <3> QED
      BY <2>0, <3>3, <3>8, <3>10, <3>11, <3>12, <3>14, Frame DEF Reserved, Holds,
         r
  <2> QED
    BY <1>12, <2>1, <2>2 DEF Reserve
<1>13. ASSUME NEW w \in Runs, Create(w) PROVE Reserved'
  <2> DEFINE f == cur[w]
             r == id[w][f]
  <2>0. /\ UNCHANGED <<day, id, was, wasLink, clock, cur>>
        /\ step[w] = "create"
    BY <1>13 DEF Create, readVars, Goes
  <2>1. f \in Findings /\ r \in RowId /\ at[f][r] = day /\ Held(w)
    BY <2>0 DEF TypeOK, Reserved, Holds, Held, Holding
  <2>2. \A v \in Runs \ {w} : step[v] \in Holding => ~(cur[v] = f /\ id[v][f] = r)
    BY <2>0 DEF Reserved, Alone, Holding
  <2>3. \A v \in Runs \ {w} : Same(v)
    BY <1>13, <2>0 DEF Create, Goes, Same, TypeOK
  <2>4. /\ day \in Days /\ day \in Nat /\ was[w][f] \in Days \cup {Null}
        /\ was[w][f] \in Int /\ tickets[f][r] \in Seq(Days) /\ Row(f, r)
    <3>1. day \in Days /\ was[w][f] \in Days \cup {Null} /\ tickets[f][r] \in Seq(Days)
      BY <2>1 DEF TypeOK
    <3>2. Row(f, r)
      BY <2>1 DEF Reserved, Rows
    <3> QED
      BY <3>1, <3>2, Numbers DEF Null, Days
  <2>5. /\ Upto(tickets[f][r], was[w][f])
        /\ IF was[w][f] = Null THEN tickets[f][r] = <<>> /\ ~link[f][r]
           ELSE wasLink[w][f] /\ day - was[w][f] > FollowUp
    BY <2>0, <2>1 DEF Held, Holding
  <2>6. CASE /\ Goes(w, "create", "finalize")
             /\ tickets' = [tickets EXCEPT ![f][r] = Append(@, day)]
    <3>1. UNCHANGED <<at, link>> /\ step'[w] = "finalize"
      BY <1>13, <2>6 DEF Create, Goes, TypeOK
    <3>2. /\ tickets'[f][r] = Append(tickets[f][r], day)
          /\ \A g \in Findings, i \in RowId :
               (g # f \/ i # r) => tickets'[g][i] = tickets[g][i]
      BY <2>1, <2>6 DEF TypeOK
    <3>3. Spaced(tickets'[f][r]) /\ Upto(tickets'[f][r], day)
      BY <2>4, <2>5, <3>2, SpacedAppend DEF Row
    <3>4. Row(f, r)'
      BY <2>0, <2>1, <2>4, <3>1, <3>3 DEF Row, Null, Upto, Spaced
    <3>5. Held(w)'
      BY <2>0, <2>1, <3>1 DEF Held
    <3>6. clock'[w] <= day /\ cur'[w] = f /\ id'[w][f] = r
      BY <2>0 DEF Reserved, Holds
    <3>7. /\ UNCHANGED day
          /\ \A g \in Findings, i \in RowId : (g # f \/ i # r) =>
               at'[g][i] = at[g][i] /\ link'[g][i] = link[g][i] /\ tickets'[g][i] = tickets[g][i]
      BY <2>0, <3>1, <3>2
    <3>8. PICK g, i : g = f /\ i = r
      OBVIOUS
    <3>9. Row(g, i)' /\ cur'[w] = g /\ id'[w][g] = i
      BY <2>0, <3>4, <3>6, <3>8 DEF Row
    <3>10. /\ g \in Findings
           /\ \A v \in Runs \ {w} : step[v] \in Holding => ~(cur[v] = g /\ id[v][g] = i)
           /\ \A h \in Findings, k \in RowId : (h # g \/ k # i) =>
                at'[h][k] = at[h][k] /\ link'[h][k] = link[h][k] /\ tickets'[h][k] = tickets[h][k]
      BY <2>1, <2>2, <3>7, <3>8
    <3> HIDE DEF f, r
    <3> QED
      BY <2>3, <3>5, <3>6, <3>7, <3>9, <3>10, Frame
  <2>7. CASE Goes(w, "create", "undo") /\ UNCHANGED tickets
    <3>1. UNCHANGED <<at, link, tickets>> /\ step'[w] = "undo"
      BY <1>13, <2>7 DEF Create, Goes, TypeOK
    <3>2. Row(f, r)'
      BY <2>0, <2>4, <3>1 DEF Row, Upto, Spaced
    <3>3. Held(w)'
      BY <2>0, <2>1, <2>5, <3>1 DEF Held, Upto
    <3> HIDE DEF f, r
    <3> QED
      BY <2>0, <2>1, <2>2, <2>3, <3>1, <3>2, <3>3, Frame DEF Reserved, Holds, f, r
  <2> QED
    BY <1>13, <2>6, <2>7 DEF Create
<1>14. ASSUME NEW w \in Runs, Undo(w) PROVE Reserved'
  <2> DEFINE f == cur[w]
             r == id[w][f]
  <2>0. /\ UNCHANGED <<day, id, was, wasLink, clock, cur>>
        /\ step[w] = "undo"
    BY <1>14 DEF Undo, readVars, Goes
  <2>1. f \in Findings /\ r \in RowId /\ at[f][r] = day /\ Held(w)
    BY <2>0 DEF TypeOK, Reserved, Holds, Held, Holding
  <2>2. \A v \in Runs \ {w} : step[v] \in Holding => ~(cur[v] = f /\ id[v][f] = r)
    BY <2>0 DEF Reserved, Alone, Holding
  <2>3. \A v \in Runs \ {w} : Same(v)
    BY <1>14, <2>0 DEF Undo, Goes, Same, TypeOK
  <2>4. /\ day \in Days /\ day \in Nat /\ was[w][f] \in Days \cup {Null}
        /\ was[w][f] \in Int /\ tickets[f][r] \in Seq(Days) /\ Row(f, r)
    <3>1. day \in Days /\ was[w][f] \in Days \cup {Null} /\ tickets[f][r] \in Seq(Days)
      BY <2>1 DEF TypeOK
    <3>2. Row(f, r)
      BY <2>1 DEF Reserved, Rows
    <3> QED
      BY <3>1, <3>2, Numbers DEF Null, Days
  <2>5. /\ Upto(tickets[f][r], was[w][f])
        /\ IF was[w][f] = Null THEN tickets[f][r] = <<>> /\ ~link[f][r]
           ELSE wasLink[w][f] /\ day - was[w][f] > FollowUp
    BY <2>0, <2>1 DEF Held, Holding
  <2>6. UNCHANGED tickets /\ step'[w] = "file" /\ step'[w] \notin Holding
    BY <1>14 DEF Undo, Goes, TypeOK, Holding
  <2>7. CASE UNCHANGED <<at, link>>
    BY <2>0, <2>3, <2>6, <2>7, Quiet DEF Reserved, Holds
  <2>8. CASE /\ at' = [at EXCEPT ![f][r] = was[w][f]]
             /\ link' = [link EXCEPT ![f][r] = was[w][f] # Null /\ wasLink[w][f]]
    <3>1. /\ at'[f][r] = was[w][f] /\ link'[f][r] = (was[w][f] # Null /\ wasLink[w][f])
          /\ \A g \in Findings, i \in RowId : (g # f \/ i # r) =>
               at'[g][i] = at[g][i] /\ link'[g][i] = link[g][i]
      BY <2>1, <2>8 DEF TypeOK
    <3>2. was[w][f] <= day
      BY <2>4, <2>5, Numbers DEF Null
    <3>3. Row(f, r)'
      BY <2>0, <2>4, <2>5, <2>6, <3>1, <3>2 DEF Row, Upto, Spaced
    <3>4. Held(w)'
      BY <2>6 DEF Held
    <3> HIDE DEF f, r
    <3> QED
      BY <2>0, <2>1, <2>2, <2>3, <2>6, <3>1, <3>3, <3>4, Frame DEF Reserved,
         Holds, f, r
  <2> QED
    BY <1>14, <2>7, <2>8 DEF Undo
<1>15. ASSUME NEW w \in Runs, Finalize(w) PROVE Reserved'
  <2> DEFINE f == cur[w]
             r == id[w][f]
  <2>0. /\ UNCHANGED <<day, id, was, wasLink, clock, cur>>
        /\ step[w] = "finalize"
    BY <1>15 DEF Finalize, readVars, Goes
  <2>1. f \in Findings /\ r \in RowId /\ at[f][r] = day /\ Held(w)
    BY <2>0 DEF TypeOK, Reserved, Holds, Held, Holding
  <2>2. \A v \in Runs \ {w} : step[v] \in Holding => ~(cur[v] = f /\ id[v][f] = r)
    BY <2>0 DEF Reserved, Alone, Holding
  <2>3. \A v \in Runs \ {w} : Same(v)
    BY <1>15, <2>0 DEF Finalize, Goes, Same, TypeOK
  <2>4. /\ day \in Days /\ day \in Nat /\ was[w][f] \in Days \cup {Null}
        /\ was[w][f] \in Int /\ tickets[f][r] \in Seq(Days) /\ Row(f, r)
    <3>1. day \in Days /\ was[w][f] \in Days \cup {Null} /\ tickets[f][r] \in Seq(Days)
      BY <2>1 DEF TypeOK
    <3>2. Row(f, r)
      BY <2>1 DEF Reserved, Rows
    <3> QED
      BY <3>1, <3>2, Numbers DEF Null, Days
  <2>6. UNCHANGED tickets /\ step'[w] = "file" /\ step'[w] \notin Holding
    BY <1>15 DEF Finalize, Goes, TypeOK, Holding
  <2>7. CASE UNCHANGED <<at, link>>
    BY <2>0, <2>3, <2>6, <2>7, Quiet DEF Reserved, Holds
  <2>8. CASE /\ at' = [at EXCEPT ![f][r] = day]
             /\ link' = [link EXCEPT ![f][r] = TRUE]
    <3>1. /\ at'[f][r] = day
          /\ \A g \in Findings, i \in RowId : (g # f \/ i # r) =>
               at'[g][i] = at[g][i] /\ link'[g][i] = link[g][i]
      BY <2>1, <2>8 DEF TypeOK
    <3>2. Row(f, r)'
      BY <2>0, <2>1, <2>4, <2>6, <3>1 DEF Row, Upto, Spaced, Null
    <3>3. Held(w)'
      BY <2>6 DEF Held
    <3> HIDE DEF f, r
    <3> QED
      BY <2>0, <2>1, <2>2, <2>3, <2>6, <3>1, <3>2, <3>3, Frame DEF Reserved,
         Holds, f, r
  <2> QED
    BY <1>15, <2>7, <2>8 DEF Finalize
<1>16. ASSUME NEW w \in Runs, Trigger(w) PROVE Reserved'
  <2>1. UNCHANGED <<day, at, link, tickets, cur>> /\ step'[w] \notin Holding
    BY <1>16 DEF Trigger, ticketVars, TypeOK, Holding
  <2>2. \A v \in Runs \ {w} : Same(v)
    BY <1>16 DEF Trigger, Same, readVars, TypeOK
  <2>3. clock'[w] <= day
    BY <1>16, Numbers DEF Trigger, readVars, TypeOK, Reserved, Holds
  <2> QED
    BY <2>1, <2>2, <2>3, Quiet
<1>17. ASSUME NEW f \in Findings, RecordTickets(f) PROVE Reserved'
  <2>row. PICK r : r = rows[f]
    OBVIOUS
  <2>0. /\ UNCHANGED <<day, id, was, wasLink, clock, cur, step>>
        /\ at[f][r] = Null
        /\ at' = [at EXCEPT ![f][r] = day]
        /\ link' = [link EXCEPT ![f][r] = TRUE]
        /\ tickets' = [tickets EXCEPT ![f][r] = Append(@, day)]
    BY <1>17, <2>row DEF RecordTickets, runVars, readVars
  <2>1. /\ \A g \in Findings, i \in RowId : (g # f \/ i # r) =>
             at'[g][i] = at[g][i] /\ link'[g][i] = link[g][i] /\ tickets'[g][i] = tickets[g][i]
        /\ r \in RowId => at'[f][r] = day /\ tickets'[f][r] = Append(tickets[f][r], day)
    BY <2>0 DEF TypeOK
  <2>2. /\ day \in Days /\ day \in Nat
        /\ r \in RowId => Row(f, r) /\ tickets[f][r] \in Seq(Days)
    BY Numbers DEF TypeOK, Reserved, Rows
  <2>3. r \in RowId => Row(f, r)'
    <3> SUFFICES ASSUME r \in RowId PROVE Row(f, r)'
      OBVIOUS
    <3>1. tickets[f][r] = <<>>
      BY <2>0, <2>2 DEF Row
    <3>2. Upto(<<>>, Null) /\ Spaced(<<>>) /\ Null \in Days \cup {Null}
      BY DEF Upto, Spaced
    <3>3. Spaced(tickets'[f][r]) /\ Upto(tickets'[f][r], day)
      BY <2>1, <2>2, <3>1, <3>2, SpacedAppend
    <3>4. at'[f][r] = day' /\ day' \in Nat
      BY <2>0, <2>1, <2>2
    <3>5. Upto(tickets'[f][r], day')
      BY <2>0, <3>3
    <3> QED
      BY <3>3, <3>4, <3>5, RowMade
  <2>4. \A v \in Runs : step[v] \in Holding => ~(cur[v] = f /\ id[v][f] = r)
    BY <2>0, <2>2 DEF Reserved, Holds, Held, Null
  <2>5. Rows'
    <3> SUFFICES ASSUME NEW g \in Findings, NEW i \in RowId PROVE Row(g, i)'
      BY DEF Rows
    <3>1. CASE g = f /\ i = r
      BY <2>3, <3>1
    <3>2. CASE g # f \/ i # r
      <4>1. Row(g, i) /\ at[g][i] <= day'
        BY <2>0 DEF Reserved, Rows, Row
      <4> QED
        BY <2>1, <3>2, <4>1, RowKept
    <3> QED
      BY <3>1, <3>2
  <2>6. Holds'
    <3> SUFFICES ASSUME NEW v \in Runs PROVE Held(v)' /\ clock'[v] <= day'
      BY DEF Holds
    <3>1. Held(v) /\ clock[v] <= day /\ cur[v] \in Findings
      BY DEF Reserved, Holds, TypeOK
    <3> QED
      BY <2>0, <2>1, <2>4, <3>1 DEF Held, Upto
  <2>7. Alone'
    BY <2>0 DEF Reserved, Alone
  <2> QED
    BY <2>5, <2>6, <2>7 DEF Reserved
<1>18. ASSUME UNCHANGED vars PROVE Reserved'
  BY <1>18 DEF vars, ticketVars, readVars, runVars, Reserved, Rows, Row, Holds,
     Held, Alone, Upto, Spaced
<1> QED
  BY <1>1, <1>2, <1>3, <1>4, <1>5, <1>6, <1>7, <1>8, <1>9, <1>10, <1>11, <1>12,
     <1>13, <1>14, <1>15, <1>16, <1>17, <1>18 DEF Next, RunNext

\* Two tickets of one row are more than the follow-up period apart, whichever
\* calls failed and wherever the runs died.
THEOREM TicketsStayApart == Spec => []TicketsApart
<1>1. Reserved => TicketsApart
  BY DEF Reserved, Rows, Row, Spaced, TicketsApart
<1> QED
  BY <1>1, TypeInit, ReserveInit, TypeStep, ReserveStep, PTL DEF Spec

-----------------------------------------------------------------------------
(* The link of a row *)

LinkStays == \A f \in Findings, i \in RowId : link[f][i] => link'[f][i]

LEMMA LinkStep == TypeOK /\ Reserved /\ [Next]_vars => [LinkStays]_vars
<1> SUFFICES ASSUME TypeOK, Reserved, [Next]_vars PROVE LinkStays
  OBVIOUS
<1>1. ASSUME Tick PROVE LinkStays
  BY <1>1 DEF Tick, LinkStays, ticketVars
<1>2. ASSUME NEW w \in Runs, Admit(w) PROVE LinkStays
  BY <1>2 DEF Admit, LinkStays, ticketVars
<1>3. ASSUME NEW w \in Runs, Fail(w) PROVE LinkStays
  BY <1>3 DEF Fail, LinkStays, ticketVars
<1>4. ASSUME NEW w \in Runs, Complete(w) PROVE LinkStays
  BY <1>4 DEF Complete, LinkStays, ticketVars
<1>5. ASSUME NEW w \in Runs, Crash(w) PROVE LinkStays
  BY <1>5 DEF Crash, LinkStays, ticketVars
<1>6. ASSUME NEW w \in Runs, Detect(w) PROVE LinkStays
  BY <1>6 DEF Detect, LinkStays, ticketVars
<1>7. ASSUME NEW w \in Runs, NEW f \in Findings, Enqueue(w, f) PROVE LinkStays
  BY <1>7 DEF Enqueue, LinkStays, ticketVars
<1>8. ASSUME NEW w \in Runs, EnqueueFails(w) PROVE LinkStays
  BY <1>8 DEF EnqueueFails, LinkStays, ticketVars
<1>9. ASSUME NEW w \in Runs, Reconcile(w) PROVE LinkStays
  BY <1>9 DEF Reconcile, LinkStays, ticketVars
<1>10. ASSUME NEW w \in Runs, ReadLedger(w) PROVE LinkStays
  BY <1>10 DEF ReadLedger, LinkStays, ticketVars
<1>11. ASSUME NEW w \in Runs, NEW f \in Findings, PassOver(w, f) PROVE LinkStays
  BY <1>11 DEF PassOver, LinkStays, ticketVars
<1>12. ASSUME NEW w \in Runs, NEW f \in Findings, Reserve(w, f) PROVE LinkStays
  BY <1>12 DEF Reserve, LinkStays, ticketVars
<1>13. ASSUME NEW w \in Runs, Create(w) PROVE LinkStays
  BY <1>13 DEF Create, LinkStays, ticketVars
<1>14. ASSUME NEW w \in Runs, Undo(w) PROVE LinkStays
  <2>1. cur[w] \in Findings /\ step[w] = "undo"
    BY <1>14 DEF Undo, Goes, TypeOK
  <2>2. link[cur[w]][id[w][cur[w]]] => was[w][cur[w]] # Null /\ wasLink[w][cur[w]]
    BY <2>1 DEF Reserved, Holds, Held, Holding
  <2>3. CASE UNCHANGED link
    BY <2>3 DEF LinkStays
  <2>4. CASE link' = [link EXCEPT ![cur[w]][id[w][cur[w]]] =
                        was[w][cur[w]] # Null /\ wasLink[w][cur[w]]]
    <3>1. \A g \in Findings, i \in RowId :
            link'[g][i] = IF g = cur[w] /\ i = id[w][cur[w]]
                          THEN was[w][cur[w]] # Null /\ wasLink[w][cur[w]]
                          ELSE link[g][i]
      BY <2>1, <2>4 DEF TypeOK
    <3> QED
      BY <2>2, <3>1 DEF LinkStays
  <2> QED
    BY <1>14, <2>3, <2>4 DEF Undo
<1>15. ASSUME NEW w \in Runs, Finalize(w) PROVE LinkStays
  <2>1. cur[w] \in Findings
    BY DEF TypeOK
  <2>2. CASE UNCHANGED link
    BY <2>2 DEF LinkStays
  <2>3. CASE link' = [link EXCEPT ![cur[w]][id[w][cur[w]]] = TRUE]
    BY <2>1, <2>3 DEF TypeOK, LinkStays
  <2> QED
    BY <1>15, <2>2, <2>3 DEF Finalize
<1>16. ASSUME NEW w \in Runs, Trigger(w) PROVE LinkStays
  BY <1>16 DEF Trigger, LinkStays, ticketVars
<1>17. ASSUME NEW f \in Findings, RecordTickets(f) PROVE LinkStays
  BY <1>17 DEF RecordTickets, TypeOK, LinkStays
<1>18. ASSUME UNCHANGED vars PROVE LinkStays
  BY <1>18 DEF vars, ticketVars, LinkStays
<1> QED
  BY <1>1, <1>2, <1>3, <1>4, <1>5, <1>6, <1>7, <1>8, <1>9, <1>10, <1>11, <1>12,
     <1>13, <1>14, <1>15, <1>16, <1>17, <1>18 DEF Next, RunNext

\* No step of a run or of the routine takes the link to its ticket off a row.
THEOREM LinkIsKept == Spec => LinkKept
<1>1. Spec => [][LinkStays]_vars
  BY TypeInit, ReserveInit, TypeStep, ReserveStep, LinkStep, PTL DEF Spec
<1> QED
  BY <1>1 DEF LinkStays, LinkKept

-----------------------------------------------------------------------------
(* What a run owes to the findings it saw *)

\* What stands behind a link, a ticket being recorded, and the link a run read.
LinkedBy(w) ==
  /\ step[w] = "finalize" =>
       /\ id[w][cur[w]] \in RowId
       /\ tickets[cur[w]][id[w][cur[w]]] # <<>>
  /\ \A f \in Findings : wasLink[w][f] =>
       /\ id[w][f] \in RowId /\ tickets[f][id[w][f]] # <<>>
       /\ step[w] \notin {"idle", "detect", "enqueue", "ledger"}

Linked == \A f \in Findings, i \in RowId : link[f][i] => tickets[f][i] # <<>>
Backed == \A f \in Findings, i \in RowId : at[f][i] # Null => Told(f, i)
Backing == Linked /\ Backed /\ \A w \in Runs : LinkedBy(w)

\* What is told of a row stays so, but where a reservation is undone: then the
\* call failed for all who read the row.
Stays == \A f \in Findings, i \in RowId : Told(f, i) =>
  \/ Told(f, i)'
  \/ at'[f][i] = Null /\ \A v \in Runs : read[v] /\ id[v][f] = i => f \in missed'[v]

\* A step of run w; the other runs keep what they hold.
LEMMA BackFrame ==
  ASSUME TypeOK, Backing, NEW w \in Runs, \A v \in Runs \ {w} : Same(v),
         \A f \in Findings, i \in RowId : tickets[f][i] # <<>> => tickets'[f][i] # <<>>,
         \A f \in Findings, i \in RowId : link'[f][i] => link[f][i] \/ tickets'[f][i] # <<>>,
         \A f \in Findings, i \in RowId :
            at'[f][i] # Null => at[f][i] # Null \/ Told(f, i)',
         LinkedBy(w)', Stays
  PROVE  Backing'
<1>1. Linked'
  BY DEF Backing, Linked
<1>2. Backed'
  BY DEF Backing, Backed, Stays
<1>3. \A v \in Runs \ {w} : LinkedBy(v)'
  <2> SUFFICES ASSUME NEW v \in Runs \ {w} PROVE LinkedBy(v)'
    OBVIOUS
  <2>1. Same(v) /\ LinkedBy(v) /\ cur[v] \in Findings
    BY DEF Backing, TypeOK
  <2> QED
    BY <2>1 DEF LinkedBy, Same
<1> QED
  BY <1>1, <1>2, <1>3 DEF Backing

\* A step of a run that is not filing takes nothing back.
LEMMA ToldStays ==
  ASSUME NEW w \in Runs, step[w] \notin Filing, UNCHANGED stranded,
         \A v \in Runs \ {w} : Same(v),
         \A f \in Findings, i \in RowId : tickets[f][i] # <<>> => tickets'[f][i] # <<>>
  PROVE  Stays
<1> SUFFICES ASSUME NEW f \in Findings, NEW i \in RowId, Told(f, i)
             PROVE  Told(f, i)'
  BY DEF Stays
<1>1. CASE tickets[f][i] # <<>> \/ i \in stranded[f]
  BY <1>1 DEF Told
<1>2. CASE \E v \in Runs : step[v] \in Filing /\ cur[v] = f /\ id[v][f] = i
  <2>1. PICK v \in Runs : step[v] \in Filing /\ cur[v] = f /\ id[v][f] = i
    BY <1>2
  <2>2. v # w /\ Same(v)
    BY <2>1
  <2> QED
    BY <2>1, <2>2 DEF Told, Same
<1> QED
  BY <1>1, <1>2 DEF Told

\* Most steps write no ticket and file none.
LEMMA BackQuiet ==
  ASSUME TypeOK, Backing, NEW w \in Runs, UNCHANGED <<at, link, tickets, stranded>>,
         \A v \in Runs \ {w} : Same(v), step[w] \notin Filing, LinkedBy(w)'
  PROVE  Backing' /\ Stays
<1>1. Stays
  BY ToldStays
<1> QED
  BY <1>1, BackFrame

\* The run goes on with the links it read.
LEMMA LinkedByKept ==
  ASSUME TypeOK, NEW w \in Runs, LinkedBy(w),
         id'[w] = id[w], wasLink'[w] = wasLink[w], step'[w] # "finalize",
         step'[w] \in {"idle", "detect", "enqueue", "ledger"} =>
            step[w] \in {"idle", "detect", "enqueue", "ledger"},
         \A f \in Findings, i \in RowId : tickets[f][i] # <<>> => tickets'[f][i] # <<>>
  PROVE  LinkedBy(w)'
  BY DEF LinkedBy

\* A run that leaves its row reserved says so.
LEMMA StrandTells ==
  ASSUME TypeOK, NEW w \in Runs, step[w] \in Filing, stranded' = Strand(w),
         UNCHANGED tickets, \A v \in Runs \ {w} : Same(v)
  PROVE  Stays
<1> SUFFICES ASSUME NEW f \in Findings, NEW i \in RowId, Told(f, i)
             PROVE  Told(f, i)'
  BY DEF Stays
<1>1. \A g \in Findings : stranded[g] \subseteq stranded'[g]
  BY DEF Strand, TypeOK
<1>2. CASE tickets[f][i] # <<>> \/ i \in stranded[f]
  BY <1>1, <1>2 DEF Told
<1>3. CASE \E v \in Runs : step[v] \in Filing /\ cur[v] = f /\ id[v][f] = i
  <2>1. PICK v \in Runs : step[v] \in Filing /\ cur[v] = f /\ id[v][f] = i
    BY <1>3
  <2>2. CASE v = w
    BY <2>1, <2>2 DEF Told, Strand, TypeOK
  <2>3. CASE v # w
    BY <2>1, <2>3 DEF Told, Same
  <2> QED
    BY <2>2, <2>3
<1> QED
  BY <1>2, <1>3 DEF Told

LEMMA BackStep == TypeOK /\ Reserved /\ Backing /\ [Next]_vars => Backing' /\ Stays
<1> SUFFICES ASSUME TypeOK, Reserved, Backing, [Next]_vars PROVE Backing' /\ Stays
  OBVIOUS
<1>1. ASSUME Tick PROVE Backing' /\ Stays
  BY <1>1 DEF Tick, ticketVars, runVars, readVars, Backing, Linked, Backed, LinkedBy,
     Told, Stays
<1>2. ASSUME NEW w \in Runs, Admit(w) PROVE Backing' /\ Stays
  <2>1. UNCHANGED <<at, link, tickets, stranded>> /\ step[w] \notin Filing
    BY <1>2 DEF Admit, Goes, ticketVars, Filing
  <2>2. \A v \in Runs \ {w} : Same(v)
    BY <1>2 DEF Admit, Goes, Same, readVars, TypeOK
  <2>3. LinkedBy(w)'
    <3>1. /\ id'[w] = id[w] /\ wasLink'[w] = wasLink[w] /\ step'[w] # "finalize"
          /\ step'[w] \in {"idle", "detect", "enqueue", "ledger"} =>
                step[w] \in {"idle", "detect", "enqueue", "ledger"}
      BY <1>2 DEF Admit, Goes, readVars, TypeOK
    <3> QED
      BY <2>1, <3>1, LinkedByKept DEF Backing
  <2> QED
    BY <2>1, <2>2, <2>3, BackQuiet
<1>3. ASSUME NEW w \in Runs, Fail(w) PROVE Backing' /\ Stays
  <2>1. UNCHANGED <<at, link, tickets, stranded>> /\ step[w] \notin Filing
    BY <1>3 DEF Fail, Goes, ticketVars, Filing
  <2>2. \A v \in Runs \ {w} : Same(v)
    BY <1>3 DEF Fail, Goes, Same, readVars, TypeOK
  <2>3. LinkedBy(w)'
    <3>1. /\ id'[w] = id[w] /\ wasLink'[w] = wasLink[w] /\ step'[w] # "finalize"
          /\ step'[w] \in {"idle", "detect", "enqueue", "ledger"} =>
                step[w] \in {"idle", "detect", "enqueue", "ledger"}
      BY <1>3 DEF Fail, Goes, readVars, TypeOK
    <3> QED
      BY <2>1, <3>1, LinkedByKept DEF Backing
  <2> QED
    BY <2>1, <2>2, <2>3, BackQuiet
<1>4. ASSUME NEW w \in Runs, Complete(w) PROVE Backing' /\ Stays
  <2>1. UNCHANGED <<at, link, tickets, stranded>> /\ step[w] \notin Filing
    BY <1>4 DEF Complete, Goes, ticketVars, Filing
  <2>2. \A v \in Runs \ {w} : Same(v)
    BY <1>4 DEF Complete, Goes, Same, readVars, TypeOK
  <2>3. LinkedBy(w)'
    <3>1. /\ id'[w] = id[w] /\ wasLink'[w] = wasLink[w] /\ step'[w] # "finalize"
          /\ step'[w] \in {"idle", "detect", "enqueue", "ledger"} =>
                step[w] \in {"idle", "detect", "enqueue", "ledger"}
      BY <1>4 DEF Complete, Goes, readVars, TypeOK
    <3> QED
      BY <2>1, <3>1, LinkedByKept DEF Backing
  <2> QED
    BY <2>1, <2>2, <2>3, BackQuiet
<1>5. ASSUME NEW w \in Runs, Crash(w) PROVE Backing' /\ Stays
  <2>1. UNCHANGED <<at, link, tickets, id, cur>>
    BY <1>5 DEF Crash, ticketVars
  <2>2. \A v \in Runs \ {w} : Same(v)
    BY <1>5 DEF Crash, Same, readVars, TypeOK
  <2>3. LinkedBy(w)'
    <3>1. id'[w] = id[w] /\ wasLink'[w] = wasLink[w] /\ step'[w] = "gone"
      BY <1>5 DEF Crash, readVars, TypeOK
    <3> QED
      BY <2>1, <3>1, LinkedByKept DEF Backing
  <2>4. Stays
    <3>1. CASE step[w] \in Filing
      BY <1>5, <2>1, <2>2, <3>1, StrandTells DEF Crash
    <3>2. CASE step[w] \notin Filing
      BY <1>5, <2>1, <2>2, <3>2, ToldStays DEF Crash
    <3> QED
      BY <3>1, <3>2
  <2> QED
    BY <2>1, <2>2, <2>3, <2>4, BackFrame
<1>6. ASSUME NEW w \in Runs, Detect(w) PROVE Backing' /\ Stays
  <2>1. UNCHANGED <<at, link, tickets, stranded>> /\ step[w] \notin Filing
    BY <1>6 DEF Detect, Goes, ticketVars, Filing
  <2>2. \A v \in Runs \ {w} : Same(v)
    BY <1>6 DEF Detect, Goes, Same, readVars, TypeOK
  <2>3. LinkedBy(w)'
    <3>1. /\ id'[w] = id[w] /\ wasLink'[w] = wasLink[w] /\ step'[w] # "finalize"
          /\ step'[w] \in {"idle", "detect", "enqueue", "ledger"} =>
                step[w] \in {"idle", "detect", "enqueue", "ledger"}
      BY <1>6 DEF Detect, Goes, readVars, TypeOK
    <3> QED
      BY <2>1, <3>1, LinkedByKept DEF Backing
  <2> QED
    BY <2>1, <2>2, <2>3, BackQuiet
<1>7. ASSUME NEW w \in Runs, NEW f \in Findings, Enqueue(w, f) PROVE Backing' /\ Stays
  <2>1. UNCHANGED <<at, link, tickets, stranded>> /\ step[w] \notin Filing
    BY <1>7 DEF Enqueue, ticketVars, Filing
  <2>2. \A v \in Runs \ {w} : Same(v)
    BY <1>7 DEF Enqueue, Same, readVars, TypeOK
  <2>3. LinkedBy(w)'
    <3>1. step'[w] = "enqueue" /\ step[w] = "enqueue" /\ wasLink'[w] = wasLink[w]
      BY <1>7 DEF Enqueue, readVars
    <3> QED
      BY <3>1 DEF Backing, LinkedBy
  <2> QED
    BY <2>1, <2>2, <2>3, BackQuiet
<1>8. ASSUME NEW w \in Runs, EnqueueFails(w) PROVE Backing' /\ Stays
  <2>1. UNCHANGED <<at, link, tickets, stranded>> /\ step[w] \notin Filing
    BY <1>8 DEF EnqueueFails, ticketVars, Filing
  <2>2. \A v \in Runs \ {w} : Same(v)
    BY <1>8 DEF EnqueueFails, Same, readVars, TypeOK
  <2>3. LinkedBy(w)'
    <3>1. step'[w] = "enqueue" /\ step[w] = "enqueue" /\ wasLink'[w] = wasLink[w]
      BY <1>8 DEF EnqueueFails, readVars
    <3> QED
      BY <3>1 DEF Backing, LinkedBy
  <2> QED
    BY <2>1, <2>2, <2>3, BackQuiet
<1>9. ASSUME NEW w \in Runs, Reconcile(w) PROVE Backing' /\ Stays
  <2>1. UNCHANGED <<at, link, tickets, stranded>> /\ step[w] \notin Filing
    BY <1>9 DEF Reconcile, Goes, ticketVars, Filing
  <2>2. \A v \in Runs \ {w} : Same(v)
    BY <1>9 DEF Reconcile, Goes, Same, readVars, TypeOK
  <2>3. LinkedBy(w)'
    <3>1. /\ id'[w] = id[w] /\ wasLink'[w] = wasLink[w] /\ step'[w] # "finalize"
          /\ step'[w] \in {"idle", "detect", "enqueue", "ledger"} =>
                step[w] \in {"idle", "detect", "enqueue", "ledger"}
      BY <1>9 DEF Reconcile, Goes, readVars, TypeOK
    <3> QED
      BY <2>1, <3>1, LinkedByKept DEF Backing
  <2> QED
    BY <2>1, <2>2, <2>3, BackQuiet
<1>10. ASSUME NEW w \in Runs, ReadLedger(w) PROVE Backing' /\ Stays
  <2>1. UNCHANGED <<at, link, tickets, stranded>> /\ step[w] \notin Filing
    BY <1>10 DEF ReadLedger, Goes, ticketVars, Filing
  <2>2. \A v \in Runs \ {w} : Same(v)
    BY <1>10 DEF ReadLedger, Goes, Same, readVars, TypeOK
  <2>3. LinkedBy(w)'
    <3>1. step'[w] = "file" /\ id' = id
      BY <1>10 DEF ReadLedger, Goes, TypeOK
    <3>2. \A g \in Enqueued(w) : id[w][g] \in RowId
      BY DEF Enqueued, TypeOK, RowId
    <3>3. CASE wasLink' = [wasLink EXCEPT ![w] = [g \in Findings |->
                 g \in Enqueued(w) /\ link[g][id[w][g]]]]
      <4>1. \A g \in Findings : wasLink'[w][g] => g \in Enqueued(w) /\ link[g][id[w][g]]
        BY <3>3 DEF TypeOK
      <4> QED
        BY <2>1, <3>1, <3>2, <4>1 DEF Backing, Linked, LinkedBy
    <3>4. CASE UNCHANGED wasLink
      BY <2>1, <3>1, <3>4 DEF Backing, LinkedBy
    <3> QED
      BY <1>10, <3>3, <3>4 DEF ReadLedger
  <2> QED
    BY <2>1, <2>2, <2>3, BackQuiet
<1>11. ASSUME NEW w \in Runs, NEW f \in Findings, PassOver(w, f) PROVE Backing' /\ Stays
  <2>1. UNCHANGED <<at, link, tickets, stranded>> /\ step[w] \notin Filing
    BY <1>11 DEF PassOver, ticketVars, Filing
  <2>2. \A v \in Runs \ {w} : Same(v)
    BY <1>11 DEF PassOver, Same, readVars, TypeOK
  <2>3. LinkedBy(w)'
    <3>1. /\ id'[w] = id[w] /\ wasLink'[w] = wasLink[w] /\ step'[w] # "finalize"
          /\ step'[w] \in {"idle", "detect", "enqueue", "ledger"} =>
                step[w] \in {"idle", "detect", "enqueue", "ledger"}
      BY <1>11 DEF PassOver, readVars, TypeOK
    <3> QED
      BY <2>1, <3>1, LinkedByKept DEF Backing
  <2> QED
    BY <2>1, <2>2, <2>3, BackQuiet
<1>12. ASSUME NEW w \in Runs, NEW f \in Findings, Reserve(w, f) PROVE Backing' /\ Stays
  <2>1. UNCHANGED <<link, tickets, id, stranded>> /\ step[w] \notin Filing
    BY <1>12 DEF Reserve, Goes, Filing
  <2>2. \A v \in Runs \ {w} : Same(v)
    BY <1>12 DEF Reserve, Goes, Same, readVars, TypeOK
  <2>3. LinkedBy(w)'
    <3>1. wasLink'[w] = wasLink[w] /\ step'[w] \in {"file", "create"}
      BY <1>12 DEF Reserve, Goes, readVars, TypeOK
    <3> QED
      BY <2>1, <3>1, LinkedByKept DEF Backing
  <2>4. Stays
    BY <2>1, <2>2, ToldStays
  <2>5. ASSUME NEW g \in Findings, NEW i \in RowId, at'[g][i] # Null
        PROVE  at[g][i] # Null \/ Told(g, i)'
    <3>1. CASE UNCHANGED at
      BY <2>5, <3>1
    <3>2. CASE at' = [at EXCEPT ![f][id[w][f]] = day] /\ Goes(w, "file", "create")
      <4>1. step'[w] = "create" /\ cur'[w] = f /\ id'[w] = id[w]
        BY <1>12, <2>1, <3>2 DEF Reserve, Goes, TypeOK
      <4>2. CASE g = f /\ i = id[w][f]
        BY <4>1, <4>2 DEF Told, Filing
      <4>3. CASE g # f \/ i # id[w][f]
        BY <2>5, <3>2, <4>3 DEF TypeOK
      <4> QED
        BY <4>2, <4>3
    <3> QED
      BY <1>12, <3>1, <3>2 DEF Reserve
  <2> QED
    BY <2>1, <2>2, <2>3, <2>4, <2>5, BackFrame
<1>13. ASSUME NEW w \in Runs, Create(w) PROVE Backing' /\ Stays
  <2>1. PICK f, r : f \in Findings /\ f = cur[w] /\ r = id[w][f]
    BY DEF TypeOK
  <2>2. /\ UNCHANGED <<at, link, id, cur, stranded>> /\ step[w] = "create"
        /\ r \in RowId
    BY <1>13, <2>1 DEF Create, Goes, Reserved, Holds, Held, Holding
  <2>3. \A v \in Runs \ {w} : Same(v)
    BY <1>13 DEF Create, Goes, Same, readVars, TypeOK
  <2>4. \/ /\ step'[w] = "finalize"
           /\ tickets' = [tickets EXCEPT ![f][r] = Append(tickets[f][r], day)]
        \/ step'[w] = "undo" /\ UNCHANGED tickets
    BY <1>13, <2>1 DEF Create, Goes, TypeOK
  <2>5. tickets[f][r] \in Seq(Days) /\ day \in Days
    BY <2>1, <2>2 DEF TypeOK
  <2>6. Append(tickets[f][r], day) # <<>>
    BY <2>5
  <2>7. step'[w] = "finalize" => tickets'[f][r] # <<>>
    BY <2>1, <2>2, <2>4, <2>6 DEF TypeOK
  <2>8. \A g \in Findings, i \in RowId : tickets[g][i] # <<>> => tickets'[g][i] # <<>>
    <3>1. CASE tickets' = [tickets EXCEPT ![f][r] = Append(tickets[f][r], day)]
      <4>1. \A g \in Findings, i \in RowId : g # f \/ i # r => tickets'[g][i] = tickets[g][i]
        BY <2>1, <3>1 DEF TypeOK
      <4>2. tickets'[f][r] # <<>>
        BY <2>1, <2>2, <2>6, <3>1 DEF TypeOK
      <4> QED
        BY <4>1, <4>2
    <3> QED
      BY <2>4, <3>1
  <2>9. LinkedBy(w)'
    <3>1. wasLink' = wasLink /\ step'[w] \in {"finalize", "undo"}
      BY <1>13, <2>4 DEF Create, readVars
    <3> QED
      BY <2>1, <2>2, <2>7, <2>8, <3>1 DEF Backing, LinkedBy
  <2>10. Stays
    <3> SUFFICES ASSUME NEW g \in Findings, NEW i \in RowId, Told(g, i)
                 PROVE  Told(g, i)'
      BY DEF Stays
    <3>1. CASE g = f /\ i = r
      BY <2>1, <2>2, <2>4, <2>7, <3>1 DEF Told, Filing
    <3>2. CASE g # f \/ i # r
      <4>1. \A v \in Runs : cur[v] = g /\ id[v][g] = i => v # w
        BY <2>1, <3>2
      <4> QED
        BY <2>2, <2>3, <2>8, <4>1 DEF Told, Same
    <3> QED
      BY <3>1, <3>2
  <2> QED
    BY <2>2, <2>3, <2>8, <2>9, <2>10, BackFrame
<1>14. ASSUME NEW w \in Runs, Undo(w) PROVE Backing' /\ Stays
  <2>1. PICK f, r : f \in Findings /\ f = cur[w] /\ r = id[w][f]
    BY DEF TypeOK
  <2>2. /\ UNCHANGED <<tickets, id, cur, read, wasLink>>
        /\ step[w] = "undo" /\ step'[w] = "file"
    BY <1>14 DEF Undo, Goes, readVars, TypeOK
  <2>3. \A v \in Runs \ {w} : Same(v)
    BY <1>14 DEF Undo, Goes, Same, readVars, TypeOK
  <2>4. LinkedBy(w)'
    BY <2>2, LinkedByKept DEF Backing
  <2>5. was[w][f] # Null => wasLink[w][f] /\ tickets[f][r] # <<>>
    <3>1. was[w][f] # Null => wasLink[w][f]
      BY <2>1, <2>2 DEF Reserved, Holds, Held, Holding
    <3> QED
      BY <2>1, <3>1 DEF Backing, LinkedBy
  <2>6. CASE stranded' = Strand(w) /\ UNCHANGED <<at, link, missed>>
    <3>1. Stays
      BY <2>2, <2>3, <2>6, StrandTells DEF Filing
    <3> QED
      BY <2>2, <2>3, <2>4, <2>6, <3>1, BackFrame
  <2>7. CASE /\ at' = [at EXCEPT ![f][r] = was[w][f]]
             /\ link' = [link EXCEPT ![f][r] = (was[w][f] # Null /\ wasLink[w][f])]
             /\ missed' = [v \in Runs |-> IF read[v] /\ id[v][f] = r
                                         THEN missed[v] \cup {f} ELSE missed[v]]
             /\ UNCHANGED stranded
    <3>1. /\ r \in RowId
          /\ \A g \in Findings, i \in RowId : g # f \/ i # r =>
               at'[g][i] = at[g][i] /\ link'[g][i] = link[g][i]
          /\ r \in RowId => at'[f][r] = was[w][f]
          /\ r \in RowId => (link'[f][r] => was[w][f] # Null)
      <4>1. r \in RowId
        BY <2>1, <2>2 DEF Reserved, Holds, Held, Holding
      <4> QED
        BY <2>1, <2>7, <4>1 DEF TypeOK
    <3>2. Stays
      <4> SUFFICES ASSUME NEW g \in Findings, NEW i \in RowId, Told(g, i), ~Told(g, i)'
                   PROVE  /\ at'[g][i] = Null
                          /\ \A v \in Runs : read[v] /\ id[v][g] = i => g \in missed'[v]
        BY DEF Stays
      <4>1. PICK v \in Runs : step[v] \in Filing /\ cur[v] = g /\ id[v][g] = i
        BY <2>2, <2>7 DEF Told
      <4>2. v = w
        BY <2>3, <4>1 DEF Told, Same
      <4>3. g = f /\ i = r /\ tickets[f][r] = <<>>
        BY <2>1, <2>2, <4>1, <4>2 DEF Told
      <4> QED
        BY <2>5, <2>7, <3>1, <4>3
    <3>3. \A g \in Findings, i \in RowId : link'[g][i] => link[g][i] \/ tickets'[g][i] # <<>>
      BY <2>2, <2>5, <3>1
    <3>4. \A g \in Findings, i \in RowId : at'[g][i] # Null => at[g][i] # Null \/ Told(g, i)'
      BY <2>2, <2>5, <3>1 DEF Told
    <3> QED
      BY <2>2, <2>3, <2>4, <3>2, <3>3, <3>4, BackFrame
  <2> QED
    BY <1>14, <2>1, <2>6, <2>7 DEF Undo
<1>15. ASSUME NEW w \in Runs, Finalize(w) PROVE Backing' /\ Stays
  <2>1. PICK f, r : f \in Findings /\ f = cur[w] /\ r = id[w][f]
    BY DEF TypeOK
  <2>2. /\ UNCHANGED <<tickets, id, stranded, wasLink>>
        /\ step[w] = "finalize" /\ step'[w] = "file"
    BY <1>15 DEF Finalize, Goes, readVars, TypeOK
  <2>3. \A v \in Runs \ {w} : Same(v)
    BY <1>15 DEF Finalize, Goes, Same, readVars, TypeOK
  <2>4. LinkedBy(w)'
    BY <2>2, LinkedByKept DEF Backing
  <2>5. Stays
    BY <2>2, <2>3, ToldStays DEF Filing
  <2>6. r \in RowId /\ tickets'[f][r] # <<>>
    BY <2>1, <2>2 DEF Backing, LinkedBy
  <2>7. \A g \in Findings, i \in RowId : g # f \/ i # r =>
          at'[g][i] = at[g][i] /\ link'[g][i] = link[g][i]
    BY <1>15, <2>1 DEF Finalize, TypeOK
  <2>8. \A g \in Findings, i \in RowId : link'[g][i] => link[g][i] \/ tickets'[g][i] # <<>>
    BY <2>6, <2>7
  <2>9. \A g \in Findings, i \in RowId : at'[g][i] # Null => at[g][i] # Null \/ Told(g, i)'
    BY <2>6, <2>7 DEF Told
  <2> QED
    BY <2>2, <2>3, <2>4, <2>5, <2>8, <2>9, BackFrame
<1>16. ASSUME NEW w \in Runs, Trigger(w) PROVE Backing' /\ Stays
  <2>1. UNCHANGED <<at, link, tickets, stranded>> /\ step[w] \notin Filing
    BY <1>16 DEF Trigger, ticketVars, Filing
  <2>2. \A v \in Runs \ {w} : Same(v)
    BY <1>16 DEF Trigger, Same, readVars, TypeOK
  <2>3. LinkedBy(w)'
    <3>1. /\ id'[w] = id[w] /\ wasLink'[w] = wasLink[w] /\ step'[w] # "finalize"
          /\ step'[w] \in {"idle", "detect", "enqueue", "ledger"} =>
                step[w] \in {"idle", "detect", "enqueue", "ledger"}
      BY <1>16 DEF Trigger, readVars, TypeOK
    <3> QED
      BY <2>1, <3>1, LinkedByKept DEF Backing
  <2> QED
    BY <2>1, <2>2, <2>3, BackQuiet
<1>17. ASSUME NEW f \in Findings, RecordTickets(f) PROVE Backing' /\ Stays
  <2>1. PICK r : r = rows[f]
    OBVIOUS
  <2>2. /\ UNCHANGED <<step, cur, id, wasLink, stranded>>
        /\ tickets' = [tickets EXCEPT ![f][r] = Append(tickets[f][r], day)]
        /\ at' = [at EXCEPT ![f][r] = day] /\ link' = [link EXCEPT ![f][r] = TRUE]
    BY <1>17, <2>1 DEF RecordTickets, runVars, readVars
  <2>3. \A g \in Findings, i \in RowId : g # f \/ i # r =>
          at'[g][i] = at[g][i] /\ link'[g][i] = link[g][i] /\ tickets'[g][i] = tickets[g][i]
    BY <2>2 DEF TypeOK
  <2>4. r \in RowId => tickets'[f][r] # <<>>
    <3> SUFFICES ASSUME r \in RowId PROVE tickets'[f][r] # <<>>
      OBVIOUS
    <3>1. tickets[f][r] \in Seq(Days) /\ day \in Days
      BY DEF TypeOK
    <3>2. Append(tickets[f][r], day) # <<>>
      BY <3>1
    <3> QED
      BY <2>2, <3>2 DEF TypeOK
  <2>5. \A g \in Findings, i \in RowId : tickets[g][i] # <<>> => tickets'[g][i] # <<>>
    BY <2>3, <2>4
  <2>6. \A g \in Findings, i \in RowId : Told(g, i) => Told(g, i)'
    BY <2>2, <2>5 DEF Told
  <2>7. Linked'
    BY <2>3, <2>4 DEF Backing, Linked
  <2>8. Backed'
    <3> SUFFICES ASSUME NEW g \in Findings, NEW i \in RowId, at'[g][i] # Null
                 PROVE  Told(g, i)'
      BY DEF Backed
    <3>1. CASE g = f /\ i = r
      BY <2>4, <3>1 DEF Told
    <3>2. CASE g # f \/ i # r
      BY <2>3, <2>6, <3>2 DEF Backing, Backed
    <3> QED
      BY <3>1, <3>2
  <2>9. \A w \in Runs : LinkedBy(w)'
    <3> SUFFICES ASSUME NEW w \in Runs PROVE LinkedBy(w)'
      OBVIOUS
    <3>1. LinkedBy(w) /\ cur[w] \in Findings
      BY DEF Backing, TypeOK
    <3> QED
      BY <2>2, <2>5, <3>1 DEF LinkedBy
  <2> QED
    BY <2>6, <2>7, <2>8, <2>9 DEF Backing, Stays
<1>18. ASSUME UNCHANGED vars PROVE Backing' /\ Stays
  BY <1>18 DEF vars, ticketVars, runVars, readVars, Backing, Linked, Backed, LinkedBy,
     Told, Stays
<1> QED
  BY <1>1, <1>2, <1>3, <1>4, <1>5, <1>6, <1>7, <1>8, <1>9, <1>10, <1>11, <1>12,
     <1>13, <1>14, <1>15, <1>16, <1>17, <1>18 DEF Next, RunNext

LEMMA BackInit == Init => Backing
  BY DEF Init, Backing, Linked, Backed, LinkedBy

Ticketed(w, f) == id[w][f] # 0 /\ Told(f, id[w][f])

\* The routine is asked, or may be asked still.
Handed(w, f) ==
  /\ f \in AutoFix
  /\ hand[w] \in {"none", "unsure"} \/ (hand[w] = "sent" /\ f \in asked)

After == {"ledger", "file", "create", "finalize", "undo", "done"}

\* What a run that is filing still owes a finding that no call failed for.
Owed(w, f) ==
  /\ step[w] = "enqueue" => f \in todo[w] \/ id[w][f] # 0
  /\ step[w] \in After => id[w][f] # 0
  /\ step[w] \in After \ {"ledger"} =>
       /\ read[w]
       /\ was[w][f] # Null => Ticketed(w, f)
       /\ \/ f \notin TicketRoute \cup AutoFix
          \/ Ticketed(w, f)
          \/ f \in todo[w]
          \/ Handed(w, f)

Owe(w) ==
  /\ step[w] \in {"idle", "detect", "enqueue", "ledger"} => hand[w] = "none"
  /\ step[w] \in {"ledger", "file", "create", "finalize", "undo"} =>
       todo[w] \subseteq seen[w]
  /\ step[w] = "done" => todo[w] = {} /\ hand[w] # "none"
  /\ \A f \in seen[w] \ missed[w] : Owed(w, f)

Owing == \A w \in Runs : Owe(w)

\* What run v owes, but for the rows, is as it was.
Kept(v) ==
  /\ step'[v] = step[v] /\ seen'[v] = seen[v] /\ id'[v] = id[v]
  /\ todo'[v] = todo[v] /\ read'[v] = read[v] /\ was'[v] = was[v]
  /\ cur'[v] = cur[v] /\ hand'[v] = hand[v]

LEMMA TicketStays ==
  ASSUME TypeOK, Stays, NEW v \in Runs, NEW f \in Findings \ missed'[v],
         read[v], id'[v] = id[v], Ticketed(v, f)
  PROVE  Ticketed(v, f)'
<1>1. PICK i : i = id[v][f]
  OBVIOUS
<1>2. i \in RowId /\ Told(f, i) /\ i = id'[v][f]
  BY <1>1 DEF Ticketed, TypeOK, RowId
<1>3. Told(f, i)'
  BY <1>1, <1>2 DEF Stays
<1>4. i # 0
  BY <1>1 DEF Ticketed
<1> QED
  BY <1>2, <1>3, <1>4 DEF Ticketed, Told

LEMMA OweKept ==
  ASSUME TypeOK, NEW v \in Runs, Kept(v), Owe(v), missed[v] \subseteq missed'[v],
         asked \subseteq asked', Stays
  PROVE  Owe(v)'
<1>1. \A f \in seen[v] \ missed'[v] : Owed(v, f)'
  <2> SUFFICES ASSUME NEW f \in seen[v] \ missed'[v] PROVE Owed(v, f)'
    OBVIOUS
  <2>1. Owed(v, f) /\ f \in Findings
    BY DEF Owe, TypeOK
  <2>2. read[v] /\ Ticketed(v, f) => Ticketed(v, f)'
    BY <2>1, TicketStays DEF Kept
  <2>3. Handed(v, f) => Handed(v, f)'
    BY DEF Handed, Kept
  <2> QED
    BY <2>1, <2>2, <2>3 DEF Owed, Kept
<1> QED
  BY <1>1 DEF Owe, Kept

LEMMA OweFrame ==
  ASSUME TypeOK, Owing, NEW w \in Runs, \A v \in Runs \ {w} : Kept(v),
         \A v \in Runs : missed[v] \subseteq missed'[v],
         asked \subseteq asked', Stays, Owe(w)'
  PROVE  Owing'
<1>1. \A v \in Runs \ {w} : Owe(v)'
  BY OweKept DEF Owing
<1> QED
  BY <1>1 DEF Owing

LEMMA MissMore ==
  ASSUME TypeOK, NEW w \in Runs, NEW S,
         missed' = missed \/ missed' = [missed EXCEPT ![w] = missed[w] \cup S]
  PROVE  \A v \in Runs : missed[v] \subseteq missed'[v]
<1>1. missed \in [Runs -> SUBSET Findings]
  BY DEF TypeOK
<1> QED
  BY <1>1

\* A finding of a run that is filing, when its debt is only settled
LEMMA OwedKept ==
  ASSUME TypeOK, Stays, NEW w \in Runs, NEW f \in seen[w] \ missed'[w], Owed(w, f),
         step[w] \in After \ {"ledger"}, step'[w] \in After \ {"ledger"},
         id'[w] = id[w], read'[w] = read[w], was'[w] = was[w], hand'[w] = hand[w],
         asked \subseteq asked',
         f \in todo[w] => f \in todo'[w] \/ Ticketed(w, f) \/ Ticketed(w, f)'
  PROVE  Owed(w, f)'
<1>1. f \in Findings /\ read[w] /\ id[w][f] # 0
  BY DEF TypeOK, Owed
<1>2. Ticketed(w, f) => Ticketed(w, f)'
  BY <1>1, TicketStays
<1>3. Handed(w, f) => Handed(w, f)'
  BY DEF Handed
<1> QED
  BY <1>1, <1>2, <1>3 DEF Owed, After

LEMMA OwingInit == Init => Owing
  BY DEF Init, Owing, Owe, Owed, After

\* An active row exists.
Opened == \A f \in Findings : open[f] => rows[f] # 0

LEMMA OpenedStep == TypeOK /\ Opened /\ [Next]_vars => Opened'
<1> SUFFICES ASSUME TypeOK, Opened, [Next]_vars PROVE Opened'
  OBVIOUS
<1>1. ASSUME Tick PROVE Opened'
  BY <1>1 DEF Tick, rowVars, Opened
<1>2. ASSUME NEW w \in Runs, Admit(w) PROVE Opened'
  BY <1>2 DEF Admit, rowVars, Opened
<1>3. ASSUME NEW w \in Runs, Fail(w) PROVE Opened'
  BY <1>3 DEF Fail, rowVars, Opened
<1>4. ASSUME NEW w \in Runs, Complete(w) PROVE Opened'
  BY <1>4 DEF Complete, rowVars, Opened
<1>5. ASSUME NEW w \in Runs, Crash(w) PROVE Opened'
  BY <1>5 DEF Crash, rowVars, Opened
<1>6. ASSUME NEW w \in Runs, Detect(w) PROVE Opened'
  BY <1>6 DEF Detect, rowVars, Opened
<1>7. ASSUME NEW w \in Runs, NEW f \in Findings, Enqueue(w, f) PROVE Opened'
  <2>1. \A g \in Findings : rows[g] \in Nat
    BY DEF TypeOK
  <2>2. rows'[f] # 0 /\ \A g \in Findings : g # f => rows'[g] = rows[g] /\ open'[g] = open[g]
    BY <1>7, <2>1 DEF Enqueue, TypeOK, Opened
  <2> QED
    BY <2>2 DEF Opened
<1>8. ASSUME NEW w \in Runs, EnqueueFails(w) PROVE Opened'
  BY <1>8 DEF EnqueueFails, rowVars, Opened
<1>9. ASSUME NEW w \in Runs, Reconcile(w) PROVE Opened'
  BY <1>9 DEF Reconcile, Opened
<1>10. ASSUME NEW w \in Runs, ReadLedger(w) PROVE Opened'
  BY <1>10 DEF ReadLedger, rowVars, Opened
<1>11. ASSUME NEW w \in Runs, NEW f \in Findings, PassOver(w, f) PROVE Opened'
  BY <1>11 DEF PassOver, rowVars, Opened
<1>12. ASSUME NEW w \in Runs, NEW f \in Findings, Reserve(w, f) PROVE Opened'
  BY <1>12 DEF Reserve, rowVars, Opened
<1>13. ASSUME NEW w \in Runs, Create(w) PROVE Opened'
  BY <1>13 DEF Create, rowVars, Opened
<1>14. ASSUME NEW w \in Runs, Undo(w) PROVE Opened'
  BY <1>14 DEF Undo, rowVars, Opened
<1>15. ASSUME NEW w \in Runs, Finalize(w) PROVE Opened'
  BY <1>15 DEF Finalize, rowVars, Opened
<1>16. ASSUME NEW w \in Runs, Trigger(w) PROVE Opened'
  BY <1>16 DEF Trigger, rowVars, Opened
<1>17. ASSUME NEW f \in Findings, RecordTickets(f) PROVE Opened'
  BY <1>17 DEF RecordTickets, rowVars, Opened
<1>18. ASSUME UNCHANGED vars PROVE Opened'
  BY <1>18 DEF vars, rowVars, Opened
<1> QED
  BY <1>1, <1>2, <1>3, <1>4, <1>5, <1>6, <1>7, <1>8, <1>9, <1>10, <1>11, <1>12,
     <1>13, <1>14, <1>15, <1>16, <1>17, <1>18 DEF Next, RunNext

LEMMA OwingStep ==
  TypeOK /\ Opened /\ Backing /\ Stays /\ Owing /\ [Next]_vars => Owing'
<1> SUFFICES ASSUME TypeOK, Opened, Backing, Stays, Owing, [Next]_vars PROVE Owing'
  OBVIOUS
<1>1. ASSUME Tick PROVE Owing'
  BY <1>1 DEF Tick, ticketVars, runVars, sightVars, readVars, Owing, Owe, Owed,
     Ticketed, Told, Handed
<1>2. ASSUME NEW w \in Runs, Admit(w) PROVE Owing'
  <2>1. \A v \in Runs \ {w} : Kept(v)
    BY <1>2 DEF Admit, Goes, Kept, readVars, TypeOK
  <2>2. (\A v \in Runs : missed[v] \subseteq missed'[v]) /\ asked \subseteq asked'
    BY <1>2 DEF Admit
  <2>4. Owe(w)'
    <3>1. step'[w] \in {"detect", "gone"} /\ hand'[w] = hand[w] /\ step[w] = "idle"
      BY <1>2 DEF Admit, Goes, TypeOK
    <3> QED
      BY <3>1 DEF Owing, Owe, Owed, After
  <2> QED
    BY <2>1, <2>2, <2>4, OweFrame
<1>3. ASSUME NEW w \in Runs, Fail(w) PROVE Owing'
  <2>1. \A v \in Runs \ {w} : Kept(v)
    BY <1>3 DEF Fail, Goes, Kept, readVars, sightVars, TypeOK
  <2>2. (\A v \in Runs : missed[v] \subseteq missed'[v]) /\ asked \subseteq asked'
    BY <1>3 DEF Fail
  <2>4. Owe(w)'
    <3>1. step'[w] = "gone"
      BY <1>3 DEF Fail, Goes, TypeOK
    <3> QED
      BY <3>1 DEF Owe, Owed, After
  <2> QED
    BY <2>1, <2>2, <2>4, OweFrame
<1>4. ASSUME NEW w \in Runs, Complete(w) PROVE Owing'
  <2>1. \A v \in Runs \ {w} : Kept(v)
    BY <1>4 DEF Complete, Goes, Kept, readVars, sightVars, TypeOK
  <2>2. (\A v \in Runs : missed[v] \subseteq missed'[v]) /\ asked \subseteq asked'
    BY <1>4 DEF Complete
  <2>4. Owe(w)'
    <3>1. /\ step[w] = "file" /\ step'[w] = "done" /\ todo[w] = {} /\ hand[w] # "none"
          /\ UNCHANGED <<seen, id, todo, read, was, hand, asked, missed>>
      BY <1>4 DEF Complete, Goes, TypeOK, sightVars, readVars
    <3>2. \A g \in seen[w] \ missed[w] : Owed(w, g)'
      BY <3>1, OwedKept DEF Owing, Owe, After
    <3> QED
      BY <3>1, <3>2 DEF Owe
  <2> QED
    BY <2>1, <2>2, <2>4, OweFrame
<1>5. ASSUME NEW w \in Runs, Crash(w) PROVE Owing'
  <2>1. \A v \in Runs \ {w} : Kept(v)
    BY <1>5 DEF Crash, Kept, readVars, sightVars, TypeOK
  <2>2. (\A v \in Runs : missed[v] \subseteq missed'[v]) /\ asked \subseteq asked'
    BY <1>5 DEF Crash
  <2>4. Owe(w)'
    <3>1. step'[w] = "gone"
      BY <1>5 DEF Crash, TypeOK
    <3> QED
      BY <3>1 DEF Owe, Owed, After
  <2> QED
    BY <2>1, <2>2, <2>4, OweFrame
<1>6. ASSUME NEW w \in Runs, Detect(w) PROVE Owing'
  <2>1. \A v \in Runs \ {w} : Kept(v)
    BY <1>6 DEF Detect, Goes, Kept, readVars, TypeOK
  <2>2. (\A v \in Runs : missed[v] \subseteq missed'[v]) /\ asked \subseteq asked'
    BY <1>6 DEF Detect
  <2>4. Owe(w)'
    <3>1. step[w] = "detect" /\ UNCHANGED hand
      BY <1>6 DEF Detect, Goes
    <3>2. \/ step'[w] = "enqueue" /\ todo'[w] = seen'[w]
          \/ step'[w] = "failing"
      BY <1>6 DEF Detect, Goes, TypeOK
    <3> QED
      BY <3>1, <3>2 DEF Owing, Owe, Owed, After
  <2> QED
    BY <2>1, <2>2, <2>4, OweFrame
<1>7. ASSUME NEW w \in Runs, NEW f \in Findings, Enqueue(w, f) PROVE Owing'
  <2>1. \A v \in Runs \ {w} : Kept(v)
    BY <1>7 DEF Enqueue, Kept, readVars, sightVars, TypeOK
  <2>2. (\A v \in Runs : missed[v] \subseteq missed'[v]) /\ asked \subseteq asked'
    BY <1>7 DEF Enqueue
  <2>4. Owe(w)'
    <3>1. step[w] = "enqueue" /\ UNCHANGED <<step, seen, hand, missed>>
      BY <1>7 DEF Enqueue, sightVars
    <3>2. id'[w][f] # 0 /\ todo'[w] = todo[w] \ {f}
      <4>1. rows[f] \in Nat
        BY DEF TypeOK
      <4> QED
        BY <1>7, <4>1 DEF Enqueue, TypeOK, Opened
    <3>3. \A g \in Findings : g # f => id'[w][g] = id[w][g]
      BY <1>7 DEF Enqueue, TypeOK
    <3>4. seen[w] \subseteq Findings
      BY DEF TypeOK
    <3> QED
      BY <3>1, <3>2, <3>3, <3>4 DEF Owing, Owe, Owed, After
  <2> QED
    BY <2>1, <2>2, <2>4, OweFrame
<1>8. ASSUME NEW w \in Runs, EnqueueFails(w) PROVE Owing'
  <2>1. \A v \in Runs \ {w} : Kept(v)
    BY <1>8 DEF EnqueueFails, Kept, readVars, sightVars, TypeOK
  <2>2. (\A v \in Runs : missed[v] \subseteq missed'[v]) /\ asked \subseteq asked'
    BY <1>8 DEF EnqueueFails, TypeOK
  <2>4. Owe(w)'
    <3>1. /\ step[w] = "enqueue" /\ UNCHANGED <<step, seen, hand>>
          /\ missed'[w] = missed[w] \cup seen[w]
      BY <1>8 DEF EnqueueFails, sightVars, TypeOK
    <3> QED
      BY <3>1 DEF Owing, Owe
  <2> QED
    BY <2>1, <2>2, <2>4, OweFrame
<1>9. ASSUME NEW w \in Runs, Reconcile(w) PROVE Owing'
  <2>1. \A v \in Runs \ {w} : Kept(v)
    BY <1>9 DEF Reconcile, Goes, Kept, readVars, sightVars, TypeOK
  <2>2. (\A v \in Runs : missed[v] \subseteq missed'[v]) /\ asked \subseteq asked'
    BY <1>9 DEF Reconcile
  <2>4. Owe(w)'
    <3>1. /\ step[w] = "enqueue" /\ step'[w] = "ledger" /\ todo[w] = {}
          /\ UNCHANGED <<seen, id, todo, hand, missed>>
      BY <1>9 DEF Reconcile, Goes, TypeOK, sightVars
    <3> QED
      BY <3>1 DEF Owing, Owe, Owed, After
  <2> QED
    BY <2>1, <2>2, <2>4, OweFrame
<1>10. ASSUME NEW w \in Runs, ReadLedger(w) PROVE Owing'
  <2>1. \A v \in Runs \ {w} : Kept(v)
    BY <1>10 DEF ReadLedger, Goes, Kept, sightVars, TypeOK
  <2>2. (\A v \in Runs : missed[v] \subseteq missed'[v]) /\ asked \subseteq asked'
    <3>1. missed' = missed \/ missed' = [missed EXCEPT ![w] = missed[w] \cup seen[w]]
      BY <1>10 DEF ReadLedger
    <3> QED
      BY <1>10, <3>1, MissMore DEF ReadLedger
  <2>4. Owe(w)'
    <3>1. /\ step[w] = "ledger" /\ step'[w] = "file"
          /\ UNCHANGED <<seen, id, at, cur, tickets, hand, stranded>>
          /\ todo'[w] = seen[w] \cap TicketRoute /\ hand[w] = "none"
      BY <1>10 DEF ReadLedger, Goes, TypeOK, ticketVars, sightVars, Owing, Owe
    <3>2. CASE missed' = [missed EXCEPT ![w] = missed[w] \cup seen[w]]
      BY <3>1, <3>2 DEF Owe, TypeOK
    <3>3. CASE /\ read' = [read EXCEPT ![w] = TRUE]
               /\ was' = [was EXCEPT ![w] = [f \in Findings |->
                     IF f \in Enqueued(w) THEN at[f][id[w][f]] ELSE Null]]
               /\ missed' = missed
      <4>1. \A f \in Findings : was'[w][f] # Null => Ticketed(w, f)
        BY <3>3 DEF TypeOK, Enqueued, Ticketed, Backing, Backed, RowId
      <4>2. \A f \in Findings : Ticketed(w, f) => Ticketed(w, f)'
        <5> SUFFICES ASSUME NEW f \in Findings, Ticketed(w, f) PROVE Ticketed(w, f)'
          OBVIOUS
        <5>1. PICK i : i = id[w][f]
          OBVIOUS
        <5>2. i \in RowId /\ Told(f, i) /\ i # 0
          BY <5>1 DEF Ticketed, TypeOK, RowId
        <5>3. Told(f, i)'
          <6>1. step[w] \notin Filing /\ \A v \in Runs \ {w} : step'[v] = step[v]
            BY <1>10, <3>1 DEF ReadLedger, Goes, TypeOK, Filing
          <6> QED
            BY <3>1, <5>2, <6>1 DEF Told
        <5> QED
          BY <3>1, <5>1, <5>2, <5>3 DEF Ticketed, Told
      <4>3. read'[w] /\ seen[w] \subseteq Findings
        BY <3>3 DEF TypeOK
      <4>4. \A f \in seen[w] \ missed[w] : id[w][f] # 0
        BY <3>1 DEF Owing, Owe, Owed, After
      <4> QED
        BY <3>1, <3>3, <4>1, <4>2, <4>3, <4>4 DEF Owe, Owed, After, Handed
    <3> QED
      BY <1>10, <3>2, <3>3 DEF ReadLedger
  <2> QED
    BY <2>1, <2>2, <2>4, OweFrame
<1>11. ASSUME NEW w \in Runs, NEW f \in Findings, PassOver(w, f) PROVE Owing'
  <2>1. \A v \in Runs \ {w} : Kept(v)
    BY <1>11 DEF PassOver, Kept, readVars, sightVars, TypeOK
  <2>2. (\A v \in Runs : missed[v] \subseteq missed'[v]) /\ asked \subseteq asked'
    BY <1>11 DEF PassOver
  <2>4. Owe(w)'
    <3>1. /\ step[w] = "file" /\ f \in todo[w]
          /\ UNCHANGED <<step, seen, id, read, was, hand, asked, missed>>
          /\ todo'[w] = todo[w] \ {f} /\ ~CanFile(w, f)
      BY <1>11 DEF PassOver, TypeOK, sightVars, readVars
    <3>2. f \notin missed[w] => Ticketed(w, f)
      BY <3>1 DEF Owing, Owe, Owed, After, CanFile, Enqueued, Eligible
    <3>3. \A g \in seen[w] \ missed[w] : Owed(w, g)'
      BY <3>1, <3>2, OwedKept DEF Owing, Owe, After
    <3> QED
      BY <3>1, <3>3 DEF Owing, Owe
  <2> QED
    BY <2>1, <2>2, <2>4, OweFrame
<1>12. ASSUME NEW w \in Runs, NEW f \in Findings, Reserve(w, f) PROVE Owing'
  <2>1. \A v \in Runs \ {w} : Kept(v)
    BY <1>12 DEF Reserve, Goes, Kept, readVars, sightVars, TypeOK
  <2>2. (\A v \in Runs : missed[v] \subseteq missed'[v]) /\ asked \subseteq asked'
    <3>1. missed' = missed \/ missed' = [missed EXCEPT ![w] = missed[w] \cup {f}]
      BY <1>12 DEF Reserve
    <3> QED
      BY <1>12, <3>1, MissMore DEF Reserve
  <2>4. Owe(w)'
    <3>1. /\ step[w] = "file" /\ step'[w] \in {"file", "create"}
          /\ UNCHANGED <<seen, id, read, was, hand, asked>>
          /\ f \in todo[w] /\ todo'[w] = todo[w] \ {f}
          /\ id[w][f] \in RowId
      BY <1>12 DEF Reserve, Goes, TypeOK, sightVars, readVars, CanFile, Enqueued, RowId
    <3>2. f \in missed'[w] \/ Ticketed(w, f) \/ Ticketed(w, f)'
      <4>1. CASE Goes(w, "file", "create")
        <5>1. step'[w] = "create" /\ cur'[w] = f
          BY <1>12, <4>1 DEF Reserve, Goes, TypeOK
        <5> QED
          BY <3>1, <5>1 DEF Ticketed, Told, Filing, RowId
      <4>2. CASE at[f][id[w][f]] # was[w][f] /\ UNCHANGED missed
        <5>1. f \notin missed[w] /\ was[w][f] # Null => Ticketed(w, f)
          BY <3>1 DEF Owing, Owe, Owed, After
        <5>2. was[w][f] = Null => Ticketed(w, f)
          BY <3>1, <4>2 DEF Ticketed, RowId, Backing, Backed
        <5> QED
          BY <4>2, <5>1, <5>2
      <4>3. CASE missed' = [missed EXCEPT ![w] = missed[w] \cup {f}]
        BY <4>3 DEF TypeOK
      <4> QED
        BY <1>12, <4>1, <4>2, <4>3 DEF Reserve
    <3>3. \A g \in seen[w] \ missed'[w] : Owed(w, g)'
      BY <2>2, <3>1, <3>2, OwedKept DEF Owing, Owe, After
    <3> QED
      BY <3>1, <3>3 DEF Owing, Owe
  <2> QED
    BY <2>1, <2>2, <2>4, OweFrame
<1>13. ASSUME NEW w \in Runs, Create(w) PROVE Owing'
  <2>1. \A v \in Runs \ {w} : Kept(v)
    BY <1>13 DEF Create, Goes, Kept, readVars, sightVars, TypeOK
  <2>2. (\A v \in Runs : missed[v] \subseteq missed'[v]) /\ asked \subseteq asked'
    BY <1>13 DEF Create
  <2>4. Owe(w)'
    <3>1. /\ step[w] = "create" /\ step'[w] \in {"finalize", "undo"}
          /\ UNCHANGED <<seen, id, todo, read, was, hand, asked, missed>>
      BY <1>13 DEF Create, Goes, TypeOK, sightVars, readVars
    <3>2. \A g \in seen[w] \ missed'[w] : Owed(w, g)'
      BY <2>2, <3>1, OwedKept DEF Owing, Owe, After
    <3> QED
      BY <3>1, <3>2 DEF Owing, Owe
  <2> QED
    BY <2>1, <2>2, <2>4, OweFrame
<1>14. ASSUME NEW w \in Runs, Undo(w) PROVE Owing'
  <2>1. \A v \in Runs \ {w} : Kept(v)
    BY <1>14 DEF Undo, Goes, Kept, readVars, sightVars, TypeOK
  <2>2. (\A v \in Runs : missed[v] \subseteq missed'[v]) /\ asked \subseteq asked'
    <3>1. \/ missed' = missed
          \/ missed' = [v \in Runs |-> IF read[v] /\ id[v][cur[w]] = id[w][cur[w]]
                                      THEN missed[v] \cup {cur[w]} ELSE missed[v]]
      BY <1>14 DEF Undo
    <3> QED
      BY <1>14, <3>1 DEF Undo
  <2>4. Owe(w)'
    <3>1. /\ step[w] = "undo" /\ step'[w] = "file"
          /\ UNCHANGED <<seen, id, todo, read, was, hand, asked>>
      BY <1>14 DEF Undo, Goes, TypeOK, sightVars, readVars
    <3>2. \A g \in seen[w] \ missed'[w] : Owed(w, g)'
      BY <2>2, <3>1, OwedKept DEF Owing, Owe, After
    <3> QED
      BY <3>1, <3>2 DEF Owing, Owe
  <2> QED
    BY <2>1, <2>2, <2>4, OweFrame
<1>15. ASSUME NEW w \in Runs, Finalize(w) PROVE Owing'
  <2>1. \A v \in Runs \ {w} : Kept(v)
    BY <1>15 DEF Finalize, Goes, Kept, readVars, sightVars, TypeOK
  <2>2. (\A v \in Runs : missed[v] \subseteq missed'[v]) /\ asked \subseteq asked'
    BY <1>15 DEF Finalize
  <2>4. Owe(w)'
    <3>1. /\ step[w] = "finalize" /\ step'[w] = "file"
          /\ UNCHANGED <<seen, id, todo, read, was, hand, asked>>
      BY <1>15 DEF Finalize, Goes, TypeOK, sightVars, readVars
    <3>2. \A g \in seen[w] \ missed'[w] : Owed(w, g)'
      BY <2>2, <3>1, OwedKept DEF Owing, Owe, After
    <3> QED
      BY <3>1, <3>2 DEF Owing, Owe
  <2> QED
    BY <2>1, <2>2, <2>4, OweFrame
<1>16. ASSUME NEW w \in Runs, Trigger(w) PROVE Owing'
  <2>1. \A v \in Runs \ {w} : Kept(v)
    BY <1>16 DEF Trigger, Kept, readVars, sightVars, TypeOK
  <2>2. (\A v \in Runs : missed[v] \subseteq missed'[v]) /\ asked \subseteq asked'
    BY <1>16 DEF Trigger
  <2>4. Owe(w)'
    <3>1. /\ step[w] = "file" /\ todo[w] = {} /\ hand[w] = "none"
          /\ UNCHANGED <<step, seen, id, read, was, missed>>
      BY <1>16 DEF Trigger, TypeOK, sightVars, readVars
    <3>2. /\ \A g \in seen[w] \ missed[w] : Owed(w, g) /\ g \in Findings
          /\ seen[w] \subseteq Findings
      BY DEF Owing, Owe, TypeOK
    <3>3. \A g \in seen[w] \ missed[w] : Ticketed(w, g) => Ticketed(w, g)'
      BY <3>1, <3>2, TicketStays DEF Owed, After
    <3>4. \A g \in seen[w] \ missed[w] : g \in AutoFix =>
             Ticketed(w, g) \/ g \in todo'[w] \/ Handed(w, g)'
      <4>1. \A g \in Findings : wasLink[w][g] => Ticketed(w, g)
        BY DEF Backing, LinkedBy, Ticketed, Told, RowId
      <4>2. \/ /\ hand'[w] = "sent"
               /\ asked' = asked \cup {g \in seen[w] \cap AutoFix : ~wasLink[w][g]}
            \/ todo'[w] = seen[w] \cap AutoFix
            \/ hand'[w] = "unsure"
        BY <1>16 DEF Trigger, TypeOK
      <4> QED
        BY <3>2, <4>1, <4>2 DEF Handed
    <3>5. \A g \in seen[w] \ missed[w] : g \notin AutoFix =>
             g \notin TicketRoute \/ Ticketed(w, g)
      BY <3>1, <3>2 DEF Owed, After, Handed
    <3>6. todo'[w] \subseteq seen[w]
      BY <1>16, <3>1 DEF Trigger, TypeOK
    <3> QED
      BY <3>1, <3>2, <3>3, <3>4, <3>5, <3>6 DEF Owe, Owed, After
  <2> QED
    BY <2>1, <2>2, <2>4, OweFrame
<1>17. ASSUME NEW f \in Findings, RecordTickets(f) PROVE Owing'
  <2>1. UNCHANGED <<step, seen, id, todo, read, was, cur, hand, asked, missed>>
    BY <1>17 DEF RecordTickets, runVars, sightVars, readVars
  <2>2. \A v \in Runs : Kept(v)
    BY <2>1 DEF Kept
  <2> QED
    BY <2>1, <2>2, OweKept DEF Owing
<1>18. ASSUME UNCHANGED vars PROVE Owing'
  BY <1>18 DEF vars, ticketVars, runVars, sightVars, readVars, Owing, Owe, Owed,
     Ticketed, Told, Handed
<1> QED
  BY <1>1, <1>2, <1>3, <1>4, <1>5, <1>6, <1>7, <1>8, <1>9, <1>10, <1>11, <1>12,
     <1>13, <1>14, <1>15, <1>16, <1>17, <1>18 DEF Next, RunNext

\* A run that came to its end leaves no finding untold: unless a call for it
\* failed, or its row is stranded, each has a ticket or the routine was asked.
THEOREM NoneIsForgotten == Spec => []NoneForgotten
<1>1. TypeOK /\ Owing => NoneForgotten
  <2> SUFFICES ASSUME TypeOK, Owing, NEW w \in Runs, step[w] = "done",
                      NEW f \in (seen[w] \cap (TicketRoute \cup AutoFix)) \ missed[w]
               PROVE  \/ Told(f, id[w][f])
                      \/ f \in AutoFix /\ hand[w] = "sent" /\ f \in asked
                      \/ f \in AutoFix /\ hand[w] = "unsure"
    BY DEF NoneForgotten
  <2>1. Owed(w, f) /\ todo[w] = {} /\ hand[w] # "none"
    BY DEF Owing, Owe
  <2> QED
    BY <2>1 DEF Owed, After, Ticketed, Handed
<1>2. Init => Opened
  BY DEF Init, Opened
<1> QED
  BY <1>1, <1>2, TypeInit, ReserveInit, BackInit, OwingInit, TypeStep, ReserveStep,
     BackStep, OpenedStep, OwingStep, PTL DEF Spec

=============================================================================
