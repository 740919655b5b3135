------------------------------ MODULE HealthRun ------------------------------
(***************************************************************************)
(* The nightly run of the health agent: its ledger row, the findings it    *)
(* keeps in health_fix_queue, the tickets it files for them in Linear, and *)
(* the repair request that hands the rest to the ops routine, whose own    *)
(* tickets come back through the relay.  Several starts of the process may *)
(* work at once, on one date or on two, and meet in the two tables.        *)
(***************************************************************************)
EXTENDS Integers, Sequences

CONSTANTS
  Runs,         \* starts of the process, each with a fresh run id
  Findings,     \* fingerprints
  TicketRoute,  \* those that are ticketed
  AutoFix,      \* those sent to the repair routine
  Nobody,       \* the ledger has no row for the date
  Faults,       \* which failures may happen: "db", "linear", "slack", "crash"
  FollowUp,     \* HEALTH_TICKET_FOLLOW_UP_DAYS
  MaxDay,       \* bound of the calendar
  MaxRows       \* bound: rows of one fingerprint

ASSUME HealthAssumption ==
  /\ TicketRoute \subseteq Findings /\ AutoFix \subseteq Findings
  /\ Findings # {} /\ TicketRoute \cap AutoFix = {}
  /\ Nobody \notin Runs
  /\ Faults \subseteq {"db", "linear", "slack", "crash"}
  /\ FollowUp \in Nat /\ MaxDay \in Nat /\ MaxRows \in Nat

VARIABLES
  day,                    \* the calendar
  status, owner,          \* health_agent_run_ledger, for each date
  rows, open,             \* rows of a fingerprint; is the newest one active
  at, link,               \* ticketed_at and linear_identifier of each row
  tickets,                \* days on which a ticket of the row became known
  step, date,             \* where a run is, and its logical date
  seen,                   \* what it observed
  id, todo,               \* the rows it enqueued; findings of the loop it is in
  read, was, wasLink,     \* the ticket ledger as it read it,
  clock, cur, hand,       \* when; the finding it files; the repair request
  asked,                  \* findings the routine has to ticket
  missed,                 \* of each run: findings for which a call failed
  stranded                \* rows left reserved by a run that filed no ticket

ledgerVars == <<status, owner>>
rowVars == <<rows, open>>
ticketVars == <<at, link, tickets>>
sightVars == <<date, seen>>
readVars == <<read, was, wasLink, clock>>
runVars == <<step, sightVars, id, todo, readVars, cur, hand>>
vars == <<day, ledgerVars, rowVars, ticketVars, runVars, asked, missed,
          stranded>>

-----------------------------------------------------------------------------
Days == 0..MaxDay
RowId == 1..MaxRows
Null == -1     \* ticketed_at is null

Step == {"idle", "detect", "enqueue", "ledger", "file", "create", "finalize",
         "undo", "failing", "done", "gone"}

\* A ticket is being filed: the row is reserved.
Holding == {"create", "finalize", "undo"}
\* It is not known that Linear has it.
Filing == {"create", "undo"}

TypeOK ==
  /\ day \in Days
  /\ status \in [Days -> {"free", "claimed", "completed", "failed"}]
  /\ owner \in [Days -> Runs \cup {Nobody}]
  /\ rows \in [Findings -> 0..MaxRows]
  /\ open \in [Findings -> BOOLEAN]
  /\ at \in [Findings -> [RowId -> Days \cup {Null}]]
  /\ link \in [Findings -> [RowId -> BOOLEAN]]
  /\ tickets \in [Findings -> [RowId -> Seq(Days)]]
  /\ step \in [Runs -> Step]
  /\ date \in [Runs -> Days]
  /\ seen \in [Runs -> SUBSET Findings]
  /\ id \in [Runs -> [Findings -> 0..MaxRows]]
  /\ todo \in [Runs -> SUBSET Findings]
  /\ read \in [Runs -> BOOLEAN]
  /\ was \in [Runs -> [Findings -> Days \cup {Null}]]
  /\ wasLink \in [Runs -> [Findings -> BOOLEAN]]
  /\ clock \in [Runs -> Days]
  /\ cur \in [Runs -> Findings]
  /\ hand \in [Runs -> {"none", "sent", "unsure", "refused"}]
  /\ asked \in SUBSET Findings
  /\ missed \in [Runs -> SUBSET Findings]
  /\ stranded \in [Findings -> SUBSET (0..MaxRows)]

Init ==
  /\ day = 0
  /\ status = [d \in Days |-> "free"]
  /\ owner = [d \in Days |-> Nobody]
  /\ rows = [f \in Findings |-> 0]
  /\ open = [f \in Findings |-> FALSE]
  /\ at = [f \in Findings |-> [i \in RowId |-> Null]]
  /\ link = [f \in Findings |-> [i \in RowId |-> FALSE]]
  /\ tickets = [f \in Findings |-> [i \in RowId |-> <<>>]]
  /\ step = [w \in Runs |-> "idle"]
  /\ date = [w \in Runs |-> 0]
  /\ seen = [w \in Runs |-> {}]
  /\ id = [w \in Runs |-> [f \in Findings |-> 0]]
  /\ todo = [w \in Runs |-> {}]
  /\ read = [w \in Runs |-> FALSE]
  /\ was = [w \in Runs |-> [f \in Findings |-> Null]]
  /\ wasLink = [w \in Runs |-> [f \in Findings |-> FALSE]]
  /\ clock = [w \in Runs |-> 0]
  /\ cur = [w \in Runs |-> CHOOSE f \in Findings : TRUE]
  /\ hand = [w \in Runs |-> "none"]
  /\ asked = {}
  /\ missed = [w \in Runs |-> {}]
  /\ stranded = [f \in Findings |-> {}]

\* The calls that file one ticket have time limits of seconds.
Tick ==
  /\ day < MaxDay
  /\ \A w \in Runs : step[w] \notin Holding
  /\ day' = day + 1
  /\ UNCHANGED <<ledgerVars, rowVars, ticketVars, runVars, asked, missed,
                 stranded>>

Goes(w, from, to) == step[w] = from /\ step' = [step EXCEPT ![w] = to]

Strand(w) == [stranded EXCEPT ![cur[w]] = @ \cup {id[w][cur[w]]}]

-----------------------------------------------------------------------------
(* The ledger of runs *)

\* Mutant: the update of the conflict takes a claimed row as well.
ClaimableAgain(d) == status[d] # "completed"

\* claim_health_agent_run: INSERT ... ON CONFLICT DO UPDATE WHERE failed.  (The
\* other branch needs the same run id again, and the process draws a new one.)
Claimable(d) == status[d] \in {"free", "failed"}

Admit(w) ==
  /\ date' = [date EXCEPT ![w] = day]
  /\ \/ /\ Claimable(day)
        /\ Goes(w, "idle", "detect")
        /\ status' = [status EXCEPT ![day] = "claimed"]
        /\ owner' = [owner EXCEPT ![day] = w]
     \/ /\ ~Claimable(day) \/ "db" \in Faults
        /\ Goes(w, "idle", "gone")
        /\ UNCHANGED ledgerVars
  /\ UNCHANGED <<day, rowVars, ticketVars, seen, id, todo, readVars, cur,
                 hand, asked, missed, stranded>>

\* Mutant: a status the table does not have.
EndUnknown(w, to) ==
  status' = [status EXCEPT ![date[w]] =
               IF owner[date[w]] = w /\ @ = "claimed" THEN "ended" ELSE @]

\* complete_health_agent_run and fail_health_agent_run: WHERE the run is this
\* one and claimed.
End(w, to) ==
  status' = [status EXCEPT ![date[w]] =
               IF owner[date[w]] = w /\ @ = "claimed" THEN to ELSE @]

\* The catch of executeRun: failRun may fail too.
Fail(w) ==
  /\ Goes(w, "failing", "gone")
  /\ End(w, "failed") \/ ("db" \in Faults /\ UNCHANGED status)
  /\ UNCHANGED <<day, owner, rowVars, ticketVars, sightVars, id, todo, readVars,
                 cur, hand, asked, missed, stranded>>

\* An error of completeRun is logged.
Complete(w) ==
  /\ Goes(w, "file", "done")
  /\ todo[w] = {} /\ hand[w] # "none"
  /\ End(w, "completed") \/ ("db" \in Faults /\ UNCHANGED status)
  /\ UNCHANGED <<day, owner, rowVars, ticketVars, sightVars, id, todo, readVars,
                 cur, hand, asked, missed, stranded>>

\* A run that dies while it files leaves the row reserved.  Nobody takes it up:
\* without an identifier it is not followed up, and ticketed_at is not null.
Crash(w) ==
  /\ "crash" \in Faults
  /\ step[w] \notin {"idle", "done", "gone"}
  /\ step' = [step EXCEPT ![w] = "gone"]
  /\ stranded' = IF step[w] \in Filing THEN Strand(w) ELSE stranded
  /\ UNCHANGED <<day, ledgerVars, rowVars, ticketVars, sightVars, id, todo,
                 readVars, cur, hand, asked, missed>>

-----------------------------------------------------------------------------
(* Findings *)

\* The detectors and the quality jobs.  The read of the active Sentry rows may
\* throw.
Detect(w) ==
  /\ \/ /\ Goes(w, "detect", "enqueue")
        /\ \E O \in SUBSET Findings :
             /\ seen' = [seen EXCEPT ![w] = O]
             /\ todo' = [todo EXCEPT ![w] = O]
     \/ /\ "db" \in Faults /\ Goes(w, "detect", "failing")
        /\ UNCHANGED <<seen, todo>>
  /\ UNCHANGED <<day, ledgerVars, rowVars, ticketVars, date, id, readVars, cur,
                 hand, asked, missed, stranded>>

\* enqueue_health_fix: the active row of the fingerprint, or a new one
Enqueue(w, f) ==
  /\ step[w] = "enqueue" /\ f \in todo[w]
  /\ rows[f] < MaxRows
  /\ LET r == IF open[f] THEN rows[f] ELSE rows[f] + 1 IN
       /\ rows' = [rows EXCEPT ![f] = r]
       /\ id' = [id EXCEPT ![w][f] = r]
  /\ open' = [open EXCEPT ![f] = TRUE]
  /\ todo' = [todo EXCEPT ![w] = @ \ {f}]
  /\ UNCHANGED <<day, ledgerVars, ticketVars, step, sightVars, readVars, cur,
                 hand, asked, missed, stranded>>

\* One call of the loop throws: the ids of the earlier ones are lost with it.
EnqueueFails(w) ==
  /\ "db" \in Faults
  /\ step[w] = "enqueue" /\ todo[w] # {}
  /\ id' = [id EXCEPT ![w] = [f \in Findings |-> 0]]
  /\ todo' = [todo EXCEPT ![w] = {}]
  /\ missed' = [missed EXCEPT ![w] = @ \cup seen[w]]
  /\ UNCHANGED <<day, ledgerVars, rowVars, ticketVars, step, sightVars, readVars,
                 cur, hand, asked, stranded>>

\* reconcile_health_fix_lifecycle closes what the completed sources, those all
\* of whose detectors succeeded, no longer see; C are their findings.  It runs
\* although the enqueue failed, and its own error is logged.
Reconcile(w) ==
  /\ Goes(w, "enqueue", "ledger")
  /\ todo[w] = {}
  /\ \/ \E C \in SUBSET Findings :
          open' = [f \in Findings |-> open[f] /\ (f \notin C \/ f \in seen[w])]
     \/ "db" \in Faults /\ UNCHANGED open
  /\ UNCHANGED <<day, ledgerVars, rows, ticketVars, sightVars, id, todo, readVars,
                 cur, hand, asked, missed, stranded>>

-----------------------------------------------------------------------------
(* Tickets *)

Enqueued(w) == {f \in Findings : id[w][f] # 0}

\* The ticket ledger, read once; then the findings of the ticket route.
ReadLedger(w) ==
  /\ Goes(w, "ledger", "file")
  /\ todo' = [todo EXCEPT ![w] = seen[w] \cap TicketRoute]
  /\ clock' = [clock EXCEPT ![w] = day]
  /\ \/ /\ Enqueued(w) # {}
        /\ read' = [read EXCEPT ![w] = TRUE]
        /\ was' = [was EXCEPT ![w] = [f \in Findings |->
                     IF f \in Enqueued(w) THEN at[f][id[w][f]] ELSE Null]]
        /\ wasLink' = [wasLink EXCEPT ![w] = [f \in Findings |->
                     f \in Enqueued(w) /\ link[f][id[w][f]]]]
        /\ missed' = missed
     \/ /\ Enqueued(w) = {} \/ "db" \in Faults
        /\ missed' = [missed EXCEPT ![w] = @ \cup seen[w]]
        /\ UNCHANGED <<read, was, wasLink>>
  /\ UNCHANGED <<day, ledgerVars, rowVars, ticketVars, sightVars, id, cur, hand,
                 asked, stranded>>

\* isTicketEligible
Eligible(w, f) ==
  \/ was[w][f] = Null
  \/ wasLink[w][f] /\ clock[w] - was[w][f] > FollowUp

CanFile(w, f) == read[w] /\ f \in Enqueued(w) /\ Eligible(w, f)

PassOver(w, f) ==
  /\ step[w] = "file" /\ f \in todo[w]
  /\ ~CanFile(w, f)
  /\ todo' = [todo EXCEPT ![w] = @ \ {f}]
  /\ UNCHANGED <<day, ledgerVars, rowVars, ticketVars, step, sightVars, id,
                 readVars, cur, hand, asked, missed, stranded>>

\* Mutant: the update is not conditional on what was read.
ReserveAnyway(w, f) ==
  LET r == id[w][f] IN
  /\ f \in todo[w]
  /\ CanFile(w, f)
  /\ todo' = [todo EXCEPT ![w] = @ \ {f}]
  /\ cur' = [cur EXCEPT ![w] = f]
  /\ Goes(w, "file", "create")
  /\ at' = [at EXCEPT ![f][r] = day]
  /\ UNCHANGED <<day, ledgerVars, rowVars, link, tickets, sightVars, id, readVars,
                 hand, asked, missed, stranded>>

\* reserveTicket: UPDATE ... WHERE ticketed_at is what was read (null, or the
\* earlier ticket).  It throws when no row matches.
Reserve(w, f) ==
  LET r == id[w][f] IN
  /\ f \in todo[w]
  /\ CanFile(w, f)
  /\ todo' = [todo EXCEPT ![w] = @ \ {f}]
  /\ cur' = [cur EXCEPT ![w] = f]
  /\ \/ /\ at[f][r] = was[w][f]
        /\ Goes(w, "file", "create")
        /\ at' = [at EXCEPT ![f][r] = day]
        /\ missed' = missed
     \/ /\ at[f][r] # was[w][f] /\ Goes(w, "file", "file")
        /\ UNCHANGED <<at, missed>>
     \/ /\ "db" \in Faults /\ Goes(w, "file", "file")
        /\ missed' = [missed EXCEPT ![w] = @ \cup {f}]
        /\ UNCHANGED at
  /\ UNCHANGED <<day, ledgerVars, rowVars, link, tickets, sightVars, id, readVars,
                 hand, asked, stranded>>

\* The call to Linear.  When it throws nobody here knows whether the ticket was
\* created, and the reservation is undone.
Create(w) ==
  LET f == cur[w]  r == id[w][f] IN
  /\ \/ /\ Goes(w, "create", "finalize")
        /\ tickets' = [tickets EXCEPT ![f][r] = Append(@, day)]
     \/ /\ "linear" \in Faults /\ Goes(w, "create", "undo")
        /\ UNCHANGED tickets
  /\ UNCHANGED <<day, ledgerVars, rowVars, at, link, sightVars, id, todo, readVars,
                 cur, hand, asked, missed, stranded>>

\* Mutant: the columns are cleared for a follow-up too.
UndoClears(w) ==
  LET f == cur[w]  r == id[w][f] IN
  /\ Goes(w, "undo", "file")
  /\ at' = [at EXCEPT ![f][r] = Null]
  /\ link' = [link EXCEPT ![f][r] = FALSE]
  /\ UNCHANGED <<day, ledgerVars, rowVars, tickets, sightVars, id, todo, readVars,
                 cur, hand, asked, missed, stranded>>

\* undoReservation restores the earlier ticket of a follow-up, or clears both
\* columns; an error is swallowed, and the row stays reserved.  The call failed
\* for every run that has read the row: one of them may have relied on this one.
Undo(w) ==
  LET f == cur[w]  r == id[w][f] IN
  /\ Goes(w, "undo", "file")
  /\ \/ /\ at' = [at EXCEPT ![f][r] = was[w][f]]
        /\ link' = [link EXCEPT ![f][r] = was[w][f] # Null /\ wasLink[w][f]]
        /\ missed' = [v \in Runs |-> IF read[v] /\ id[v][f] = r
                                    THEN missed[v] \cup {f} ELSE missed[v]]
        /\ UNCHANGED stranded
     \/ /\ "db" \in Faults
        /\ stranded' = Strand(w)
        /\ UNCHANGED <<at, link, missed>>
  /\ UNCHANGED <<day, ledgerVars, rowVars, tickets, sightVars, id, todo, readVars,
                 cur, hand, asked>>

\* finalizeTickets; when it fails the reservation stays, the ticket exists.
Finalize(w) ==
  LET f == cur[w]  r == id[w][f] IN
  /\ Goes(w, "finalize", "file")
  /\ \/ /\ at' = [at EXCEPT ![f][r] = day]
        /\ link' = [link EXCEPT ![f][r] = TRUE]
     \/ "db" \in Faults /\ UNCHANGED <<at, link>>
  /\ UNCHANGED <<day, ledgerVars, rowVars, tickets, sightVars, id, todo, readVars,
                 cur, hand, asked, missed, stranded>>

-----------------------------------------------------------------------------
(* The repair request, and the tickets the routine files *)

\* Mutant: a post that Slack rejected is only logged.
TriggerLogs(w) ==
  LET A == seen[w] \cap AutoFix
      new == asked \cup {f \in A : ~wasLink[w][f]} IN
  /\ step[w] = "file" /\ todo[w] = {} /\ hand[w] = "none"
  /\ \/ hand' = [hand EXCEPT ![w] = "sent"] /\ asked' = new
     \/ hand' = [hand EXCEPT ![w] = "refused"] /\ UNCHANGED asked
  /\ UNCHANGED <<day, ledgerVars, rowVars, ticketVars, step, sightVars, id, todo,
                 readVars, cur, missed, stranded>>

\* The request names the tickets the ledger knew; the routine files the others.
\* Rejected by Slack, or without a trigger, the run files them itself; after
\* any other error it does not know whether the routine was asked.
Trigger(w) ==
  LET A == seen[w] \cap AutoFix
      new == asked \cup {f \in A : ~wasLink[w][f]} IN
  /\ step[w] = "file" /\ todo[w] = {} /\ hand[w] = "none"
  /\ \/ /\ hand' = [hand EXCEPT ![w] = "sent"]
        /\ asked' = new
        /\ UNCHANGED todo
     \/ /\ A # {} /\ "slack" \in Faults
        /\ hand' = [hand EXCEPT ![w] = "refused"]
        /\ todo' = [todo EXCEPT ![w] = A]
        /\ UNCHANGED asked
     \/ /\ A # {} /\ "slack" \in Faults
        /\ hand' = [hand EXCEPT ![w] = "unsure"]
        /\ asked' \in {asked, new}
        /\ UNCHANGED todo
  /\ UNCHANGED <<day, ledgerVars, rowVars, ticketVars, step, sightVars, id,
                 readVars, cur, missed, stranded>>

\* recordTickets: UPDATE the active row WHERE ticketed_at is null.  The routine
\* may report late, and again after an answer it did not get.
RecordTickets(f) ==
  LET r == rows[f] IN
  /\ f \in asked
  /\ open[f] /\ at[f][r] = Null
  /\ at' = [at EXCEPT ![f][r] = day]
  /\ link' = [link EXCEPT ![f][r] = TRUE]
  /\ tickets' = [tickets EXCEPT ![f][r] = Append(@, day)]
  /\ UNCHANGED <<day, ledgerVars, rowVars, runVars, asked, missed, stranded>>

-----------------------------------------------------------------------------
RunNext(w) ==
  \/ Admit(w) \/ Detect(w) \/ EnqueueFails(w) \/ Reconcile(w) \/ ReadLedger(w)
  \/ Create(w) \/ Undo(w) \/ Finalize(w) \/ Trigger(w)
  \/ Complete(w) \/ Fail(w) \/ Crash(w)
  \/ \E f \in Findings : Enqueue(w, f) \/ PassOver(w, f) \/ Reserve(w, f)

Next ==
  \/ Tick
  \/ \E w \in Runs : RunNext(w)
  \/ \E f \in Findings : RecordTickets(f)

Spec == Init /\ [][Next]_vars

-----------------------------------------------------------------------------
Working(w) == step[w] \notin {"idle", "done", "gone"}

\* However often the process is started, one run works on a date.
OneRunPerDay ==
  \A v, w \in Runs : Working(v) /\ Working(w) /\ date[v] = date[w] => v = w

\* Two tickets of one row that the agent knows of are more than the follow-up
\* period apart, whoever filed them, whatever failed or died in between.
TicketsApart ==
  \A f \in Findings, i \in RowId : LET s == tickets[f][i] IN
    \A k \in 1..(Len(s) - 1) : s[k + 1] - s[k] > FollowUp

\* A row that was linked to its ticket keeps a link, also when a follow-up of
\* that ticket fails half way.
LinkKept ==
  [][\A f \in Findings, i \in RowId : link[f][i] => link'[f][i]]_vars

\* Of row r a ticket became known, or a run is about to file one; or it is
\* stranded.
Told(f, r) ==
  \/ tickets[f][r] # <<>>
  \/ \E v \in Runs : step[v] \in Filing /\ cur[v] = f /\ id[v][f] = r
  \/ r \in stranded[f]

\* A run that came to its end leaves no finding untold: unless a call for it
\* failed, each has a ticket (or another run is just filing it), or the routine
\* was asked for one.  The exception is a row that a run left reserved, because
\* it died or could not undo the reservation: no later run files a ticket for
\* it, and the routine's is not recorded.
NoneForgotten ==
  \A w \in Runs : step[w] = "done" =>
    \A f \in (seen[w] \cap (TicketRoute \cup AutoFix)) \ missed[w] :
      \/ Told(f, id[w][f])
      \/ f \in AutoFix /\ hand[w] = "sent" /\ f \in asked
      \/ f \in AutoFix /\ hand[w] = "unsure"
=============================================================================
