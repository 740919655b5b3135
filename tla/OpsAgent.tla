------------------------------ MODULE OpsAgent ------------------------------
(***************************************************************************)
(* The ops agent: one row of ops_agent_requests per Slack message, the     *)
(* handlers that move its status, and the slot of the end-to-end run that  *)
(* a confirmed proposal may dispatch.  The processes meet only in the row: *)
(* runOpsAgent (one per request, started by the events route), the handler *)
(* of each button press, the execution a confirmation starts, the timer of *)
(* the stale check, and the runs of the e2e agent, in another deployment.  *)
(* Every statement is one action; the clock may move between any two.      *)
(***************************************************************************)
EXTENDS Naturals, FiniteSets

CONSTANTS
  Requests,       \* Slack messages, one row each
  SystemBots,     \* those posted by another agent, with a repair request
  Clicks,         \* presses of Confirm or Cancel
  Agents,         \* runs of the e2e agent
  Nobody,         \* dispatch_run_id is null
  Kinds,          \* kinds of proposal the model may make
  Faults,         \* which failures may happen: "db", "lost", "restart"
  DailyCap,       \* OPS_AGENT_DAILY_CAP
  MaxTime,        \* bound of the clock
  SweepAge,       \* five minutes in expireStale
  ConfirmWindow,  \* ten minutes in runOpsAgent
  PendingLease, RunningLease, StaleCheck   \* dispatches.ts

ASSUME OpsAssumption ==
  /\ IsFiniteSet(Requests) /\ Requests # {}
  /\ SystemBots \subseteq Requests
  /\ Nobody \notin Agents
  /\ Kinds \subseteq {"brand", "workflow"}
  /\ Faults \subseteq {"db", "lost", "restart"}
  /\ {DailyCap, MaxTime, SweepAge, ConfirmWindow, PendingLease, RunningLease,
      StaleCheck} \subseteq Nat
  /\ StaleCheck < PendingLease \/ Agents = {}

VARIABLES
  now,       \* the clock
  st,        \* status, "none" before the row is inserted
  born,      \* updated_at: set by the insert, by no later statement
  expires,   \* expires_at
  kind,      \* proposal
  sent, claimed, owner, closed,   \* the dispatch_* columns
  run,       \* where runOpsAgent is, for each request
  click,     \* the handler of each button press
  exec,      \* where the execution of the proposal is
  timer,     \* when the stale check of a dispatch wakes
  agent,     \* the runs of the e2e agent
  acts,      \* times the request took effect outside this table
  notice     \* the requester was told the e2e run did not start

rowVars == <<st, born, expires, kind>>
slotVars == <<sent, claimed, owner, closed>>
procVars == <<run, click, exec, timer, agent>>
vars == <<now, rowVars, slotVars, procVars, acts, notice>>

-----------------------------------------------------------------------------
Status == {"none", "received", "running", "awaiting_confirm", "executed",
           "answered", "refused", "failed", "expired", "cancelled"}
Final == {"executed", "answered", "refused", "failed", "expired", "cancelled"}

\* A null timestamp, later than every time the model reaches.
Never == MaxTime + ConfirmWindow + StaleCheck + 1

\* What a handler that has not begun holds.
SomeRequest == CHOOSE r \in Requests : TRUE

RunStep == {"idle", "count", "queued", "sweep", "start", "graph", "repair",
            "fired", "card", "done"}
ExecStep == {"none", "begin", "record", "trigger", "clear", "worked", "refused", "done"}
AgentStep == {"idle", "claim", "bound", "free", "done"}

ClickState == [step: {"idle", "act", "done"}, req: Requests, st: Status, expires: Nat]
AgentState == [step: AgentStep, left: SUBSET Requests, task: Requests]

TypeOK ==
  /\ now \in 0..MaxTime
  /\ st \in [Requests -> Status]
  /\ born \in [Requests -> Nat]
  /\ expires \in [Requests -> Nat]
  /\ kind \in [Requests -> Kinds \cup {"none"}]
  /\ sent \in [Requests -> Nat]
  /\ claimed \in [Requests -> Nat]
  /\ owner \in [Requests -> Agents \cup {Nobody}]
  /\ closed \in [Requests -> BOOLEAN]
  /\ run \in [Requests -> RunStep]
  /\ click \in [Clicks -> ClickState]
  /\ exec \in [Requests -> ExecStep]
  /\ timer \in [Requests -> Nat]
  /\ agent \in [Agents -> AgentState]
  /\ acts \in [Requests -> Nat]
  /\ notice \in [Requests -> BOOLEAN]

Init ==
  /\ now = 0
  /\ st = [r \in Requests |-> "none"]
  /\ born = [r \in Requests |-> 0]
  /\ expires = [r \in Requests |-> Never]
  /\ kind = [r \in Requests |-> "none"]
  /\ sent = [r \in Requests |-> Never]
  /\ claimed = [r \in Requests |-> Never]
  /\ owner = [r \in Requests |-> Nobody]
  /\ closed = [r \in Requests |-> FALSE]
  /\ run = [r \in Requests |-> "idle"]
  /\ click = [c \in Clicks |->
                [step |-> "idle", req |-> SomeRequest, st |-> "none", expires |-> 0]]
  /\ agent = [a \in Agents |-> [step |-> "idle", left |-> {}, task |-> SomeRequest]]
  /\ exec = [r \in Requests |-> "none"]
  /\ timer = [r \in Requests |-> Never]
  /\ acts = [r \in Requests |-> 0]
  /\ notice = [r \in Requests |-> FALSE]

\* A tick is minutes: the statements of a press, of an execution or of a claim
\* fall into one tick, and a stale check that is due runs within it.
Prompt ==
  /\ \A c \in Clicks : click[c].step # "act"
  /\ \A a \in Agents : agent[a].step # "claim"
  /\ \A r \in Requests : exec[r] \in {"none", "done"} /\ timer[r] > now

Tick ==
  /\ now < MaxTime /\ Prompt
  /\ now' = now + 1
  /\ UNCHANGED <<rowVars, slotVars, procVars, acts, notice>>

-----------------------------------------------------------------------------
(* transitionRequest: UPDATE ... WHERE id = r AND status IN from.  When no  *)
(* row matches it throws; in the database nothing has changed.              *)

Moved(r, from, to) == [st EXCEPT ![r] = IF @ \in from THEN to ELSE @]

Move(r, from, to) == st' = Moved(r, from, to)

\* A move whose failure the handler swallows.
TryMove(r, from, to) ==
  \/ Move(r, from, to)
  \/ "db" \in Faults /\ st' = st

Goes(r, from, to) == run[r] = from /\ run' = [run EXCEPT ![r] = to]

-----------------------------------------------------------------------------
(* POST /api/slack/events and admitRequest *)

\* The guards let the message in, or record it as refused.
Deliver(r) ==
  /\ st[r] = "none"
  /\ born' = [born EXCEPT ![r] = now]
  /\ \/ st' = [st EXCEPT ![r] = "received"] /\ run' = [run EXCEPT ![r] = "count"]
     \/ st' = [st EXCEPT ![r] = "refused"] /\ run' = [run EXCEPT ![r] = "done"]
  /\ UNCHANGED <<now, expires, kind, slotVars, click, exec, timer, agent, acts, notice>>

\* Slack delivers again: slack_event_id is unique, the insert is a duplicate.
Redeliver(r) ==
  /\ st[r] # "none"
  /\ UNCHANGED vars

\* countToday, over one day: the rows of the channel that are not refused
Counted == {r \in Requests : st[r] \notin {"none", "refused"}}

\* Mutant: the check that would be right if it ran before the insert.
OverCapBefore(r) == r \notin SystemBots /\ Cardinality(Counted) > DailyCap + 1

OverCap(r) == r \notin SystemBots /\ Cardinality(Counted) > DailyCap

\* The count runs after the insert; a statement that throws leaves the row
\* received, and the delivery Slack repeats is a duplicate.
Admit(r) ==
  /\ \/ Goes(r, "count", "queued") /\ ~OverCap(r) /\ UNCHANGED st
     \/ Goes(r, "count", "done") /\ OverCap(r) /\ Move(r, {"received"}, "refused")
     \/ Goes(r, "count", "done") /\ "db" \in Faults /\ UNCHANGED st
  /\ UNCHANGED <<now, born, expires, kind, slotVars, click, exec, timer, agent, acts, notice>>

-----------------------------------------------------------------------------
(* runOpsAgent *)

\* expireStale, its two statements
SweepRunning(r) ==
  /\ Goes(r, "queued", "sweep")
  /\ st' = [q \in Requests |->
              IF st[q] = "running" /\ born[q] + SweepAge <= now THEN "failed" ELSE st[q]]
  /\ UNCHANGED <<now, born, expires, kind, slotVars, click, exec, timer, agent, acts, notice>>

SweepUnanswered(r) ==
  /\ Goes(r, "sweep", "start")
  /\ st' = [q \in Requests |->
              IF st[q] = "awaiting_confirm" /\ expires[q] <= now THEN "expired" ELSE st[q]]
  /\ UNCHANGED <<now, born, expires, kind, slotVars, click, exec, timer, agent, acts, notice>>

Start(r) ==
  /\ \/ /\ st[r] = "received"
        /\ Goes(r, "start", IF r \in SystemBots THEN "repair" ELSE "graph")
     \/ st[r] # "received" /\ Goes(r, "start", "done")
  /\ Move(r, {"received"}, "running")
  /\ UNCHANGED <<now, born, expires, kind, slotVars, click, exec, timer, agent, acts, notice>>

\* Mutant: a failure of the model is only logged.
ConcludeSilently(r) ==
  /\ run[r] \in {"graph", "repair"}
  /\ run' = [run EXCEPT ![r] = "done"]
  /\ \/ \E to \in {"answered", "refused"} : TryMove(r, {"running"}, to)
     \/ UNCHANGED st
  /\ UNCHANGED <<now, born, expires, kind, slotVars, click, exec, timer, agent, acts, notice>>

\* An answer, a refusal or a failure of the model, the reply of an editorial
\* thread, a system message without a valid repair request.
Conclude(r) ==
  /\ run[r] \in {"graph", "repair"}
  /\ run' = [run EXCEPT ![r] = "done"]
  /\ \E to \in {"answered", "refused", "failed"} : TryMove(r, {"running"}, to)
  /\ UNCHANGED <<now, born, expires, kind, slotVars, click, exec, timer, agent, acts, notice>>

\* fireRoutine: it starts, it does not, or it starts and the answer is lost.
FireRoutine(r) ==
  /\ run[r] \in {"graph", "repair"}
  /\ \/ /\ acts' = [acts EXCEPT ![r] = @ + 1]
        /\ run' = [run EXCEPT ![r] = "fired"]
        /\ UNCHANGED st
     \/ /\ acts' = acts \/ ("lost" \in Faults /\ acts' = [acts EXCEPT ![r] = @ + 1])
        /\ run' = [run EXCEPT ![r] = "done"]
        /\ TryMove(r, {"running"}, "failed")
  /\ UNCHANGED <<now, born, expires, kind, slotVars, click, exec, timer, agent, notice>>

\* running -> answered.  When that throws, a repair is left as it is, and the
\* routine a person asked for is moved to failed.
AfterFire(r) ==
  /\ Goes(r, "fired", "done")
  /\ \/ Move(r, {"running"}, "answered")
     \/ /\ "db" \in Faults
        /\ \/ st' = st
           \/ r \notin SystemBots /\ Move(r, {"running"}, "failed")
  /\ UNCHANGED <<now, born, expires, kind, slotVars, click, exec, timer, agent, acts, notice>>

\* The card with the two buttons is in the thread before the row awaits it.
PostCard(r) ==
  /\ Goes(r, "graph", "card")
  /\ r \notin SystemBots
  /\ UNCHANGED <<now, rowVars, slotVars, click, exec, timer, agent, acts, notice>>

Await(r) ==
  /\ Goes(r, "card", "done")
  /\ \/ /\ st[r] = "running"
        /\ Move(r, {"running"}, "awaiting_confirm")
        /\ expires' = [expires EXCEPT ![r] = now + ConfirmWindow]
        /\ \E k \in Kinds : kind' = [kind EXCEPT ![r] = k]
     \/ /\ st[r] # "running" \/ "db" \in Faults
        /\ UNCHANGED <<st, expires, kind>>
  /\ UNCHANGED <<now, born, slotVars, click, exec, timer, agent, acts, notice>>

-----------------------------------------------------------------------------
(* POST /api/slack/interactions: the row is read, then moved *)

ReadRow(c, r) ==
  /\ click[c].step = "idle"
  /\ run[r] \in {"card", "done"} /\ r \notin SystemBots
  /\ click' = [click EXCEPT ![c] =
                 [step |-> "act", req |-> r, st |-> st[r], expires |-> expires[r]]]
  /\ UNCHANGED <<now, rowVars, slotVars, run, exec, timer, agent, acts, notice>>

Ends(c) == click[c].step = "act" /\ click' = [click EXCEPT ![c].step = "done"]

\* expires_at of the row that was read is in the past, whatever its status
PressLate(c) ==
  /\ Ends(c)
  /\ click[c].expires < now
  /\ Move(click[c].req, {"awaiting_confirm"}, "expired")
  /\ UNCHANGED <<now, born, expires, kind, slotVars, run, exec, timer, agent, acts, notice>>

Pressable(c) == click[c].expires >= now /\ click[c].st = "awaiting_confirm"

PressTooSoon(c) ==
  /\ Ends(c)
  /\ click[c].expires >= now /\ click[c].st # "awaiting_confirm"
  /\ UNCHANGED <<now, rowVars, slotVars, run, exec, timer, agent, acts, notice>>

\* Mutants: the status that was read is trusted; a status no reader knows.
PressCancelAsRead(c) ==
  /\ Ends(c) /\ Pressable(c)
  /\ st' = [st EXCEPT ![click[c].req] = "cancelled"]
  /\ UNCHANGED <<now, born, expires, kind, slotVars, run, exec, timer, agent, acts, notice>>
PressCancelUnknown(c) ==
  /\ Ends(c) /\ Pressable(c)
  /\ Move(click[c].req, {"awaiting_confirm"}, "canceled")
  /\ UNCHANGED <<now, born, expires, kind, slotVars, run, exec, timer, agent, acts, notice>>

PressCancel(c) ==
  /\ Ends(c) /\ Pressable(c)
  /\ Move(click[c].req, {"awaiting_confirm"}, "cancelled")
  /\ UNCHANGED <<now, born, expires, kind, slotVars, run, exec, timer, agent, acts, notice>>

\* Mutant: the status that was read is trusted.
PressConfirmAsRead(c) ==
  LET r == click[c].req IN
  /\ Ends(c) /\ Pressable(c)
  /\ st' = [st EXCEPT ![r] = "running"]
  /\ exec' = [exec EXCEPT ![r] = "begin"]
  /\ UNCHANGED <<now, born, expires, kind, slotVars, run, timer, agent, acts, notice>>

\* The execution is scheduled only when the move found the row awaiting.
PressConfirm(c) ==
  LET r == click[c].req IN
  /\ Ends(c) /\ Pressable(c)
  /\ Move(r, {"awaiting_confirm"}, "running")
  /\ exec' = [exec EXCEPT ![r] = IF st[r] = "awaiting_confirm" THEN "begin" ELSE @]
  /\ UNCHANGED <<now, born, expires, kind, slotVars, run, timer, agent, acts, notice>>

-----------------------------------------------------------------------------
(* executeProposal, and the handler that records how it went *)

Steps(r, from, to) == exec[r] = from /\ exec' = [exec EXCEPT ![r] = to]

\* A refresh, a rerun or the editorial producer: done, refused, or begun and
\* then reported as an error (the job is queued, its dispatch throws).
Perform(r) ==
  /\ kind[r] # "workflow"
  /\ \/ Steps(r, "begin", "worked") /\ acts' = [acts EXCEPT ![r] = @ + 1]
     \/ Steps(r, "begin", "refused") /\ acts' = acts
     \/ Steps(r, "begin", "refused") /\ acts' = [acts EXCEPT ![r] = @ + 1]
  /\ UNCHANGED <<now, rowVars, slotVars, run, click, timer, agent, notice>>

\* isInFlight
InFlight(r) ==
  /\ sent[r] # Never /\ ~closed[r]
  /\ IF owner[r] # Nobody THEN now < claimed[r] + RunningLease
                          ELSE now < sent[r] + PendingLease

\* findInFlightDispatch: among the rows dispatched within the running lease
Found == {r \in Requests : InFlight(r) /\ now <= sent[r] + RunningLease}

FindInFlight(r) ==
  /\ kind[r] = "workflow"
  /\ \/ Found = {} /\ Steps(r, "begin", "record")
     \/ Found # {} /\ Steps(r, "begin", "refused")
     \/ "db" \in Faults /\ Steps(r, "begin", "refused")
  /\ UNCHANGED <<now, rowVars, slotVars, run, click, timer, agent, acts, notice>>

RecordDispatch(r) ==
  /\ \/ Steps(r, "record", "trigger") /\ sent' = [sent EXCEPT ![r] = now]
     \/ "db" \in Faults /\ Steps(r, "record", "refused") /\ UNCHANGED sent
  /\ UNCHANGED <<now, rowVars, claimed, owner, closed, run, click, timer, agent, acts, notice>>

\* Run now: it starts the agent, it fails, or it starts and the answer is lost.
Trigger(r) ==
  /\ \/ Steps(r, "trigger", "worked") /\ acts' = [acts EXCEPT ![r] = @ + 1]
     \/ Steps(r, "trigger", "clear") /\ acts' = acts
     \/ "lost" \in Faults /\ Steps(r, "trigger", "clear") /\ acts' = [acts EXCEPT ![r] = @ + 1]
  /\ UNCHANGED <<now, rowVars, slotVars, run, click, timer, agent, notice>>

\* clearDispatch: only a dispatch nobody claimed; a failed clear is swallowed
ClearDispatch(r) ==
  /\ Steps(r, "clear", "refused")
  /\ \/ sent' = [sent EXCEPT ![r] = IF owner[r] = Nobody THEN Never ELSE @]
     \/ "db" \in Faults /\ UNCHANGED sent
  /\ UNCHANGED <<now, rowVars, claimed, owner, closed, run, click, timer, agent, acts, notice>>

\* The stale check is scheduled before the status is written; a write that
\* throws is followed by one attempt at failed.
SettleWorked(r) ==
  /\ Steps(r, "worked", "done")
  /\ timer' = [timer EXCEPT ![r] = IF kind[r] = "workflow" THEN now + StaleCheck ELSE @]
  /\ \/ Move(r, {"running"}, "executed")
     \/ "db" \in Faults /\ (st' = st \/ Move(r, {"running"}, "failed"))
  /\ UNCHANGED <<now, born, expires, kind, slotVars, run, click, agent, acts, notice>>

\* Mutant: only a thrown error is recorded, not a refusal.
SettleRefusedSilently(r) ==
  /\ Steps(r, "refused", "done")
  /\ UNCHANGED <<now, rowVars, slotVars, run, click, timer, agent, acts, notice>>

SettleRefused(r) ==
  /\ Steps(r, "refused", "done")
  /\ TryMove(r, {"running"}, "failed")
  /\ UNCHANGED <<now, born, expires, kind, slotVars, run, click, timer, agent, acts, notice>>

-----------------------------------------------------------------------------
(* The dispatch slot *)

Unclaimed(r) == owner[r] = Nobody /\ ~closed[r]

\* markDispatchStale, after the sleep
CheckStale(r) ==
  /\ timer[r] <= now
  /\ timer' = [timer EXCEPT ![r] = Never]
  /\ \/ /\ Unclaimed(r)
        /\ closed' = [closed EXCEPT ![r] = TRUE]
        /\ notice' = [notice EXCEPT ![r] = TRUE]
     \/ (~Unclaimed(r) \/ "db" \in Faults) /\ UNCHANGED <<closed, notice>>
  /\ UNCHANGED <<now, rowVars, sent, claimed, owner, run, click, exec, agent, acts>>

Pending == {r \in Requests : sent[r] # Never /\ now <= sent[r] + PendingLease /\ Unclaimed(r)}

\* claimDispatch reads the oldest three pending dispatches ...
Boot(a) ==
  /\ agent[a].step = "idle"
  /\ \E C \in SUBSET Pending :
       /\ Cardinality(C) <= 3 /\ (C = Pending \/ Cardinality(C) = 3)
       /\ \A r \in C, q \in Pending \ C : sent[r] <= sent[q]
       /\ agent' = [agent EXCEPT ![a].step = "claim", ![a].left = C]
  /\ UNCHANGED <<now, rowVars, slotVars, run, click, exec, timer, acts, notice>>

\* Mutant: the update does not ask whether the dispatch was closed meanwhile.
ClaimNextClosed(a, r) ==
  /\ agent[a].step = "claim" /\ r \in agent[a].left
  /\ \/ /\ owner[r] = Nobody
        /\ owner' = [owner EXCEPT ![r] = a]
        /\ claimed' = [claimed EXCEPT ![r] = now]
        /\ agent' = [agent EXCEPT ![a].step = "bound", ![a].task = r]
     \/ /\ owner[r] # Nobody
        /\ agent' = [agent EXCEPT ![a].left = @ \ {r}]
        /\ UNCHANGED <<owner, claimed>>
  /\ UNCHANGED <<now, rowVars, sent, closed, run, click, exec, timer, acts, notice>>

\* Mutant: the update is not conditional at all.
ClaimNextBlind(a, r) ==
  /\ agent[a].step = "claim" /\ r \in agent[a].left
  /\ owner' = [owner EXCEPT ![r] = a]
  /\ claimed' = [claimed EXCEPT ![r] = now]
  /\ agent' = [agent EXCEPT ![a].step = "bound", ![a].task = r]
  /\ UNCHANGED <<now, rowVars, sent, closed, run, click, exec, timer, acts, notice>>

\* ... and tries them in turn; the row, not the list, decides.
ClaimNext(a, r) ==
  /\ agent[a].step = "claim" /\ r \in agent[a].left
  /\ \A q \in agent[a].left : sent[r] <= sent[q]
  /\ \/ /\ Unclaimed(r)
        /\ owner' = [owner EXCEPT ![r] = a]
        /\ claimed' = [claimed EXCEPT ![r] = now]
        /\ \/ agent' = [agent EXCEPT ![a].step = "bound", ![a].task = r]
           \/ "lost" \in Faults /\ agent' = [agent EXCEPT ![a].step = "free"]
     \/ /\ ~Unclaimed(r)
        /\ agent' = [agent EXCEPT ![a].left = @ \ {r}]
        /\ UNCHANGED <<owner, claimed>>
  /\ UNCHANGED <<now, rowVars, sent, closed, run, click, exec, timer, acts, notice>>

\* Nothing pending, or no answer: the agent runs on its own account.
RunUnbound(a) ==
  /\ agent[a].step = "claim"
  /\ agent[a].left = {}
  /\ agent' = [agent EXCEPT ![a].step = "free"]
  /\ UNCHANGED <<now, rowVars, slotVars, run, click, exec, timer, acts, notice>>

\* completeDispatch in the finally of the agent; lost when the process dies
\* or the request does.
Complete(a) ==
  LET r == agent[a].task IN
  /\ agent[a].step = "bound"
  /\ agent' = [agent EXCEPT ![a].step = "done"]
  /\ \/ closed' = [closed EXCEPT ![r] = (owner[r] = a) \/ @]
     \/ "lost" \in Faults /\ UNCHANGED closed
  /\ UNCHANGED <<now, rowVars, sent, claimed, owner, run, click, exec, timer, acts, notice>>

\* A redeploy: whatever after() had scheduled in the process is gone.
Restart ==
  /\ "restart" \in Faults
  /\ run' = [r \in Requests |-> IF run[r] = "idle" THEN "idle" ELSE "done"]
  /\ exec' = [r \in Requests |-> IF exec[r] = "none" THEN "none" ELSE "done"]
  /\ timer' = [r \in Requests |-> Never]
  /\ click' = [c \in Clicks |-> [click[c] EXCEPT !.step = IF @ = "act" THEN "done" ELSE @]]
  /\ UNCHANGED <<now, rowVars, slotVars, agent, acts, notice>>

-----------------------------------------------------------------------------
RunNext(r) ==
  \/ Admit(r) \/ SweepRunning(r) \/ SweepUnanswered(r) \/ Start(r)
  \/ Conclude(r) \/ FireRoutine(r) \/ AfterFire(r) \/ PostCard(r) \/ Await(r)
ClickNext(c) == PressLate(c) \/ PressTooSoon(c) \/ PressCancel(c) \/ PressConfirm(c)
ExecNext(r) ==
  \/ Perform(r) \/ FindInFlight(r) \/ RecordDispatch(r) \/ Trigger(r)
  \/ ClearDispatch(r) \/ SettleWorked(r) \/ SettleRefused(r)
AgentNext(a) == Boot(a) \/ RunUnbound(a) \/ Complete(a) \/ \E r \in Requests : ClaimNext(a, r)

Next ==
  \/ Tick \/ Restart
  \/ \E r \in Requests : Deliver(r) \/ Redeliver(r) \/ RunNext(r) \/ ExecNext(r) \/ CheckStale(r)
  \/ \E c \in Clicks : ClickNext(c) \/ \E r \in Requests : ReadRow(c, r)
  \/ \E a \in Agents : AgentNext(a)

Spec == Init /\ [][Next]_vars

\* A handler that has begun runs on; nobody has to send a message, press a
\* button or boot an agent, and no statement is retried for ever.
Fairness ==
  /\ \A r \in Requests : WF_vars(RunNext(r)) /\ WF_vars(ExecNext(r))
  /\ \A c \in Clicks : WF_vars(ClickNext(c))

FairSpec == Spec /\ Fairness

-----------------------------------------------------------------------------
\* A request takes effect at most once, whatever is delivered, pressed or lost
\* twice: two confirmations, a confirmation and a sweep, a redelivered message.
ActsOnce == \A r \in Requests : acts[r] <= 1

\* What the operator refused never happens: a cancelled or expired request is
\* not being executed and had no effect, and neither is one the cap refused.
NoMeansNo ==
  \A r \in Requests : st[r] \in {"cancelled", "expired", "refused"} =>
    exec[r] = "none" /\ acts[r] = 0

\* The requests of people that were counted and let in
LetIn == {r \in Counted \ SystemBots :
            run[r] # "count" /\ (st[r] = "received" => run[r] # "done")}

\* The requests of people that were let in stay within the daily cap although
\* each is counted after its own insert, among others still being counted.
CapHolds == Cardinality(LetIn) <= DailyCap

\* A dispatch belongs to one run of the agent: whoever reports in its name was
\* given it, and nobody else was.
OneOwner ==
  \A a \in Agents : agent[a].step \in {"bound", "done"} => owner[agent[a].task] = a

\* The requester is told that the run did not start only if none ever takes
\* the dispatch over, not even one that had already listed it.
NoticeIsTrue == \A r \in Requests : notice[r] => owner[r] = Nobody

\* A request that was brought to an end stays as it ended.
FinalStays ==
  [][\A r \in Requests : st[r] \in Final => st'[r] = st[r]]_vars

\* As long as the database answers, a request that runs gets an end (or waits
\* for its operator), and one that was confirmed is executed or failed.
RunningEnds == \A r \in Requests : st[r] = "running" ~> st[r] # "running"
ConfirmedEnds == \A r \in Requests : exec[r] # "none" ~> st[r] \in {"executed", "failed"}

\* The newest dispatch that still holds its lease is found.
LeaseIsSeen == (\E r \in Requests : InFlight(r)) => Found # {}
=============================================================================
