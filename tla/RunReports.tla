----------------------------- MODULE RunReports -----------------------------
(***************************************************************************)
(* What the runner of a job may rely on while it waits for the enrichment  *)
(* run of its targets: the reports and results that reach the tables, and  *)
(* how the call ends.  Nothing is said of blocks, fan-out, queued writes   *)
(* or the circuit breaker.                                                 *)
(***************************************************************************)
EXTENDS Naturals, FiniteSets

CONSTANTS
  Target,      \* the targets of the run
  Dry,         \* the run writes no results
  Limit        \* the failures it takes to trip the breaker

VARIABLES
  report,      \* the status of each target's row
  result,      \* the targets whose enrichment result was committed
  leased,      \* the job is still leased to this run
  outcome      \* of the call: going, threw, returned, broke

reportVars == <<report, result, leased, outcome>>

Unreported == {"pending", "running"}
Reported == {"succeeded", "failed", "skipped", "noop", "nochannel"}

RunInit ==
  /\ report = [t \in Target |-> "pending"]
  /\ result = {}
  /\ leased = TRUE
  /\ outcome = "going"

\* A call that threw may leave some of its targets in flight.
Working == leased /\ outcome \in {"going", "threw"}

\* A target that has an outcome is never shown as running again.
ReportsRunning(T) ==
  /\ Working
  /\ \A t \in T : report[t] \in Unreported
  /\ report' = [t \in Target |-> IF t \in T THEN "running" ELSE report[t]]
  /\ UNCHANGED <<result, leased, outcome>>

\* Only a failure may replace an outcome: that of the report itself.
Reports(t, o) ==
  /\ Working
  /\ report[t] \in Unreported \/ o = "failed"
  /\ o = "succeeded" => t \in result \/ Dry
  /\ o \in {"noop", "nochannel"} => t \notin result
  /\ report' = [report EXCEPT ![t] = o]
  /\ UNCHANGED <<result, leased, outcome>>

\* Results come before outcomes.
Commits(t) ==
  /\ Working
  /\ ~Dry
  /\ report[t] \in Unreported
  /\ result' = result \cup {t}
  /\ UNCHANGED <<report, leased, outcome>>

LeaseEnds == leased' = FALSE /\ UNCHANGED <<report, result, outcome>>

\* The call returns when every target has an outcome.  It ends by the breaker
\* after enough failures, when no target is between its result and its outcome.
Ends ==
  /\ outcome = "going"
  /\ \/ outcome' = "threw"
     \/ outcome' = "returned" /\ \A t \in Target : report[t] \in Reported
     \/ /\ outcome' = "broke"
        /\ \A t \in result : report[t] \in Reported
        /\ Cardinality({t \in Target : report[t] = "failed"}) >= Limit
  /\ UNCHANGED <<report, result, leased>>

RunNext ==
  \/ \E T \in SUBSET Target : ReportsRunning(T)
  \/ \E t \in Target : Commits(t) \/ \E o \in Reported : Reports(t, o)
  \/ LeaseEnds
  \/ Ends

RunSpec == RunInit /\ [][RunNext]_reportVars
=============================================================================
