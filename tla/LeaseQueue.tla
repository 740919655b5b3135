----------------------------- MODULE LeaseQueue -----------------------------
(***************************************************************************)
(* What the job queue promises, without its tables, heartbeats, retries or *)
(* processes.  A job is added with a set of items to do.  One holder at a  *)
(* time has the lease of a job, and while it has it the job's items are    *)
(* resolved and its results committed.  Closing a job ends its lease; what *)
(* was left unresolved then stays exactly that, for whoever continues it.  *)
(***************************************************************************)
CONSTANTS Job, Item, Holder, Nobody

VARIABLES
  phase,      \* of a job: absent, queued, leased, closed
  holder,     \* who has the lease of a job
  left,       \* the items of a job that have no outcome
  committed   \* <<j, i>>: a result of item i was committed by job j

queueVars == <<phase, holder, left, committed>>

QueueInit ==
  /\ phase = [j \in Job |-> "absent"]
  /\ holder = [j \in Job |-> Nobody]
  /\ left = [j \in Job |-> {}]
  /\ committed = {}

Add(j) ==
  /\ phase[j] = "absent"
  /\ phase' = [phase EXCEPT ![j] = "queued"]
  /\ \E T \in SUBSET Item : left' = [left EXCEPT ![j] = T]
  /\ UNCHANGED <<holder, committed>>

Lease(j, h) ==
  /\ phase[j] = "queued"
  /\ \A k \in Job : phase[k] # "leased"
  /\ phase' = [phase EXCEPT ![j] = "leased"]
  /\ holder' = [holder EXCEPT ![j] = h]
  /\ UNCHANGED <<left, committed>>

Resolve(j) ==
  /\ phase[j] = "leased"
  /\ \E T \in SUBSET left[j] : left' = [left EXCEPT ![j] = T]
  /\ UNCHANGED <<phase, holder, committed>>

Commit(j) ==
  /\ phase[j] = "leased"
  /\ \E i \in Item : committed' = committed \cup {<<j, i>>}
  /\ UNCHANGED <<phase, holder, left>>

\* Items may be given up as the job is closed.
Close(j) ==
  /\ phase[j] \in {"queued", "leased"}
  /\ phase' = [phase EXCEPT ![j] = "closed"]
  /\ holder' = [holder EXCEPT ![j] = Nobody]
  /\ \E T \in SUBSET left[j] : left' = [left EXCEPT ![j] = T]
  /\ UNCHANGED committed

QueueNext ==
  \E j \in Job :
    \/ Add(j) \/ Resolve(j) \/ Commit(j) \/ Close(j)
    \/ \E h \in Holder : Lease(j, h)

QueueSpec == QueueInit /\ [][QueueNext]_queueVars
=============================================================================
