----------------------------- MODULE JobLedger -----------------------------
(***************************************************************************)
(* What the ChatOps queue promises, without its goroutines: a ledger of    *)
(* jobs.  A job is admitted once while the desk is open and the waiting    *)
(* room has a place, is served by a free clerk, and is then closed with a  *)
(* result.  Only an outage loses jobs, and then it loses all open ones.    *)
(***************************************************************************)
EXTENDS Naturals, FiniteSets

CONSTANTS
  Jobs,       \* all jobs there may ever be
  Clerks,     \* how many jobs may be served at the same time is |Clerks|
  Places      \* the size of the waiting room

VARIABLES
  open,       \* new jobs are admitted
  waiting,    \* admitted, not yet served
  serving,    \* serving[k]: the set of jobs clerk k serves, at most one
  closedJobs, \* served to the end
  lostJobs    \* lost in an outage

ledgerVars == <<open, waiting, serving, closedJobs, lostJobs>>

Served == UNION {serving[k] : k \in Clerks}

Fresh == Jobs \ (waiting \cup Served \cup closedJobs \cup lostJobs)

LedgerInit ==
  /\ open = TRUE
  /\ waiting = {}
  /\ serving = [k \in Clerks |-> {}]
  /\ closedJobs = {}
  /\ lostJobs = {}

Admit(j) ==
  /\ open
  /\ j \in Fresh
  /\ Cardinality(waiting) < Places
  /\ waiting' = waiting \cup {j}
  /\ UNCHANGED <<open, serving, closedJobs, lostJobs>>

Serve(k, j) ==
  /\ j \in waiting
  /\ serving[k] = {}
  /\ waiting' = waiting \ {j}
  /\ serving' = [serving EXCEPT ![k] = {j}]
  /\ UNCHANGED <<open, closedJobs, lostJobs>>

Conclude(k) ==
  /\ serving[k] # {}
  /\ serving' = [serving EXCEPT ![k] = {}]
  /\ closedJobs' = closedJobs \cup serving[k]
  /\ UNCHANGED <<open, waiting, lostJobs>>

Close ==
  /\ open
  /\ open' = FALSE
  /\ UNCHANGED <<waiting, serving, closedJobs, lostJobs>>

Outage ==
  /\ open' = TRUE
  /\ waiting' = {}
  /\ serving' = [k \in Clerks |-> {}]
  /\ lostJobs' = lostJobs \cup waiting \cup Served
  /\ UNCHANGED closedJobs

LedgerNext ==
  \/ \E j \in Jobs : Admit(j)
  \/ \E k \in Clerks : Conclude(k) \/ \E j \in Jobs : Serve(k, j)
  \/ Close
  \/ Outage

LedgerSpec == LedgerInit /\ [][LedgerNext]_ledgerVars
=============================================================================
