---------------------------- MODULE QueueLifecycle ----------------------------
(***************************************************************************)
(* The queue implements the life of a job as JobLifecycle states it:       *)
(* transactions, contexts, heartbeats, processes and tokens that no row    *)
(* shows are hidden; the columns of the row are what is seen.              *)
(***************************************************************************)
EXTENDS LeaseQueue

StateOf  == [j \in Job |-> jobs[j].status]
HolderOf == [j \in Job |-> IF jobs[j].status = "running" THEN jobs[j].locked_by ELSE NULL]
TriesOf  == [j \in Job |-> jobs[j].attempts]
BudgetOf == [j \in Job |-> jobs[j].max_attempts]
LapsedOf == {j \in Job : jobs[j].status = "running" /\ jobs[j].locked_until = "past"}

Lifecycle == INSTANCE JobLifecycle WITH
  Holder <- Owners, NoHolder <- NULL, MaxBudget <- MaxAttempts,
  state <- StateOf, holder <- HolderOf, tries <- TriesOf, budget <- BudgetOf,
  lapsed <- LapsedOf

\* Every step of every process, worker, reaper and operator is one step in the
\* life of the jobs, or none.
RefinesLifecycle == Lifecycle!Spec
===============================================================================
