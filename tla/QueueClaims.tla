----------------------------- MODULE QueueClaims -----------------------------
(***************************************************************************)
(* Sentences of the repository's documents about the queue that its code   *)
(* does not keep.                                                          *)
(***************************************************************************)
EXTENDS QueueLiveness

\* CONTEXT.md, "Retry budget": the maximum number of execution attempts allowed
\* for one job before it becomes dead-lettered.
AttemptsWithinBudget ==
  \A j \in Job : jobs[j].attempts <= jobs[j].max_attempts

\* PRD.md, "Graceful shutdown": jobs exceeding the drain deadline are left for
\* the reaper, that is, they stay running until their lease runs out, unless
\* they succeed all the same or an operator cancels them.
OverdueLeftForReaper ==
  \A w \in Worker, j \in Job :
    (phase[ServerOf(w)] = "aborting" /\ worker[w].pc = "run"
       /\ worker[w].job = j /\ Holds(w))
    ~> (jobs[j].locked_until = "past" \/ jobs[j].status \in {"success", "canceled"})
===============================================================================
