---------------------------- MODULE QueueLiveness ----------------------------
(***************************************************************************)
(* What must eventually happen in LeaseQueue, and the scheduling it rests  *)
(* on.                                                                     *)
(***************************************************************************)
EXTENDS LeaseQueue

\* A goroutine that can go on goes on, and a statement it waits for ends one
\* way or another.  Not assumed: that a claim is made or commits, that any
\* statement succeeds, or that a handler returns whose context is still alive.
\* The three handlers of internal/jobtypes do return on a canceled context.
GoroutineFairness(w) ==
  /\ WF_vars(ClaimCommit(w) \/ ClaimCommitLost(w) \/ ClaimRollback(w))
  /\ WF_vars(WorkerExit(w))
  /\ WF_vars(~worker[w].ctx /\ \E failed \in BOOLEAN : HandlerReturns(w, failed))
  /\ WF_vars(HandleResult(w))
  /\ WF_vars(HeartbeatTick(w))
  /\ WF_vars(HeartbeatRenewed(w) \/ HeartbeatRefused(w) \/ HeartbeatRenewLost(w))
  /\ WF_vars(HeartbeatExit(w))

\* A process that has gone is started again (docker-compose's "restart:
\* unless-stopped"), the drain deadline is a timer, and main returns.
ProcessFairness(s) ==
  /\ WF_vars(Start(s))
  /\ WF_vars(DrainDeadline(s))
  /\ WF_vars(Exit(s))

\* Time passes, and the reaper's ticker makes it sweep with success some time.
Fairness ==
  /\ \A w \in Worker : GoroutineFairness(w)
  /\ \A s \in Server : ProcessFairness(s)
  /\ \A j \in Job : WF_vars(LeaseExpires(j))
  /\ WF_vars(Reap)

FairSpec == Spec /\ Fairness

-----------------------------------------------------------------------------

\* A running row whose owner runs nothing for it: its process died, the answer
\* to its claim was lost, or its result could not be stored.
Orphan(j) ==
  /\ jobs[j].status = "running"
  /\ ~ \E w \in Worker : Executing(w, j) /\ jobs[j].locked_by = Owner(w)

\* No job stays running with nobody to run it.
OrphansRecovered ==
  \A j \in Job : Orphan(j) ~> ~Orphan(j)

\* A handler whose job was canceled, or reaped under it, is stopped: the
\* heartbeat finds out and cancels its context.
LostLeaseStopsHandler ==
  \A w \in Worker :
    (worker[w].pc = "run" /\ ~Holds(w)) ~> worker[w].pc # "run"

\* A shutdown ends, whatever the handlers do until the deadline, whatever
\* becomes of their results and whoever else works on the table.
ShutdownCompletes ==
  \A s \in Server : phase[s] = "draining" ~> phase[s] = "down"
===============================================================================
