----------------------------- MODULE JobLifecycle -----------------------------
(***************************************************************************)
(* What the queue promises about a job, whoever runs it and however the    *)
(* processes interleave: the life of a job as an operator sees it through  *)
(* the API.  No transactions, heartbeats, contexts, crashes or shutdowns.  *)
(*                                                                         *)
(* A pending job is granted to one holder at a time.  A running job leaves *)
(* its holder in four ways only: the holder reports success, the holder    *)
(* reports a failure (requeued within the budget, buried at its end), the  *)
(* lease has run out and the job is reclaimed, or an operator withdraws    *)
(* it.  Success, cancellation and deletion are final.                      *)
(***************************************************************************)
EXTENDS Naturals

CONSTANTS Job,       \* job ids
          Holder,    \* those a job can be granted to
          NoHolder,
          MaxBudget  \* the largest budget a job may be submitted with

VARIABLES state,     \* [Job -> status of the job]
          holder,    \* [Job -> the one that runs it, or NoHolder]
          tries,     \* [Job -> grants since submission or revival]
          budget,    \* [Job -> tries after which a failure is final]
          lapsed     \* running jobs whose lease has run out

vars == <<state, holder, tries, budget, lapsed>>

States == {"unused", "pending", "running", "success", "dead", "canceled", "deleted"}

Init ==
  /\ state = [j \in Job |-> "unused"]
  /\ holder = [j \in Job |-> NoHolder]
  /\ tries = [j \in Job |-> 0]
  /\ budget = [j \in Job |-> 0]
  /\ lapsed = {}

-----------------------------------------------------------------------------

Submit(j, max) ==
  /\ state[j] = "unused"
  /\ state' = [state EXCEPT ![j] = "pending"]
  /\ budget' = [budget EXCEPT ![j] = max]
  /\ UNCHANGED <<holder, tries, lapsed>>

Grant(j, h) ==
  /\ state[j] = "pending"
  /\ state' = [state EXCEPT ![j] = "running"]
  /\ holder' = [holder EXCEPT ![j] = h]
  /\ tries' = [tries EXCEPT ![j] = @ + 1]
  /\ UNCHANGED <<budget, lapsed>>

Expire(j) ==
  /\ state[j] = "running"
  /\ lapsed' = lapsed \cup {j}
  /\ UNCHANGED <<state, holder, tries, budget>>

Extend(j) ==
  /\ lapsed' = lapsed \ {j}
  /\ UNCHANGED <<state, holder, tries, budget>>

\* The only way a job comes back to the queue without a verdict, and the only
\* way one comes back when its budget is spent.
Reclaim(S) ==
  /\ S \subseteq lapsed
  /\ state' = [j \in Job |-> IF j \in S THEN "pending" ELSE state[j]]
  /\ holder' = [j \in Job |-> IF j \in S THEN NoHolder ELSE holder[j]]
  /\ lapsed' = lapsed \ S
  /\ UNCHANGED <<tries, budget>>

\* A running job leaves its holder in the given state.
Leave(j, s) ==
  /\ state[j] = "running"
  /\ state' = [state EXCEPT ![j] = s]
  /\ holder' = [holder EXCEPT ![j] = NoHolder]
  /\ lapsed' = lapsed \ {j}
  /\ UNCHANGED <<tries, budget>>

Complete(j) == Leave(j, "success")

Requeue(j) == tries[j] < budget[j] /\ Leave(j, "pending")

Bury(j) == tries[j] >= budget[j] /\ Leave(j, "dead")

Withdraw(j) ==
  /\ state[j] \in {"pending", "running"}
  /\ state' = [state EXCEPT ![j] = "canceled"]
  /\ holder' = [holder EXCEPT ![j] = NoHolder]
  /\ lapsed' = lapsed \ {j}
  /\ UNCHANGED <<tries, budget>>

Revive(j) ==
  /\ state[j] = "dead"
  /\ state' = [state EXCEPT ![j] = "pending"]
  /\ tries' = [tries EXCEPT ![j] = 0]
  /\ UNCHANGED <<holder, budget, lapsed>>

Discard(S) ==
  /\ \A j \in S : state[j] = "dead"
  /\ state' = [j \in Job |-> IF j \in S THEN "deleted" ELSE state[j]]
  /\ tries' = [j \in Job |-> IF j \in S THEN 0 ELSE tries[j]]
  /\ budget' = [j \in Job |-> IF j \in S THEN 0 ELSE budget[j]]
  /\ UNCHANGED <<holder, lapsed>>

Next ==
  \/ \E j \in Job, max \in 1..MaxBudget : Submit(j, max)
  \/ \E j \in Job, h \in Holder : Grant(j, h)
  \/ \E j \in Job :
       \/ Expire(j) \/ Extend(j) \/ Complete(j) \/ Requeue(j) \/ Bury(j)
       \/ Withdraw(j) \/ Revive(j)
  \/ \E S \in SUBSET Job : Reclaim(S) \/ Discard(S)

Spec == Init /\ [][Next]_vars
=============================================================================
