------------------------------ MODULE ClaimOrder ------------------------------
(***************************************************************************)
(* Which job is claimed next: ORDER BY priority + age / AGING_DIVISOR in   *)
(* Claim, with jobs that come late, wait for a backoff, come back after a  *)
(* failure or a sweep, and are claimed concurrently.                       *)
(*                                                                         *)
(* Time is an integer.  LeaseQueue leaves this order open; here the leases *)
(* and the processes are left out, so a running job may come back, or be   *)
(* over, at any moment.                                                    *)
(***************************************************************************)
EXTENDS Integers

CONSTANTS Job, Worker, NoJob,
          MaxPriority,   \* 10 in enqueueJob
          AgingDivisor,  \* AGING_DIVISOR_SECONDS
          MaxTime        \* bound: the clock stops here

ASSUME OrderConstantsOK ==
  /\ MaxPriority \in Nat \ {0}
  /\ AgingDivisor \in Nat \ {0}
  /\ MaxTime \in Nat
  /\ NoJob \notin Job

VARIABLES now,    \* the database's clock
          row,    \* [Job -> its row]
          claim,  \* [Worker -> the row its open claim has locked, or NoJob]
          passed  \* history: <<k, j>> when a SELECT took k while j was waiting

vars == <<now, row, claim, passed>>

Time == 0..MaxTime

\* "dead" can be retried, "over" is success, canceled or deleted.
Row == [status   : {"none", "pending", "running", "dead", "over"},
        priority : 1..MaxPriority,
        created  : Time,
        after    : Time]

Init ==
  /\ now = 0
  /\ row = [j \in Job |->
       [status |-> "none", priority |-> 1, created |-> 0, after |-> 0]]
  /\ claim = [w \in Worker |-> NoJob]
  /\ passed = {}

Tick == now < MaxTime /\ now' = now + 1 /\ UNCHANGED <<row, claim, passed>>

-----------------------------------------------------------------------------

\* Fault: a request without a priority is stored as it came.
PriorityAsSent(p) == p

\* A request without a priority (0) gets 1.
Priority(p) == IF p = 0 THEN 1 ELSE p

\* created_at is the time of the INSERT; the row may be visible later.
Enqueue(j, p, created) ==
  /\ row[j].status = "none"
  /\ row' = [row EXCEPT ![j] =
       [status |-> "pending", priority |-> Priority(p), created |-> created, after |-> 0]]
  /\ UNCHANGED <<now, claim, passed>>

Locked(j) == \E w \in Worker : claim[w] = j

\* What the SELECT of a claim whose BEGIN was at t (its NOW()) may return.
Waiting(t) ==
  {j \in Job : row[j].status = "pending" /\ row[j].after <= t /\ ~Locked(j)}

\* Fault: no aging.
ScoreUnaged(j, t) == row[j].priority

\* Fault: only whole divisors of waiting count.
ScoreInSteps(j, t) == row[j].priority + (t - row[j].created) \div AgingDivisor

\* priority + age / divisor, times the divisor.
Score(j, t) == row[j].priority * AgingDivisor + (t - row[j].created)

\* One of those with the highest score, whatever the others' claims hold.
ClaimSelect(w, j, t) ==
  /\ claim[w] = NoJob
  /\ j \in Waiting(t)
  /\ \A k \in Waiting(t) : Score(k, t) <= Score(j, t)
  /\ claim' = [claim EXCEPT ![w] = j]
  /\ passed' = passed \cup {<<j, k>> : k \in Waiting(t) \ {j}}
  /\ UNCHANGED <<now, row>>

Becomes(j, status, after) ==
  row' = [row EXCEPT ![j] = [@ EXCEPT !.status = status, !.after = after]]

\* COMMIT, or the transaction is rolled back and the row as it was.
ClaimEnds(w) ==
  /\ claim[w] # NoJob
  /\ claim' = [claim EXCEPT ![w] = NoJob]
  /\ Becomes(claim[w], "running", row[claim[w]].after) \/ UNCHANGED row
  /\ UNCHANGED <<now, passed>>

\* MarkFailed with a backoff (an instant of the server's clock, which need not
\* agree with the database's), or Reap.
ComesBack(j) ==
  /\ row[j].status = "running"
  /\ \E after \in Time : Becomes(j, "pending", after)
  /\ UNCHANGED <<now, claim, passed>>

\* MarkSuccess, MarkFailed at the end of the budget, Cancel, DeleteDead.
Ends(j) ==
  /\ ~Locked(j)
  /\ \/ row[j].status = "running" /\ \E s \in {"dead", "over"} : Becomes(j, s, row[j].after)
     \/ row[j].status \in {"pending", "dead"} /\ Becomes(j, "over", row[j].after)
  /\ UNCHANGED <<now, claim, passed>>

\* RetryDead: the job keeps its created_at.
RetryDead(j) ==
  /\ row[j].status = "dead"
  /\ Becomes(j, "pending", 0)
  /\ UNCHANGED <<now, claim, passed>>

Next ==
  \/ Tick
  \/ \E j \in Job :
       \/ \E p \in 0..MaxPriority, created \in 0..now : Enqueue(j, p, created)
       \/ ComesBack(j) \/ Ends(j) \/ RetryDead(j)
  \/ \E w \in Worker :
       \/ \E j \in Job, t \in 0..now : ClaimSelect(w, j, t)
       \/ ClaimEnds(w)

Spec == Init /\ [][Next]_vars

-----------------------------------------------------------------------------

\* Every variable has its type.
TypeOK ==
  /\ now \in Time
  /\ row \in [Job -> Row]
  /\ claim \in [Worker -> Job \cup {NoJob}]
  /\ passed \in SUBSET (Job \X Job)

\* No starvation: once a job has waited for a while that only the range of
\* priorities and the divisor set, no job enqueued from then on is claimed
\* before it, however urgent and however many (PRD: 90 minutes).
AgedJobsGoFirst ==
  \A k, j \in Job :
    <<k, j>> \in passed =>
      row[k].created <= row[j].created + (MaxPriority - 1) * AgingDivisor

\* Aging does not reorder jobs that are there already: of two that ever waited
\* together the same one goes first again and again, although each claim
\* computes their scores anew, at another time.
OrderIsSettled ==
  \A k, j \in Job :
    <<k, j>> \in passed /\ <<j, k>> \in passed =>
      (row[k].priority - row[j].priority) * AgingDivisor = row[k].created - row[j].created
===============================================================================
