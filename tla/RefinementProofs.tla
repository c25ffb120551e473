--------------------------- MODULE RefinementProofs ---------------------------
(***************************************************************************)
(* LeaseQueue implements JobLifecycle: every step of the table (TableStep  *)
(* of QueueProofs) is a step in the life of a job, or a stutter.           *)
(***************************************************************************)
EXTENDS QueueProofs, QueueLifecycle

\* What is seen of the table when row j becomes r.
LEMMA OneRowView ==
  ASSUME jobs \in [Job -> Row(Owners)], NEW j \in Job, NEW r, jobs' = [jobs EXCEPT ![j] = r]
  PROVE  /\ StateOf' = [StateOf EXCEPT ![j] = r.status]
         /\ HolderOf' = [HolderOf EXCEPT ![j] =
              IF r.status = "running" THEN r.locked_by ELSE NULL]
         /\ TriesOf' = [TriesOf EXCEPT ![j] = r.attempts]
         /\ BudgetOf' = [BudgetOf EXCEPT ![j] = r.max_attempts]
         /\ LapsedOf' = IF r.status = "running" /\ r.locked_until = "past"
                        THEN LapsedOf \cup {j} ELSE LapsedOf \ {j}
<1>1. jobs'[j] = r /\ \A i \in Job : i # j => jobs'[i] = jobs[i]
  OBVIOUS
<1>2. StateOf' = [StateOf EXCEPT ![j] = r.status]
  BY <1>1 DEF StateOf
<1>3. HolderOf' = [HolderOf EXCEPT ![j] = IF r.status = "running" THEN r.locked_by ELSE NULL]
  BY <1>1 DEF HolderOf
<1>4. TriesOf' = [TriesOf EXCEPT ![j] = r.attempts]
  BY <1>1 DEF TriesOf
<1>5. BudgetOf' = [BudgetOf EXCEPT ![j] = r.max_attempts]
  BY <1>1 DEF BudgetOf
<1>6. LapsedOf' = IF r.status = "running" /\ r.locked_until = "past"
                  THEN LapsedOf \cup {j} ELSE LapsedOf \ {j}
  BY <1>1 DEF LapsedOf
<1> QED
  BY <1>2, <1>3, <1>4, <1>5, <1>6

\* What is not seen of it.
LEMMA OneRowUnseen ==
  ASSUME jobs \in [Job -> Row(Owners)], NEW j \in Job, NEW r, jobs' = [jobs EXCEPT ![j] = r]
  PROVE  /\ r.status = jobs[j].status => StateOf' = StateOf
         /\ r.status = jobs[j].status /\ r.locked_by = jobs[j].locked_by => HolderOf' = HolderOf
         /\ r.attempts = jobs[j].attempts => TriesOf' = TriesOf
         /\ r.max_attempts = jobs[j].max_attempts => BudgetOf' = BudgetOf
         /\ r.status # "running" => /\ HolderOf' = [HolderOf EXCEPT ![j] = NULL]
                                    /\ LapsedOf' = LapsedOf \ {j}
<1>1. jobs'[j] = r /\ \A i \in Job : i # j => jobs'[i] = jobs[i]
  OBVIOUS
<1>2. r.status = jobs[j].status => StateOf' = StateOf
  BY <1>1 DEF StateOf
<1>3. r.status = jobs[j].status /\ r.locked_by = jobs[j].locked_by => HolderOf' = HolderOf
  BY <1>1 DEF HolderOf
<1>4. r.attempts = jobs[j].attempts => TriesOf' = TriesOf
  BY <1>1 DEF TriesOf
<1>5. r.max_attempts = jobs[j].max_attempts => BudgetOf' = BudgetOf
  BY <1>1 DEF BudgetOf
<1>6. r.status # "running" => HolderOf' = [HolderOf EXCEPT ![j] = NULL]
  BY <1>1 DEF HolderOf
<1>7. r.status # "running" => LapsedOf' = LapsedOf \ {j}
  BY <1>1 DEF LapsedOf
<1> QED
  BY <1>2, <1>3, <1>4, <1>5, <1>6, <1>7

\* What is seen of a row before the step.
LEMMA RowView ==
  ASSUME NEW j \in Job
  PROVE  /\ StateOf[j] = jobs[j].status
         /\ TriesOf[j] = jobs[j].attempts
         /\ BudgetOf[j] = jobs[j].max_attempts
         /\ HolderOf[j] = IF jobs[j].status = "running" THEN jobs[j].locked_by ELSE NULL
         /\ j \in LapsedOf <=> jobs[j].status = "running" /\ jobs[j].locked_until = "past"
  BY DEF StateOf, HolderOf, TriesOf, BudgetOf, LapsedOf

THEOREM InitRefines == Init => Lifecycle!Init
  BY DEF Init, Lifecycle!Init, StateOf, HolderOf, TriesOf, BudgetOf, LapsedOf, BlankRow

LEMMA SubmitRefines ==
  ASSUME IndInv, NEW j \in Job, NEW max \in 1..MaxAttempts, jobs[j].status = "unused",
         jobs[j].attempts = 0, jobs' = [jobs EXCEPT ![j] = Inserted(max)]
  PROVE  Lifecycle!Submit(j, max)
<1>1. jobs \in [Job -> Row(Owners)]
  BY DEF IndInv, TypeOK
<1> DEFINE r == Inserted(max)
<1>2. r.status = "pending" /\ r.attempts = 0 /\ r.max_attempts = max
  BY DEF Inserted, BlankRow
<1>3. jobs' = [jobs EXCEPT ![j] = r]
  OBVIOUS
<1> HIDE DEF r
<1>4. StateOf' = [StateOf EXCEPT ![j] = "pending"]
  <2>1. StateOf' = [StateOf EXCEPT ![j] = r.status]
    BY <1>1, <1>3, OneRowView
  <2> QED
    BY <1>2, <2>1
<1>5. BudgetOf' = [BudgetOf EXCEPT ![j] = max] /\ StateOf[j] = "unused"
  <2>1. BudgetOf' = [BudgetOf EXCEPT ![j] = r.max_attempts]
    BY <1>1, <1>3, OneRowView
  <2> QED
    BY <1>2, <2>1, RowView
<1>6. TriesOf' = TriesOf
  BY <1>1, <1>2, <1>3, OneRowUnseen
<1>7. HolderOf' = HolderOf
  <2>1. HolderOf' = [HolderOf EXCEPT ![j] = NULL] /\ HolderOf[j] = NULL
    BY <1>1, <1>2, <1>3, OneRowUnseen, RowView
  <2> QED
    BY <2>1 DEF HolderOf
<1>8. LapsedOf' = LapsedOf
  BY <1>1, <1>2, <1>3, OneRowUnseen, RowView, ZenonT(40)
<1> QED
  BY <1>4, <1>5, <1>6, <1>7, <1>8 DEF Lifecycle!Submit

LEMMA GrantRefines ==
  ASSUME IndInv, NEW j \in Job, NEW w \in Worker, Claimable(jobs[j]),
         jobs' = [jobs EXCEPT ![j] = Claimed(jobs[j], Owner(w))]
  PROVE  Lifecycle!Grant(j, Owner(w))
<1> DEFINE r == Claimed(jobs[j], Owner(w))
<1>1. jobs \in [Job -> Row(Owners)] /\ jobs[j].status = "pending"
  BY DEF IndInv, TypeOK, Claimable
<1>2. r \in Row(Owners) /\ r.status = "running" /\ r.locked_by = Owner(w)
        /\ r.attempts = jobs[j].attempts + 1 /\ r.max_attempts = jobs[j].max_attempts
  BY ClaimedRow
<1>3. r.locked_until = "future"
  BY <1>1 DEF Claimed, Row
<1> HIDE DEF r
<1>4. jobs' = [jobs EXCEPT ![j] = r]
  BY DEF r
<1>5. StateOf' = [StateOf EXCEPT ![j] = "running"]
  <2>1. StateOf' = [StateOf EXCEPT ![j] = r.status]
    BY <1>1, <1>4, OneRowView
  <2> QED
    BY <1>2, <2>1
<1>6. HolderOf' = [HolderOf EXCEPT ![j] = Owner(w)]
  <2>1. HolderOf' = [HolderOf EXCEPT ![j] =
                      IF r.status = "running" THEN r.locked_by ELSE NULL]
    BY <1>1, <1>4, OneRowView
  <2> QED
    BY <1>2, <2>1
<1>7. TriesOf' = [TriesOf EXCEPT ![j] = TriesOf[j] + 1]
  <2>1. TriesOf' = [TriesOf EXCEPT ![j] = r.attempts]
    BY <1>1, <1>4, OneRowView
  <2>2. r.attempts = TriesOf[j] + 1
    BY <1>2, RowView
  <2> QED
    BY <2>1, <2>2
<1>8. BudgetOf' = BudgetOf
  BY <1>1, <1>2, <1>4, OneRowUnseen
<1>9. LapsedOf' = LapsedOf
  <2>1. LapsedOf' = LapsedOf \ {j}
    BY <1>1, <1>3, <1>4, OneRowView
  <2> QED
    BY <1>1, <2>1, RowView
<1>10. StateOf[j] = "pending"
  BY <1>1, RowView
<1> QED
  BY <1>5, <1>6, <1>7, <1>8, <1>9, <1>10 DEF Lifecycle!Grant

LEMMA ExtendRefines ==
  ASSUME IndInv, NEW j \in Job, jobs[j].status = "running",
         jobs' = [jobs EXCEPT ![j] = Renewed(jobs[j])]
  PROVE  Lifecycle!Extend(j)
<1> DEFINE r == Renewed(jobs[j])
<1>1. jobs \in [Job -> Row(Owners)]
  BY DEF IndInv, TypeOK
<1>2. r \in Row(Owners) /\ r.locked_until = "future" /\ r.status = jobs[j].status
        /\ r.locked_by = jobs[j].locked_by
        /\ r.attempts = jobs[j].attempts /\ r.max_attempts = jobs[j].max_attempts
  BY <1>1 DEF Renewed, Row, Instant
<1> HIDE DEF r
<1>3. jobs' = [jobs EXCEPT ![j] = r]
  BY DEF r
<1>4. StateOf' = StateOf /\ HolderOf' = HolderOf
  BY <1>1, <1>2, <1>3, OneRowUnseen
<1>5. TriesOf' = TriesOf /\ BudgetOf' = BudgetOf
  BY <1>1, <1>2, <1>3, OneRowUnseen
<1>6. LapsedOf' = LapsedOf \ {j}
  BY <1>1, <1>2, <1>3, OneRowView
<1> QED
  BY <1>4, <1>5, <1>6 DEF Lifecycle!Extend

LEMMA ExpireRefines ==
  ASSUME IndInv, NEW j \in Job, LeaseExpires(j)
  PROVE  Lifecycle!Expire(j)
<1> DEFINE r == [jobs[j] EXCEPT !.locked_until = "past"]
<1>1. jobs \in [Job -> Row(Owners)] /\ jobs[j].status = "running"
  BY DEF IndInv, TypeOK, LeaseExpires
<1>2. r \in Row(Owners) /\ r.locked_until = "past" /\ r.status = jobs[j].status
        /\ r.locked_by = jobs[j].locked_by
        /\ r.attempts = jobs[j].attempts /\ r.max_attempts = jobs[j].max_attempts
  BY <1>1 DEF Row, Instant
<1>3. jobs' = [jobs EXCEPT ![j] = r]
  BY DEF LeaseExpires
<1> HIDE DEF r
<1>4. StateOf' = StateOf /\ HolderOf' = HolderOf
  BY <1>1, <1>2, <1>3, OneRowUnseen
<1>5. TriesOf' = TriesOf /\ BudgetOf' = BudgetOf
  BY <1>1, <1>2, <1>3, OneRowUnseen
<1>6. LapsedOf' = LapsedOf \cup {j}
  BY <1>1, <1>2, <1>3, OneRowView
<1>7. StateOf[j] = "running"
  BY <1>1, RowView
<1> QED
  BY <1>4, <1>5, <1>6, <1>7 DEF Lifecycle!Expire

\* A backoff that ends is not seen.
LEMMA BackoffRefines ==
  ASSUME IndInv, NEW j \in Job, BackoffElapses(j)
  PROVE  UNCHANGED Lifecycle!vars
<1> DEFINE r == [jobs[j] EXCEPT !.run_after = "past"]
<1>1. jobs \in [Job -> Row(Owners)] /\ jobs[j].status = "pending"
  BY DEF IndInv, TypeOK, BackoffElapses, RowConsistent
<1>2. r \in Row(Owners) /\ r.status = jobs[j].status
        /\ r.locked_by = jobs[j].locked_by
        /\ r.attempts = jobs[j].attempts /\ r.max_attempts = jobs[j].max_attempts
  BY <1>1 DEF Row, Instant
<1>3. jobs' = [jobs EXCEPT ![j] = r]
  BY DEF BackoffElapses
<1> HIDE DEF r
<1>4. StateOf' = StateOf /\ HolderOf' = HolderOf
  BY <1>1, <1>2, <1>3, OneRowUnseen
<1>5. TriesOf' = TriesOf /\ BudgetOf' = BudgetOf
  BY <1>1, <1>2, <1>3, OneRowUnseen
<1>6. LapsedOf' = LapsedOf
  BY <1>1, <1>2, <1>3, OneRowUnseen, RowView
<1> QED
  BY <1>4, <1>5, <1>6 DEF Lifecycle!vars

LEMMA CompleteRefines ==
  ASSUME IndInv, NEW j \in Job, jobs[j].status = "running",
         jobs' = [jobs EXCEPT ![j] = Succeeded(jobs[j])]
  PROVE  Lifecycle!Complete(j)
<1> DEFINE r == Succeeded(jobs[j])
<1>1. jobs \in [Job -> Row(Owners)]
  BY DEF IndInv, TypeOK
<1>2. r \in Row(Owners) /\ r.status = "success"
        /\ r.attempts = jobs[j].attempts /\ r.max_attempts = jobs[j].max_attempts
  BY <1>1 DEF Succeeded, Row, Status
<1> HIDE DEF r
<1>3. jobs' = [jobs EXCEPT ![j] = r]
  BY DEF r
<1>4. /\ StateOf' = [StateOf EXCEPT ![j] = "success"]
      /\ HolderOf' = [HolderOf EXCEPT ![j] = NULL]
      /\ LapsedOf' = LapsedOf \ {j}
  <2>1. StateOf' = [StateOf EXCEPT ![j] = r.status]
    BY <1>1, <1>3, OneRowView
  <2>2. HolderOf' = [HolderOf EXCEPT ![j] = NULL] /\ LapsedOf' = LapsedOf \ {j}
    BY <1>1, <1>2, <1>3, OneRowUnseen
  <2> QED
    BY <1>2, <2>1, <2>2
<1>5. TriesOf' = TriesOf /\ BudgetOf' = BudgetOf
  BY <1>1, <1>2, <1>3, OneRowUnseen
<1>6. StateOf[j] = jobs[j].status
  BY <1>1, RowView
<1> QED
  BY <1>4, <1>5, <1>6 DEF Lifecycle!Complete, Lifecycle!Leave

LEMMA FailureRefines ==
  ASSUME IndInv, NEW j \in Job, NEW delay \in {"past", "future"}, jobs[j].status = "running",
         jobs' = [jobs EXCEPT ![j] =
           Failed(jobs[j], jobs[j].attempts, jobs[j].max_attempts, delay)]
  PROVE  Lifecycle!Requeue(j) \/ Lifecycle!Bury(j)
<1> DEFINE r == Failed(jobs[j], jobs[j].attempts, jobs[j].max_attempts, delay)
<1>1. jobs \in [Job -> Row(Owners)] /\ jobs[j].attempts \in Nat /\ jobs[j].max_attempts \in Nat
  BY DEF IndInv, TypeOK, Row
<1>2. r \in Row(Owners) /\ r.status \in {"dead", "pending"}
  BY <1>1, FailedRow DEF IndInv, TypeOK
<1>3. /\ r.attempts = jobs[j].attempts
      /\ r.max_attempts = jobs[j].max_attempts
      /\ r.status = IF jobs[j].attempts >= jobs[j].max_attempts THEN "dead" ELSE "pending"
  BY <1>1 DEF Failed, Row
<1> HIDE DEF r
<1>4. jobs' = [jobs EXCEPT ![j] = r]
  BY DEF r
<1>5. /\ StateOf' = [StateOf EXCEPT ![j] = r.status]
      /\ HolderOf' = [HolderOf EXCEPT ![j] = NULL]
      /\ LapsedOf' = LapsedOf \ {j}
  BY <1>1, <1>2, <1>4, OneRowView, OneRowUnseen
<1>6. TriesOf' = TriesOf /\ BudgetOf' = BudgetOf
  BY <1>1, <1>2, <1>3, <1>4, OneRowView, OneRowUnseen, RowView, ZenonT(40)
<1>7. /\ StateOf[j] = "running"
      /\ TriesOf[j] = jobs[j].attempts
      /\ BudgetOf[j] = jobs[j].max_attempts
  BY <1>1, RowView
<1>8. CASE jobs[j].attempts >= jobs[j].max_attempts
  BY <1>3, <1>5, <1>6, <1>7, <1>8 DEF Lifecycle!Bury, Lifecycle!Leave
<1>9. CASE ~(jobs[j].attempts >= jobs[j].max_attempts)
  <2>1. jobs[j].attempts < jobs[j].max_attempts
    BY <1>1, <1>9
  <2> QED
    BY <1>3, <1>5, <1>6, <1>7, <1>9, <2>1 DEF Lifecycle!Requeue, Lifecycle!Leave
<1> QED
  BY <1>8, <1>9

LEMMA WithdrawRefines ==
  ASSUME IndInv, NEW j \in Job, Cancelable(jobs[j]),
         jobs' = [jobs EXCEPT ![j] = Canceled(jobs[j])]
  PROVE  Lifecycle!Withdraw(j)
<1> DEFINE r == Canceled(jobs[j])
<1>1. jobs \in [Job -> Row(Owners)] /\ jobs[j].status \in {"pending", "running"}
  BY DEF IndInv, TypeOK, Cancelable
<1>2. r \in Row(Owners) /\ r.status = "canceled"
        /\ r.attempts = jobs[j].attempts /\ r.max_attempts = jobs[j].max_attempts
  BY <1>1 DEF Canceled, Row, Status, Instant
<1> HIDE DEF r
<1>3. jobs' = [jobs EXCEPT ![j] = r]
  BY DEF r
<1>4. /\ StateOf' = [StateOf EXCEPT ![j] = "canceled"]
      /\ HolderOf' = [HolderOf EXCEPT ![j] = NULL]
      /\ LapsedOf' = LapsedOf \ {j}
  <2>1. StateOf' = [StateOf EXCEPT ![j] = r.status]
    BY <1>1, <1>3, OneRowView
  <2>2. HolderOf' = [HolderOf EXCEPT ![j] = NULL] /\ LapsedOf' = LapsedOf \ {j}
    BY <1>1, <1>2, <1>3, OneRowUnseen
  <2> QED
    BY <1>2, <2>1, <2>2
<1>5. TriesOf' = TriesOf /\ BudgetOf' = BudgetOf
  BY <1>1, <1>2, <1>3, OneRowUnseen
<1>6. StateOf[j] = jobs[j].status
  BY <1>1, RowView
<1> QED
  BY <1>1, <1>4, <1>5, <1>6 DEF Lifecycle!Withdraw

LEMMA ReviveRefines ==
  ASSUME IndInv, NEW j \in Job, Retryable(jobs[j]),
         jobs' = [jobs EXCEPT ![j] = Retried(jobs[j])]
  PROVE  Lifecycle!Revive(j)
<1> DEFINE r == Retried(jobs[j])
<1>1. jobs \in [Job -> Row(Owners)] /\ jobs[j].status = "dead"
  BY DEF IndInv, TypeOK, Retryable
<1>2. r \in Row(Owners)
  BY <1>1 DEF Retried, Row, Status, Instant
<1>3. r.status = "pending" /\ r.attempts = 0 /\ r.max_attempts = jobs[j].max_attempts
  BY <1>1 DEF Retried, Row
<1> HIDE DEF r
<1>4. jobs' = [jobs EXCEPT ![j] = r]
  BY DEF r
<1>5. StateOf' = [StateOf EXCEPT ![j] = "pending"]
  <2>1. StateOf' = [StateOf EXCEPT ![j] = r.status]
    BY <1>1, <1>4, OneRowView
  <2> QED
    BY <1>3, <2>1
<1>6. TriesOf' = [TriesOf EXCEPT ![j] = 0]
  <2>1. TriesOf' = [TriesOf EXCEPT ![j] = r.attempts]
    BY <1>1, <1>4, OneRowView
  <2> QED
    BY <1>3, <2>1
<1>7. BudgetOf' = BudgetOf
  BY <1>1, <1>3, <1>4, OneRowUnseen
<1>8. HolderOf' = HolderOf
  <2>1. HolderOf' = [HolderOf EXCEPT ![j] = NULL] /\ HolderOf[j] = NULL
    BY <1>1, <1>3, <1>4, OneRowUnseen, RowView
  <2> QED
    BY <2>1 DEF HolderOf
<1>9. LapsedOf' = LapsedOf /\ StateOf[j] = "dead"
  BY <1>1, <1>3, <1>4, OneRowUnseen, RowView
<1> QED
  BY <1>5, <1>6, <1>7, <1>8, <1>9 DEF Lifecycle!Revive

LEMMA ReclaimRefines ==
  ASSUME IndInv,
         jobs' = [j \in Job |-> IF Reapable(jobs[j]) THEN Reaped(jobs[j]) ELSE jobs[j]]
  PROVE  Lifecycle!Reclaim(LapsedOf)
<1>1. jobs \in [Job -> Row(Owners)]
  BY DEF IndInv, TypeOK
<1>2. \A j \in Job : Reapable(jobs[j]) <=> j \in LapsedOf
  BY DEF Reapable, LapsedOf
<1>3. \A j \in Job :
        /\ j \in LapsedOf => /\ jobs'[j].status = "pending"
                             /\ jobs'[j].attempts = jobs[j].attempts
                             /\ jobs'[j].max_attempts = jobs[j].max_attempts
        /\ j \notin LapsedOf => jobs'[j] = jobs[j]
  BY <1>1, <1>2 DEF Reaped, Row
<1>4. StateOf' = [j \in Job |-> IF j \in LapsedOf THEN "pending" ELSE StateOf[j]]
  BY <1>3 DEF StateOf
<1>5. HolderOf' = [j \in Job |-> IF j \in LapsedOf THEN NULL ELSE HolderOf[j]]
  BY <1>3 DEF HolderOf
<1>6. TriesOf' = TriesOf /\ BudgetOf' = BudgetOf
  BY <1>3 DEF TriesOf, BudgetOf
<1>7. LapsedOf' = LapsedOf \ LapsedOf
  BY <1>3 DEF LapsedOf
<1> QED
  BY <1>4, <1>5, <1>6, <1>7 DEF Lifecycle!Reclaim

\* One dead row or all of them.
LEMMA DiscardRefines ==
  ASSUME IndInv, NEW S \in SUBSET Job, \A j \in S : Deletable(jobs[j]),
         jobs' = [j \in Job |-> IF j \in S THEN Deleted ELSE jobs[j]]
  PROVE  Lifecycle!Discard(S)
<1>1. \A j \in Job : /\ j \in S => jobs'[j] = Deleted /\ jobs[j].status = "dead"
                     /\ j \notin S => jobs'[j] = jobs[j]
  BY DEF Deletable
<1>2. Deleted.status = "deleted" /\ Deleted.attempts = 0 /\ Deleted.max_attempts = 0
  BY DEF Deleted, BlankRow
<1>3. StateOf' = [j \in Job |-> IF j \in S THEN "deleted" ELSE StateOf[j]]
  BY <1>1, <1>2 DEF StateOf
<1>4. TriesOf' = [j \in Job |-> IF j \in S THEN 0 ELSE TriesOf[j]]
  BY <1>1, <1>2 DEF TriesOf
<1>5. BudgetOf' = [j \in Job |-> IF j \in S THEN 0 ELSE BudgetOf[j]]
  BY <1>1, <1>2 DEF BudgetOf
<1>6. HolderOf' = HolderOf
  BY <1>1, <1>2 DEF HolderOf
<1>7. LapsedOf' = LapsedOf
  BY <1>1, <1>2 DEF LapsedOf
<1>8. \A j \in S : StateOf[j] = "dead"
  BY <1>1 DEF StateOf
<1> QED
  BY <1>3, <1>4, <1>5, <1>6, <1>7, <1>8 DEF Lifecycle!Discard

-----------------------------------------------------------------------------

LEMMA TableStepRefines ==
  ASSUME IndInv, TableStep
  PROVE  [Lifecycle!Next]_(Lifecycle!vars)
<1>1. CASE jobs' = jobs
  BY <1>1 DEF Lifecycle!vars, StateOf, HolderOf, TriesOf, BudgetOf, LapsedOf
<1>2. ASSUME NEW j \in Job, NEW max \in 1..MaxAttempts,
             jobs[j].status = "unused", jobs' = [jobs EXCEPT ![j] = Inserted(max)]
      PROVE  Lifecycle!Next
  <2>1. jobs[j].attempts = 0
    BY <1>2 DEF IndInv, RowConsistent
  <2> QED
    BY <1>2, <2>1, SubmitRefines DEF Lifecycle!Next
<1>3. ASSUME NEW j \in Job, NEW w \in Worker, Claimable(jobs[j]),
             jobs' = [jobs EXCEPT ![j] = Claimed(jobs[j], Owner(w))]
      PROVE  Lifecycle!Next
  BY <1>3, GrantRefines, OwnerType DEF Lifecycle!Next, IndInv
<1>4. ASSUME NEW j \in Job,
             \/ jobs[j].status = "running" /\ jobs' = [jobs EXCEPT ![j] = Renewed(jobs[j])]
             \/ LeaseExpires(j)
             \/ jobs[j].status = "running" /\ jobs' = [jobs EXCEPT ![j] = Succeeded(jobs[j])]
             \/ \E delay \in {"past", "future"} :
                  /\ jobs[j].status = "running"
                  /\ jobs' = [jobs EXCEPT ![j] =
                       Failed(jobs[j], jobs[j].attempts, jobs[j].max_attempts, delay)]
             \/ Cancelable(jobs[j]) /\ jobs' = [jobs EXCEPT ![j] = Canceled(jobs[j])]
             \/ Retryable(jobs[j]) /\ jobs' = [jobs EXCEPT ![j] = Retried(jobs[j])]
      PROVE  Lifecycle!Next
  BY <1>4, ExtendRefines, ExpireRefines, CompleteRefines, FailureRefines, WithdrawRefines,
     ReviveRefines
  DEF Lifecycle!Next
<1>5. ASSUME NEW j \in Job, BackoffElapses(j)
      PROVE  UNCHANGED Lifecycle!vars
  BY <1>5, BackoffRefines
<1>6. ASSUME NEW j \in Job, Deletable(jobs[j]), jobs' = [jobs EXCEPT ![j] = Deleted]
      PROVE  Lifecycle!Next
  <2>1. jobs' = [i \in Job |-> IF i \in {j} THEN Deleted ELSE jobs[i]]
    BY <1>6 DEF IndInv, TypeOK
  <2>2. Lifecycle!Discard({j})
    BY <1>6, <2>1, DiscardRefines
  <2> QED
    BY <2>2 DEF Lifecycle!Next
<1>7. CASE jobs' = [j \in Job |-> IF Reapable(jobs[j]) THEN Reaped(jobs[j]) ELSE jobs[j]]
  <2>1. Lifecycle!Reclaim(LapsedOf) /\ LapsedOf \in SUBSET Job
    BY <1>7, ReclaimRefines DEF LapsedOf
  <2> QED
    BY <2>1 DEF Lifecycle!Next
<1>8. CASE jobs' = [j \in Job |-> IF Deletable(jobs[j]) THEN Deleted ELSE jobs[j]]
  <2> DEFINE S == {j \in Job : Deletable(jobs[j])}
  <2>1. jobs' = [j \in Job |-> IF j \in S THEN Deleted ELSE jobs[j]]
    BY <1>8
  <2>2. S \in SUBSET Job /\ \A j \in S : Deletable(jobs[j])
    OBVIOUS
  <2> HIDE DEF S
  <2>3. Lifecycle!Discard(S)
    BY <2>1, <2>2, DiscardRefines
  <2> QED
    BY <2>2, <2>3 DEF Lifecycle!Next
<1> QED
  BY <1>1, <1>2, <1>3, <1>4, <1>5, <1>6, <1>7, <1>8 DEF TableStep

\* The whole system, with its concurrency and its failures, behaves like the
\* life of a job that JobLifecycle describes.
THEOREM Refinement == Spec => RefinesLifecycle
<1>1. IndInv /\ [Next]_vars => [Lifecycle!Next]_(Lifecycle!vars)
  BY TableSteps, TableStepRefines
<1> QED
  BY <1>1, InitRefines, Invariance, PTL DEF Spec, RefinesLifecycle, Lifecycle!Spec
===============================================================================
