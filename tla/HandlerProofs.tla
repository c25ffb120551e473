----------------------------- MODULE HandlerProofs -----------------------------
(***************************************************************************)
(* A success is work done, and a webhook is posted once per claim and per  *)
(* redirect that asks for it, for any number of jobs and workers, any      *)
(* payloads, any budget and any number of requests a client may send.      *)
(***************************************************************************)
EXTENDS JobTypes, FiniteSetTheorems, TLAPS

\* The table's part of TypeOK.  A job was claimed at least as often as its tries
\* say: RetryDead starts counting anew.
TableOK ==
  /\ state \in [Job -> Jobs!States]
  /\ holder \in [Job -> Holder \cup {NoHolder}]
  /\ tries \in [Job -> Nat]
  /\ \A j \in Job : tries[j] <= grants[j]
  /\ budget \in [Job -> 0..MaxBudget]
  /\ lapsed \in SUBSET Job

\* A worker that is not idle has a job; its POST is out or in while it waits,
\* and client.Do has a request left when it is about to send one.
RunOK(r, D) ==
  /\ r.pc # "idle" => r.job \in Job
  /\ r.post # "none" => r.pc \in {"posting", "waiting"}
  /\ r.post \in {"out", "in"} => r.pc = "waiting"
  /\ r.post = "out" => r.sent > 0
  /\ r.pc = "posting" => r.sent < MaxRequests
  /\ r.pc = "called" => r.sent = 0
  /\ r.pc = "ok" => r.job \in D

RunConsistent == \A h \in Holder : RunOK(run[h], done)

\* A run that may still bring a receiver a POST that is paid for.
Owes(r) ==
  \/ r.pc = "called"
  \/ r.pc = "posting" /\ r.post # "get"
  \/ r.post = "out"

Owing(j) == {h \in Holder : run[h].job = j /\ Owes(run[h])}

\* Claims, and redirects that ask for it, pay for the POSTs that came, that are
\* astray, and that may be sent.
PaidFor ==
  \A j \in Job : got[j] + stray[j] + Cardinality(Owing(j)) <= grants[j] + again[j]

\* The n-th request of a run may still come to a receiver as a POST nobody has
\* counted.
May(r, n) ==
  \/ r.pc \in {"called", "posting", "waiting"} /\ n > r.sent
  \/ r.post = "out" /\ n = r.sent

Coming(j) ==
  {c \in Holder \X (1..MaxRequests) : run[c[1]].job = j /\ May(run[c[1]], c[2])}

\* Each claim pays for all the requests its client.Do may send.
Bounded ==
  \A j \in Job : got[j] + stray[j] + Cardinality(Coming(j)) <= MaxRequests * grants[j]

IInv ==
  TypeOK /\ TableOK /\ RunConsistent /\ SuccessMeansDone /\ PaidFor /\ Bounded

-----------------------------------------------------------------------------

LEMMA OwingIsFinite ==
  ASSUME NEW j \in Job
  PROVE  /\ IsFiniteSet(Owing(j)) /\ Cardinality(Owing(j)) \in Nat
         /\ IsFiniteSet(Owing(j)') /\ Cardinality(Owing(j)') \in Nat
<1>1. Owing(j) \subseteq Holder /\ Owing(j)' \subseteq Holder
  BY DEF Owing
<1> QED
  BY <1>1, TypesConstantsOK, FS_Subset, FS_CardinalityType

LEMMA ComingIsFinite ==
  ASSUME NEW j \in Job
  PROVE  /\ IsFiniteSet(Coming(j)) /\ Cardinality(Coming(j)) \in Nat
         /\ IsFiniteSet(Coming(j)') /\ Cardinality(Coming(j)') \in Nat
<1>1. IsFiniteSet(1..MaxRequests)
  BY TypesConstantsOK, FS_Interval
<1>2. IsFiniteSet(Holder \X (1..MaxRequests))
  BY <1>1, TypesConstantsOK, FS_Product
<1>3. /\ Coming(j) \subseteq Holder \X (1..MaxRequests)
      /\ Coming(j)' \subseteq Holder \X (1..MaxRequests)
  BY DEF Coming
<1> QED
  BY <1>2, <1>3, FS_Subset, FS_CardinalityType

LEMMA InitInv == Init => IInv
<1> SUFFICES ASSUME Init PROVE IInv
  OBVIOUS
<1>1. Idle \in Run /\ RunOK(Idle, done) /\ ~Owes(Idle) /\ \A n \in Nat : ~May(Idle, n)
  BY TypesConstantsOK DEF Idle, Run, RunOK, Owes, May
<1>2. TypeOK /\ TableOK
  BY <1>1, TypesConstantsOK DEF Init, Jobs!Init, Jobs!States, TypeOK, TableOK, Type, Registered
<1>3. RunConsistent /\ SuccessMeansDone
  BY <1>1 DEF Init, Jobs!Init, RunConsistent, SuccessMeansDone
<1>4. \A j \in Job : Owing(j) = {} /\ Coming(j) = {}
  <2>1. \A h \in Holder : run[h] = Idle
    BY DEF Init
  <2> QED
    BY <1>1, <2>1 DEF Owing, Coming
<1>5. \A j \in Job : Cardinality(Owing(j)) = 0 /\ Cardinality(Coming(j)) = 0
  BY <1>4, FS_EmptySet
<1>6. \A j \in Job : got[j] = 0 /\ stray[j] = 0 /\ again[j] = 0 /\ grants[j] = 0
  BY DEF Init
<1>7. PaidFor
  BY <1>5, <1>6 DEF PaidFor
<1>8. Bounded
  <2>1. MaxRequests * 0 = 0
    BY TypesConstantsOK
  <2> QED
    BY <1>5, <1>6, <2>1 DEF Bounded
<1> QED
  BY <1>2, <1>3, <1>7, <1>8 DEF IInv

\* What a step of the table does to it.  (Nobody but Complete makes a success.)
LEMMA TableSteps ==
  ASSUME IInv, NEW j \in Job, grants' = grants,
         \/ \E max \in 1..MaxBudget : Jobs!Submit(j, max)
         \/ Jobs!Complete(j) \/ Jobs!Requeue(j) \/ Jobs!Bury(j)
         \/ Jobs!Expire(j) \/ Jobs!Extend(j) \/ Jobs!Reclaim({j})
         \/ Jobs!Withdraw(j) \/ Jobs!Revive(j) \/ Jobs!Discard({j})
         \/ UNCHANGED queue
  PROVE  /\ TableOK'
         /\ \A k \in Job : state'[k] = "success" =>
              state[k] = "success" \/ (k = j /\ Jobs!Complete(j))
<1>1. TableOK /\ grants \in [Job -> Nat] /\ \A k \in Job : grants[k] \in Nat
  BY DEF IInv, TypeOK
<1>2. CASE \E max \in 1..MaxBudget : Jobs!Submit(j, max)
  BY <1>1, <1>2, TypesConstantsOK DEF TableOK, Jobs!Submit, Jobs!States
<1>3. CASE Jobs!Complete(j)
  BY <1>1, <1>3 DEF TableOK, Jobs!Complete, Jobs!Leave, Jobs!States
<1>4. CASE Jobs!Requeue(j) \/ Jobs!Bury(j)
  BY <1>1, <1>4 DEF TableOK, Jobs!Requeue, Jobs!Bury, Jobs!Leave, Jobs!States
<1>5. CASE Jobs!Expire(j) \/ Jobs!Extend(j)
  BY <1>1, <1>5 DEF TableOK, Jobs!Expire, Jobs!Extend
<1>6. CASE Jobs!Reclaim({j})
  BY <1>1, <1>6 DEF TableOK, Jobs!Reclaim, Jobs!States
<1>7. CASE Jobs!Withdraw(j)
  BY <1>1, <1>7 DEF TableOK, Jobs!Withdraw, Jobs!States
<1>8. CASE Jobs!Revive(j)
  BY <1>1, <1>8 DEF TableOK, Jobs!Revive, Jobs!States
<1>9. CASE Jobs!Discard({j})
  BY <1>1, <1>9, TypesConstantsOK DEF TableOK, Jobs!Discard, Jobs!States
<1>10. CASE UNCHANGED queue
  BY <1>1, <1>10 DEF TableOK, queue
<1> QED
  BY <1>2, <1>3, <1>4, <1>5, <1>6, <1>7, <1>8, <1>9, <1>10

\* What a run owes to the POSTs of job j.
Due(r, j) == IF r.job = j /\ Owes(r) THEN 1 ELSE 0

\* Of the runs of a job only one changes: the number of those that owe changes
\* by what that one owes.
LEMMA OneRunOwes ==
  ASSUME TypeOK, NEW h \in Holder, NEW r \in Run, NEW j \in Job,
         run' = [run EXCEPT ![h] = r]
  PROVE  Cardinality(Owing(j)') + Due(run[h], j) = Cardinality(Owing(j)) + Due(r, j)
<1> DEFINE Others == {g \in Holder \ {h} : run[g].job = j /\ Owes(run[g])}
<1>1. run'[h] = r /\ \A g \in Holder \ {h} : run'[g] = run[g]
  BY DEF TypeOK
<1>2. Owing(j) = IF Due(run[h], j) = 1 THEN Others \cup {h} ELSE Others
  BY DEF Owing, Due
<1>3. Owing(j)' = IF Due(r, j) = 1 THEN Others \cup {h} ELSE Others
  BY <1>1 DEF Owing, Due, Owes
<1>4. h \notin Others /\ Others \subseteq Holder
  OBVIOUS
<1> HIDE DEF Others
<1>5. IsFiniteSet(Others) /\ Cardinality(Others) \in Nat
  BY <1>4, TypesConstantsOK, FS_Subset, FS_CardinalityType
<1>6. Cardinality(Others \cup {h}) = Cardinality(Others) + 1
  BY <1>4, <1>5, FS_AddElement
<1>7. Cardinality(Owing(j)) = Cardinality(Others) + Due(run[h], j)
  <2>1. CASE Due(run[h], j) = 1
    BY <1>2, <1>6, <2>1
  <2>2. CASE Due(run[h], j) = 0
    BY <1>2, <1>5, <2>2
  <2> QED
    BY <2>1, <2>2 DEF Due
<1>8. Cardinality(Owing(j)') = Cardinality(Others) + Due(r, j)
  <2>1. CASE Due(r, j) = 1
    BY <1>3, <1>6, <2>1
  <2>2. CASE Due(r, j) = 0
    BY <1>3, <1>5, <2>2
  <2> QED
    BY <2>1, <2>2 DEF Due
<1>9. Due(run[h], j) \in {0, 1} /\ Due(r, j) \in {0, 1}
  BY DEF Due
<1> DEFINE a == Due(run[h], j)
           b == Due(r, j)
<1> HIDE DEF a, b
<1>10. a \in {0, 1} /\ b \in {0, 1}
  BY <1>9 DEF a, b
<1> QED
  BY <1>5, <1>7, <1>8, <1>10 DEF a, b

\* A run that can send no request it could not send before brings no more POSTs,
\* and if it can send one request less, one POST less.
LEMMA OneRunComes ==
  ASSUME TypeOK, NEW h \in Holder, NEW r \in Run, NEW j \in Job,
         run' = [run EXCEPT ![h] = r],
         \A n \in 1..MaxRequests : May(r, n) => May(run[h], n) /\ r.job = run[h].job
  PROVE  /\ Cardinality(Coming(j)') <= Cardinality(Coming(j))
         /\ \A n \in 1..MaxRequests :
              (j = run[h].job /\ May(run[h], n) /\ ~May(r, n)) =>
                Cardinality(Coming(j)') <= Cardinality(Coming(j)) - 1
<1>1. run'[h] = r /\ \A g \in Holder \ {h} : run'[g] = run[g]
  BY DEF TypeOK
<1>2. Coming(j)' \subseteq Coming(j)
  <2> SUFFICES ASSUME NEW g \in Holder, NEW n \in 1..MaxRequests, run'[g].job = j, May(run'[g], n)
               PROVE  run[g].job = j /\ May(run[g], n)
    BY DEF Coming, May
  <2> QED
    BY <1>1
<1>3. Cardinality(Coming(j)') <= Cardinality(Coming(j))
  BY <1>2, ComingIsFinite, FS_Subset
<1>4. ASSUME NEW n \in 1..MaxRequests, j = run[h].job, May(run[h], n), ~May(r, n)
      PROVE  Cardinality(Coming(j)') <= Cardinality(Coming(j)) - 1
  <2> DEFINE c == <<h, n>>
  <2>1. c \in Coming(j)
    BY <1>4 DEF Coming
  <2>2. c \notin Coming(j)'
    BY <1>1, <1>4 DEF Coming, May
  <2> HIDE DEF c
  <2>3. Coming(j)' \subseteq Coming(j) \ {c}
    BY <1>2, <2>2
  <2>4. /\ IsFiniteSet(Coming(j) \ {c})
        /\ Cardinality(Coming(j) \ {c}) = Cardinality(Coming(j)) - 1
    BY <2>1, ComingIsFinite, FS_RemoveElement
  <2> QED
    BY <2>3, <2>4, FS_Subset
<1> QED
  BY <1>3, <1>4

\* A step of one run.  The POST it brings to the receiver, or sets astray, was
\* owed, and was one of those that were to come; a redirect pays for one more.
LEMMA RunSteps ==
  ASSUME IInv, NEW h \in Holder, NEW r \in Run,
         run' = [run EXCEPT ![h] = r], UNCHANGED <<task, grants>>,
         TableOK',
         \A j \in Job : state'[j] = "success" => j \in done',
         done \subseteq done', done' \subseteq Job,
         RunOK(r, done'),
         r.pc = "idle" \/ r.job = run[h].job,
         got' \in [Job -> Nat], stray' \in [Job -> Nat], again' \in [Job -> Nat],
         \A j \in Job :
           got'[j] + stray'[j] + again[j] + Due(r, j) <=
             got[j] + stray[j] + again'[j] + Due(run[h], j),
         \A n \in 1..MaxRequests : May(r, n) => May(run[h], n),
         \A j \in Job :
           \/ got'[j] + stray'[j] <= got[j] + stray[j]
           \/ /\ got'[j] + stray'[j] <= got[j] + stray[j] + 1
              /\ j = run[h].job
              /\ \E n \in 1..MaxRequests : May(run[h], n) /\ ~May(r, n)
  PROVE  IInv'
<1>1. /\ TypeOK /\ RunConsistent /\ PaidFor /\ Bounded /\ run' \in [Holder -> Run]
      /\ run'[h] = r /\ \A g \in Holder \ {h} : run'[g] = run[g]
  BY DEF IInv, TypeOK
<1>2. TypeOK'
  <2>1. \A j \in Job : tries'[j] \in 0..GrantLimit
    BY <1>1, TypesConstantsOK DEF TypeOK, TableOK
  <2>2. tries' \in [Job -> 0..GrantLimit]
    BY <2>1 DEF TableOK
  <2> QED
    BY <1>1, <2>2 DEF TypeOK, TableOK
<1>3. RunConsistent'
  <2>1. \A g \in Holder : RunOK(run'[g], done')
    BY <1>1 DEF RunConsistent, RunOK
  <2> QED
    BY <2>1 DEF RunConsistent, RunOK
<1>4. ASSUME NEW j \in Job
      PROVE  /\ got[j] \in Nat /\ stray[j] \in Nat /\ again[j] \in Nat /\ grants[j] \in Nat
             /\ got'[j] \in Nat /\ stray'[j] \in Nat /\ again'[j] \in Nat
             /\ grants'[j] = grants[j]
             /\ Due(r, j) \in {0, 1} /\ Due(run[h], j) \in {0, 1}
  BY <1>1 DEF TypeOK, Due
<1>5. PaidFor'
  <2> SUFFICES ASSUME NEW j \in Job
               PROVE  got'[j] + stray'[j] + Cardinality(Owing(j)') <= grants'[j] + again'[j]
    BY DEF PaidFor
  <2>1. Cardinality(Owing(j)') + Due(run[h], j) = Cardinality(Owing(j)) + Due(r, j)
    <3>1. TypeOK /\ run' = [run EXCEPT ![h] = r]
      BY <1>1
    <3> QED
      BY ONLY <3>1, h \in Holder, r \in Run, j \in Job, OneRunOwes
  <2>2. got[j] + stray[j] + Cardinality(Owing(j)) <= grants[j] + again[j]
    BY <1>1 DEF PaidFor
  <2> QED
    BY <1>4, <2>1, <2>2, OwingIsFinite
<1>6. Bounded'
  <2> SUFFICES ASSUME NEW j \in Job
               PROVE  got'[j] + stray'[j] + Cardinality(Coming(j)') <= MaxRequests * grants'[j]
    BY DEF Bounded
  <2>1. \A n \in 1..MaxRequests : May(r, n) => May(run[h], n) /\ r.job = run[h].job
    BY DEF May, RunOK
  <2>2. got[j] + stray[j] + Cardinality(Coming(j)) <= MaxRequests * grants[j]
    BY <1>1 DEF Bounded
  <2> DEFINE m == MaxRequests * grants[j]
  <2>3. m \in Nat /\ MaxRequests * grants'[j] = m
    BY <1>4, TypesConstantsOK
  <2> HIDE DEF m
  <2>4. CASE got'[j] + stray'[j] <= got[j] + stray[j]
    <3>1. Cardinality(Coming(j)') <= Cardinality(Coming(j))
      BY <1>1, <2>1, OneRunComes
    <3> QED
      BY <1>4, <2>2, <2>3, <2>4, <3>1, ComingIsFinite DEF m
  <2>5. CASE /\ got'[j] + stray'[j] <= got[j] + stray[j] + 1
             /\ j = run[h].job
             /\ \E n \in 1..MaxRequests : May(run[h], n) /\ ~May(r, n)
    <3>1. Cardinality(Coming(j)') <= Cardinality(Coming(j)) - 1
      BY <1>1, <2>1, <2>5, OneRunComes
    <3> QED
      BY <1>4, <2>2, <2>3, <2>5, <3>1, ComingIsFinite DEF m
  <2> QED
    BY <2>4, <2>5
<1> QED
  BY <1>2, <1>3, <1>5, <1>6 DEF IInv, SuccessMeansDone

-----------------------------------------------------------------------------
(* The steps of a handler, and of its worker.                              *)

\* A step of a run alone: nothing arrives, goes astray or is recorded.  It owes
\* no POST it did not owe, unless a redirect pays for it.
LEMMA LocalSteps ==
  ASSUME IInv, NEW h \in Holder, NEW r \in Run,
         Becomes(h, r), UNCHANGED <<stray, got>>,
         r.job = run[h].job, run[h].job \in Job,
         RunOK(r, done'),
         \/ again' = again /\ (Owes(r) => Owes(run[h]))
         \/ again' = [again EXCEPT ![run[h].job] = @ + 1],
         \A n \in 1..MaxRequests : May(r, n) => May(run[h], n),
         done' = done \cup {run[h].job} \/ done' = done
  PROVE  IInv'
<1>1. /\ run' = [run EXCEPT ![h] = r]
      /\ UNCHANGED <<task, grants, queue>>
  BY DEF Becomes
<1>2. TypeOK /\ done \subseteq Job
  BY DEF IInv, TypeOK
<1>3. TableOK' /\ \A j \in Job : state'[j] = "success" => j \in done'
  BY <1>1 DEF IInv, TableOK, SuccessMeansDone, queue
<1>4. done \subseteq done' /\ done' \subseteq Job
  BY <1>2
<1>5. got' \in [Job -> Nat] /\ stray' \in [Job -> Nat] /\ again' \in [Job -> Nat]
  BY <1>2 DEF TypeOK
<1>6. \A j \in Job :
        got'[j] + stray'[j] + again[j] + Due(r, j) <=
          got[j] + stray[j] + again'[j] + Due(run[h], j)
  <2> SUFFICES ASSUME NEW j \in Job PROVE again[j] + Due(r, j) <= again'[j] + Due(run[h], j)
    BY <1>2, <1>5 DEF TypeOK, Due
  <2> QED
    BY <1>2 DEF TypeOK, Due
<1>7. \A j \in Job : got'[j] + stray'[j] <= got[j] + stray[j]
  BY <1>2 DEF TypeOK
<1> QED
  BY <1>1, <1>3, <1>4, <1>5, <1>6, <1>7, RunSteps

LEMMA GoesSteps ==
  ASSUME IInv, NEW h \in Holder, NEW pc \in {"posting", "asleep", "failed"},
         Goes(h, pc), run[h].pc # "idle", run[h].post = "none",
         pc = "posting" => run[h].pc = "called"
  PROVE  IInv'
<1> DEFINE r == [run[h] EXCEPT !.pc = pc]
<1>1. run[h] \in Run /\ RunOK(run[h], done)
  BY DEF IInv, TypeOK, RunConsistent
<1>2. /\ r \in Run /\ r.job = run[h].job /\ r.post = "none" /\ r.pc = pc
      /\ r.sent = run[h].sent
  BY <1>1 DEF Run
<1>3. (Owes(r) => Owes(run[h])) /\ \A n \in 1..MaxRequests : May(r, n) => May(run[h], n)
  BY <1>2 DEF Owes, May
<1>4. RunOK(r, done) /\ run[h].job \in Job
  BY <1>1, <1>2, TypesConstantsOK DEF RunOK
<1>5. Becomes(h, r) /\ UNCHANGED <<stray, got, again, done>>
  BY DEF Goes
<1> HIDE DEF r
<1> QED
  BY <1>2, <1>3, <1>4, <1>5, LocalSteps

\* A run that is over owes nothing.
LEMMA EndedRun ==
  ASSUME IInv, NEW h \in Holder, NEW pc \in {"ok", "failed"}, run[h].pc # "idle"
  PROVE  LET r == Ended(h, pc)
         IN  /\ r \in Run /\ r.job = run[h].job /\ r.job \in Job
             /\ ~Owes(r) /\ \A n \in 1..MaxRequests : ~May(r, n)
             /\ \A D : (pc = "ok" => r.job \in D) => RunOK(r, D)
<1> DEFINE r == Ended(h, pc)
<1>1. run[h] \in Run /\ run[h].job \in Job
  BY DEF IInv, TypeOK, RunConsistent, RunOK
<1>2. r \in Run /\ r.job = run[h].job /\ r.post = "none" /\ r.pc = pc
  <2>1. 0 \in 0..MaxRequests
    BY TypesConstantsOK
  <2> QED
    BY <1>1, <2>1 DEF Ended, Run
<1> HIDE DEF r
<1>3. ~Owes(r) /\ \A n \in 1..MaxRequests : ~May(r, n)
  BY <1>2 DEF Owes, May
<1>4. \A D : (pc = "ok" => r.job \in D) => RunOK(r, D)
  BY <1>1, <1>2 DEF RunOK
<1> QED
  BY <1>1, <1>2, <1>3, <1>4 DEF r

LEMMA FinishesSteps ==
  ASSUME IInv, NEW h \in Holder, Finishes(h), run[h].pc # "idle"
  PROVE  IInv'
<1> DEFINE r == Ended(h, "ok")
<1>1. /\ r \in Run /\ r.job = run[h].job /\ r.job \in Job
      /\ ~Owes(r) /\ \A n \in 1..MaxRequests : ~May(r, n)
      /\ \A D : r.job \in D => RunOK(r, D)
  BY EndedRun
<1>2. Becomes(h, r) /\ UNCHANGED <<stray, got, again>> /\ done' = done \cup {run[h].job}
  BY DEF Finishes
<1> HIDE DEF r
<1>3. RunOK(r, done')
  BY <1>1, <1>2
<1> QED
  BY <1>1, <1>2, <1>3, LocalSteps

LEMMA FailsSteps ==
  ASSUME IInv, NEW h \in Holder, Fails(h), run[h].pc # "idle"
  PROVE  IInv'
<1> DEFINE r == Ended(h, "failed")
<1>1. /\ r \in Run /\ r.job = run[h].job /\ r.job \in Job
      /\ ~Owes(r) /\ \A n \in 1..MaxRequests : ~May(r, n)
      /\ \A D : RunOK(r, D)
  BY EndedRun
<1>2. Becomes(h, r) /\ UNCHANGED <<stray, got, again, done>>
  BY DEF Fails
<1> HIDE DEF r
<1> QED
  BY <1>1, <1>2, LocalSteps

\* The POST that is out is owed, and one of those that are to come.
LEMMA OutIsOwed ==
  ASSUME IInv, NEW h \in Holder, run[h].post = "out"
  PROVE  /\ Owes(run[h]) /\ run[h].job \in Job
         /\ run[h].sent \in 1..MaxRequests /\ May(run[h], run[h].sent)
<1>1. run[h] \in Run /\ RunOK(run[h], done)
  BY DEF IInv, TypeOK, RunConsistent
<1> QED
  BY <1>1, TypesConstantsOK DEF Run, RunOK, Owes, May

\* A run is cut off, or stops waiting: what is out may still arrive.
LEMMA AbandonedSteps ==
  ASSUME IInv, NEW h \in Holder, NEW r \in Run,
         run' = [run EXCEPT ![h] = r],
         UNCHANGED <<queue, task, got, again, done, grants>>,
         Abandoned(h),
         r.pc = "idle" \/ r.job = run[h].job,
         RunOK(r, done), ~Owes(r), \A n \in 1..MaxRequests : ~May(r, n)
  PROVE  IInv'
<1>1. TypeOK
  BY DEF IInv
<1>2. TableOK' /\ \A j \in Job : state'[j] = "success" => j \in done'
  BY DEF IInv, TableOK, SuccessMeansDone, queue
<1>3. done' \subseteq Job /\ done \subseteq done'
  BY <1>1 DEF TypeOK
<1>4. got' \in [Job -> Nat] /\ stray' \in [Job -> Nat] /\ again' \in [Job -> Nat]
  BY <1>1, OutIsOwed DEF TypeOK, Abandoned
<1>5. \A j \in Job : Due(r, j) = 0
  BY DEF Due
<1>6. \A j \in Job :
        got'[j] + stray'[j] + again[j] + Due(r, j) <=
          got[j] + stray[j] + again'[j] + Due(run[h], j)
  BY <1>1, <1>5, OutIsOwed DEF TypeOK, Abandoned, Due
<1>7. \A j \in Job :
        \/ got'[j] + stray'[j] <= got[j] + stray[j]
        \/ /\ got'[j] + stray'[j] <= got[j] + stray[j] + 1
           /\ j = run[h].job
           /\ \E n \in 1..MaxRequests : May(run[h], n) /\ ~May(r, n)
  BY <1>1, OutIsOwed DEF TypeOK, Abandoned
<1> QED
  BY <1>2, <1>3, <1>4, <1>6, <1>7, RunSteps

LEMMA CalledInv == ASSUME IInv, NEW h \in Holder, Called(h) PROVE IInv'
<1> DEFINE t == task[run[h].job].type
           n == PayloadOf(h).n
           r == [run[h] EXCEPT !.pc = "rows", !.left = n]
<1>1. /\ run[h] \in Run /\ run[h].pc = "called" /\ run[h].post = "none"
      /\ run[h].job \in Job
  BY DEF IInv, TypeOK, RunConsistent, RunOK, Called, At
<1>2. CASE \E pc \in {"posting", "asleep", "failed"} : Goes(h, pc)
  BY <1>1, <1>2, GoesSteps
<1>3. CASE /\ t = "generate_report" /\ ValidatePayload(t, PayloadOf(h))
           /\ Becomes(h, r) /\ UNCHANGED <<stray, got, again, done>>
  <2>1. task[run[h].job].payload \in Payload
    BY <1>1 DEF IInv, TypeOK
  <2>2. n \in Nat
    BY <1>3, <2>1, TypesConstantsOK DEF ValidatePayload, PayloadOf
  <2>3. r \in Run /\ r.job = run[h].job /\ r.post = "none" /\ r.pc = "rows"
    BY <1>1, <2>2 DEF Run
  <2> HIDE DEF r
  <2>4. ~Owes(r) /\ RunOK(r, done) /\ \A m \in 1..MaxRequests : ~May(r, m)
    BY <1>1, <2>3 DEF Owes, RunOK, May
  <2> QED
    BY <1>1, <1>3, <2>3, <2>4, LocalSteps
<1>4. t \notin Registered \/ ~ValidatePayload(t, PayloadOf(h)) => Goes(h, "failed")
  BY DEF Called
<1>5. t \in Registered /\ ValidatePayload(t, PayloadOf(h)) =>
        \/ Goes(h, "posting") \/ Goes(h, "asleep")
        \/ /\ t = "generate_report"
           /\ Becomes(h, r) /\ UNCHANGED <<stray, got, again, done>>
  BY DEF Called, Registered
<1> HIDE DEF t, r
<1> QED
  BY <1>2, <1>3, <1>4, <1>5

LEMMA PostsInv == ASSUME IInv, NEW h \in Holder, Posts(h) PROVE IInv'
<1> DEFINE r == [run[h] EXCEPT !.pc = "waiting", !.sent = @ + 1,
                               !.post = IF @ = "get" THEN "get" ELSE "out"]
<1>1. /\ run[h] \in Run /\ RunOK(run[h], done) /\ run[h].pc = "posting"
      /\ run[h].job \in Job /\ run[h].sent < MaxRequests /\ run[h].sent \in Nat
  BY DEF IInv, TypeOK, RunConsistent, RunOK, Run, Posts, At
<1>2. CASE Fails(h)
  BY <1>1, <1>2, FailsSteps
<1>3. CASE Becomes(h, r) /\ UNCHANGED <<stray, got, again, done>>
  <2>1. /\ r \in Run /\ r.job = run[h].job /\ r.pc = "waiting" /\ r.sent = run[h].sent + 1
        /\ r.post = IF run[h].post = "get" THEN "get" ELSE "out"
    <3> DEFINE k == run[h].sent + 1
               post == IF run[h].post = "get" THEN "get" ELSE "out"
    <3>1. k \in 0..MaxRequests /\ post \in {"get", "out"}
      BY <1>1, TypesConstantsOK
    <3>2. r = [run[h] EXCEPT !.pc = "waiting", !.sent = k, !.post = post]
      BY <1>1 DEF Run
    <3> HIDE DEF r, k, post
    <3>3. r \in Run /\ r.job = run[h].job /\ r.pc = "waiting" /\ r.sent = k /\ r.post = post
      BY <1>1, <3>1, <3>2 DEF Run
    <3> QED
      BY <3>3 DEF k, post
  <2> HIDE DEF r
  <2>2. RunOK(r, done)
    BY <1>1, <2>1 DEF RunOK
  <2>3. Owes(r) => Owes(run[h])
    BY <1>1, <2>1 DEF Owes
  <2>4. \A n \in 1..MaxRequests : May(r, n) => May(run[h], n)
    BY <1>1, <2>1, TypesConstantsOK DEF May
  <2> QED
    BY <1>1, <1>3, <2>1, <2>2, <2>3, <2>4, LocalSteps
<1> QED
  BY <1>2, <1>3 DEF Posts

\* The POST that was out is the one that came.
LEMMA ArrivesInv == ASSUME IInv, NEW h \in Holder, Arrives(h) PROVE IInv'
<1> DEFINE r == [run[h] EXCEPT !.post = "in"]
           k == run[h].sent
<1>1. /\ TypeOK /\ run[h] \in Run /\ RunOK(run[h], done) /\ run[h].post = "out"
      /\ run[h].pc = "waiting" /\ run[h].job \in Job /\ Owes(run[h])
      /\ k \in 1..MaxRequests /\ May(run[h], k)
  BY OutIsOwed DEF IInv, TypeOK, RunConsistent, RunOK, Arrives
<1>2. /\ r \in Run /\ r.job = run[h].job /\ r.pc = "waiting" /\ r.post = "in"
      /\ r.sent = k
  BY <1>1 DEF Run
<1>3. /\ run' = [run EXCEPT ![h] = r]
      /\ UNCHANGED <<queue, task, grants, stray, again, done>>
      /\ got' = [got EXCEPT ![run[h].job] = @ + 1]
  BY DEF Arrives, Becomes
<1> HIDE DEF r, k
<1>4. /\ RunOK(r, done) /\ ~Owes(r) /\ ~May(r, k)
      /\ \A n \in 1..MaxRequests : May(r, n) => May(run[h], n)
  BY <1>1, <1>2 DEF RunOK, Owes, May, k
<1>5. TableOK' /\ \A j \in Job : state'[j] = "success" => j \in done'
  BY <1>3 DEF IInv, TableOK, SuccessMeansDone, queue
<1>6. got' \in [Job -> Nat] /\ stray' \in [Job -> Nat] /\ again' \in [Job -> Nat]
  BY <1>1, <1>3 DEF TypeOK
<1>7. \A j \in Job :
        got'[j] + stray'[j] + again[j] + Due(r, j) <=
          got[j] + stray[j] + again'[j] + Due(run[h], j)
  BY <1>1, <1>3, <1>4 DEF TypeOK, Due
<1>8. \A j \in Job :
        \/ got'[j] + stray'[j] <= got[j] + stray[j]
        \/ /\ got'[j] + stray'[j] <= got[j] + stray[j] + 1
           /\ j = run[h].job
           /\ \E n \in 1..MaxRequests : May(run[h], n) /\ ~May(r, n)
  BY <1>1, <1>3, <1>4 DEF TypeOK
<1>9. done \subseteq done' /\ done' \subseteq Job
  BY <1>1, <1>3 DEF TypeOK
<1> QED
  BY <1>2, <1>3, <1>4, <1>5, <1>6, <1>7, <1>8, <1>9, RunSteps

LEMMA StopsWaitingInv == ASSUME IInv, NEW h \in Holder, StopsWaiting(h) PROVE IInv'
<1> DEFINE r == Ended(h, "failed")
<1>1. run[h].pc = "waiting"
  BY DEF StopsWaiting, At
<1>2. /\ r \in Run /\ r.job = run[h].job
      /\ ~Owes(r) /\ \A n \in 1..MaxRequests : ~May(r, n)
      /\ \A D : RunOK(r, D)
  BY <1>1, EndedRun
<1>3. /\ run' = [run EXCEPT ![h] = r]
      /\ UNCHANGED <<queue, task, got, again, done, grants>> /\ Abandoned(h)
  BY DEF StopsWaiting, Becomes
<1> HIDE DEF r
<1> QED
  BY <1>2, <1>3, AbandonedSteps

LEMMA IdleRun ==
  /\ Idle \in Run /\ Idle.pc = "idle" /\ ~Owes(Idle)
  /\ \A n \in 1..MaxRequests : ~May(Idle, n)
  /\ \A D : RunOK(Idle, D)
  BY TypesConstantsOK DEF Idle, Run, Owes, May, RunOK

LEMMA CrashInv == ASSUME IInv, NEW h \in Holder, Crash(h) PROVE IInv'
  BY IdleRun, AbandonedSteps DEF Crash

\* A redirect that keeps the POST pays for the next one; any other owes none.
LEMMA RedirectedInv ==
  ASSUME IInv, NEW h \in Holder, NEW code \in {303, 307}, Redirected(h, code),
         run[h].pc = "waiting", run[h].post \in {"in", "get"}, run[h].sent < MaxRequests
  PROVE  IInv'
<1> DEFINE post == code = 307 /\ run[h].post = "in"
           r == [run[h] EXCEPT !.pc = "posting", !.post = IF post THEN "none" ELSE "get"]
<1>1. run[h] \in Run /\ run[h].job \in Job
  BY DEF IInv, TypeOK, RunConsistent, RunOK
<1>2. /\ r \in Run /\ r.job = run[h].job /\ r.pc = "posting" /\ r.sent = run[h].sent
      /\ r.post = IF post THEN "none" ELSE "get"
  BY <1>1 DEF Run
<1>3. /\ Becomes(h, r) /\ UNCHANGED <<stray, got, done>>
      /\ again' = IF post THEN [again EXCEPT ![run[h].job] = @ + 1] ELSE again
  BY DEF Redirected
<1> HIDE DEF r, post
<1>4. RunOK(r, done) /\ \A n \in 1..MaxRequests : May(r, n) => May(run[h], n)
  BY <1>1, <1>2 DEF RunOK, May
<1>5. ~post => ~Owes(r)
  BY <1>2 DEF Owes
<1> QED
  BY <1>1, <1>2, <1>3, <1>4, <1>5, LocalSteps

LEMMA AnsweredInv ==
  ASSUME IInv, NEW h \in Holder, NEW code \in {200, 303, 307, 500}, Answered(h, code)
  PROVE  IInv'
<1>1. run[h].pc = "waiting" /\ run[h].post \in {"in", "get"}
  BY DEF Answered, At
<1>2. CASE Finishes(h)
  BY <1>1, <1>2, FinishesSteps
<1>3. CASE code \in {303, 307} /\ run[h].sent < MaxRequests /\ Redirected(h, code)
  BY <1>1, <1>3, RedirectedInv
<1>4. CASE Fails(h)
  BY <1>1, <1>4, FailsSteps
<1> QED
  BY <1>2, <1>3, <1>4 DEF Answered

LEMMA RowInv == ASSUME IInv, NEW h \in Holder, Row(h) PROVE IInv'
<1> DEFINE r == [run[h] EXCEPT !.left = @ - 1]
<1>1. /\ run[h] \in Run /\ run[h].pc = "rows" /\ run[h].post = "none"
      /\ run[h].job \in Job
  BY DEF IInv, TypeOK, RunConsistent, RunOK, Row, At
<1>2. CASE Finishes(h)
  BY <1>1, <1>2, FinishesSteps
<1>3. CASE Goes(h, "failed")
  BY <1>1, <1>3, GoesSteps
<1>4. CASE ~(run[h].left <= 0) /\ Becomes(h, r) /\ UNCHANGED <<stray, got, again, done>>
  <2>1. run[h].left - 1 \in Nat
    BY <1>1, <1>4 DEF Run
  <2>2. r \in Run /\ r.job = run[h].job /\ r.pc = "rows" /\ r.post = "none"
    BY <1>1, <2>1 DEF Run
  <2> HIDE DEF r
  <2>3. ~Owes(r) /\ RunOK(r, done) /\ \A n \in 1..MaxRequests : ~May(r, n)
    BY <1>1, <2>2 DEF Owes, RunOK, May
  <2> QED
    BY <1>1, <1>4, <2>2, <2>3, LocalSteps
<1> QED
  BY <1>2, <1>3, <1>4 DEF Row

LEMMA ContextCanceledInv == ASSUME IInv, NEW h \in Holder, ContextCanceled(h) PROVE IInv'
<1> DEFINE r == [run[h] EXCEPT !.alive = FALSE]
<1>1. /\ run[h] \in Run /\ run[h].pc # "idle" /\ run[h].job \in Job
      /\ RunOK(run[h], done)
  BY DEF IInv, TypeOK, RunConsistent, RunOK, ContextCanceled, At
<1>2. /\ r \in Run /\ r.job = run[h].job /\ r.pc = run[h].pc /\ r.post = run[h].post
      /\ r.sent = run[h].sent
  BY <1>1 DEF Run
<1>3. Becomes(h, r) /\ UNCHANGED <<stray, got, again, done>>
  BY DEF ContextCanceled
<1> HIDE DEF r
<1>4. /\ RunOK(r, done) /\ (Owes(r) => Owes(run[h]))
      /\ \A n \in 1..MaxRequests : May(r, n) => May(run[h], n)
  BY <1>1, <1>2 DEF RunOK, Owes, May
<1> QED
  BY <1>1, <1>2, <1>3, <1>4, LocalSteps

\* A success is recorded from a run that is ok, hence done.
LEMMA RecordsInv == ASSUME IInv, NEW h \in Holder, Records(h) PROVE IInv'
<1> DEFINE j == run[h].job
<1>1. /\ TypeOK /\ j \in Job /\ run[h].pc \in {"ok", "failed"}
      /\ run[h].pc = "ok" => j \in done
  BY DEF IInv, RunConsistent, RunOK, Records
<1>2. run' = [run EXCEPT ![h] = Idle] /\ UNCHANGED <<task, stray, got, again, done, grants>>
  BY DEF Records
<1>3. Jobs!Complete(j) \/ Jobs!Requeue(j) \/ Jobs!Bury(j) \/ UNCHANGED queue
  BY DEF Records
<1>4. TableOK' /\ \A k \in Job : state'[k] = "success" => k \in done'
  <2>1. CASE run[h].pc = "ok"
    BY <1>1, <1>2, <1>3, <2>1, TableSteps DEF IInv, SuccessMeansDone
  <2>2. CASE run[h].pc # "ok"
    <3>1. Jobs!Requeue(j) \/ Jobs!Bury(j) \/ UNCHANGED queue
      BY <2>2 DEF Records, At
    <3>2. ASSUME NEW k \in Job, state'[k] = "success" PROVE state[k] = "success"
      <4>1. CASE Jobs!Requeue(j) \/ Jobs!Bury(j)
        BY <1>1, <3>2, <4>1 DEF TypeOK, Jobs!Requeue, Jobs!Bury, Jobs!Leave
      <4>2. CASE UNCHANGED queue
        BY <3>2, <4>2 DEF queue
      <4> QED
        BY <3>1, <4>1, <4>2
    <3>3. TableOK'
      BY <1>1, <1>2, <3>1, TableSteps
    <3> QED
      BY <1>2, <3>2, <3>3 DEF IInv, SuccessMeansDone
  <2> QED
    BY <2>1, <2>2
<1>5. /\ got' \in [Job -> Nat] /\ stray' \in [Job -> Nat] /\ again' \in [Job -> Nat]
      /\ done \subseteq done' /\ done' \subseteq Job
  BY <1>1, <1>2 DEF TypeOK
<1>6. \A k \in Job :
        /\ got'[k] + stray'[k] <= got[k] + stray[k]
        /\ got'[k] + stray'[k] + again[k] + Due(Idle, k) <=
             got[k] + stray[k] + again'[k] + Due(run[h], k)
  BY <1>1, <1>2, IdleRun DEF TypeOK, Due
<1> HIDE DEF j
<1> QED
  BY <1>2, <1>4, <1>5, <1>6, IdleRun, RunSteps

-----------------------------------------------------------------------------
(* The steps of the queue and of the network.                              *)

\* The table moves, and the runs do not.
LEMMA QueueSteps ==
  ASSUME IInv, TableOK', task' \in [Job -> [type : Type, payload : Payload]],
         UNCHANGED <<run, stray, got, again, done, grants>>,
         \A j \in Job : state'[j] = "success" => state[j] = "success"
  PROVE  IInv'
<1>1. TypeOK'
  <2>1. \A j \in Job : tries'[j] \in 0..GrantLimit
    BY TypesConstantsOK DEF IInv, TypeOK, TableOK
  <2>2. tries' \in [Job -> 0..GrantLimit]
    BY <2>1 DEF TableOK
  <2> QED
    BY <2>2 DEF IInv, TypeOK, TableOK
<1>2. RunConsistent' /\ PaidFor' /\ Bounded'
  BY DEF IInv, RunConsistent, RunOK, PaidFor, Owing, Owes, Bounded, Coming, May
<1> QED
  BY <1>1, <1>2 DEF IInv, SuccessMeansDone

LEMMA EnqueueInv ==
  ASSUME IInv, NEW j \in Job, NEW t \in Type, NEW p \in Payload, NEW max \in 1..MaxBudget,
         Enqueue(j, t, p, max)
  PROVE  IInv'
<1>1. Jobs!Submit(j, max) /\ UNCHANGED <<run, stray, got, again, done, grants>>
  BY DEF Enqueue
<1>2. TableOK'
  BY <1>1, TableSteps
<1>3. \A k \in Job : state'[k] = "success" => state[k] = "success"
  BY <1>1 DEF IInv, TypeOK, Jobs!Submit
<1>4. task' \in [Job -> [type : Type, payload : Payload]]
  BY DEF IInv, TypeOK, Enqueue
<1> QED
  BY <1>1, <1>2, <1>3, <1>4, QueueSteps

LEMMA QueueMovesInv == ASSUME IInv, NEW j \in Job, QueueMoves(j) PROVE IInv'
<1>1. /\ \/ Jobs!Expire(j) \/ Jobs!Extend(j) \/ Jobs!Reclaim({j})
         \/ Jobs!Withdraw(j) \/ Jobs!Revive(j) \/ Jobs!Discard({j})
      /\ UNCHANGED <<task, run, stray, got, again, done, grants>>
  BY DEF QueueMoves
<1>2. TableOK'
  BY <1>1, TableSteps
<1>3. \A k \in Job : state'[k] = "success" => state[k] = "success"
  BY <1>1 DEF IInv, TypeOK, Jobs!Expire, Jobs!Extend, Jobs!Reclaim, Jobs!Withdraw,
              Jobs!Revive, Jobs!Discard
<1> QED
  BY <1>1, <1>2, <1>3, QueueSteps DEF IInv, TypeOK

LEMMA StrayEndsInv == ASSUME IInv, NEW j \in Job, StrayEnds(j) PROVE IInv'
<1>1. /\ TypeOK /\ RunConsistent /\ UNCHANGED <<queue, task, run, again, done, grants>>
      /\ stray[j] > 0 /\ stray' = [stray EXCEPT ![j] = @ - 1]
      /\ got' = [got EXCEPT ![j] = @ + 1] \/ got' = got
  BY DEF IInv, StrayEnds
<1>2. /\ got' \in [Job -> Nat] /\ stray' \in [Job -> Nat]
      /\ \A k \in Job : got'[k] + stray'[k] <= got[k] + stray[k]
  BY <1>1 DEF TypeOK
<1>3. TypeOK' /\ TableOK' /\ RunConsistent' /\ SuccessMeansDone'
  BY <1>1, <1>2 DEF IInv, TypeOK, TableOK, RunConsistent, RunOK, SuccessMeansDone, queue
<1>4. ASSUME NEW k \in Job
      PROVE  /\ Owing(k)' = Owing(k) /\ Coming(k)' = Coming(k)
             /\ grants'[k] = grants[k] /\ again'[k] = again[k]
             /\ got[k] \in Nat /\ stray[k] \in Nat /\ grants[k] \in Nat /\ again[k] \in Nat
             /\ got'[k] \in Nat /\ stray'[k] \in Nat /\ MaxRequests * grants[k] \in Nat
  BY <1>1, <1>2, TypesConstantsOK DEF TypeOK, Owing, Owes, Coming, May
<1>5. PaidFor'
  <2> SUFFICES ASSUME NEW k \in Job
               PROVE  got'[k] + stray'[k] + Cardinality(Owing(k)') <= grants'[k] + again'[k]
    BY DEF PaidFor
  <2> QED
    BY <1>2, <1>4, OwingIsFinite DEF IInv, PaidFor
<1>6. Bounded'
  <2> SUFFICES ASSUME NEW k \in Job
               PROVE  got'[k] + stray'[k] + Cardinality(Coming(k)') <= MaxRequests * grants'[k]
    BY DEF Bounded
  <2> DEFINE m == MaxRequests * grants[k]
  <2>1. /\ m \in Nat /\ MaxRequests * grants'[k] = m
        /\ got[k] + stray[k] + Cardinality(Coming(k)) <= m
    BY <1>4 DEF IInv, Bounded
  <2> HIDE DEF m
  <2> QED
    BY <1>2, <1>4, <2>1, ComingIsFinite
<1> QED
  BY <1>3, <1>5, <1>6 DEF IInv

\* A claim pays for one POST, and for all the requests of one client.Do.
LEMMA ClaimInv == ASSUME IInv, NEW j \in Job, NEW h \in Holder, Claim(j, h) PROVE IInv'
<1> DEFINE r == [Idle EXCEPT !.job = j, !.pc = "called", !.alive = TRUE]
<1>1. /\ TypeOK /\ TableOK /\ RunConsistent /\ run[h].pc = "idle" /\ run[h].post = "none"
      /\ grants[j] < GrantLimit /\ grants[j] \in Nat
  BY DEF IInv, TypeOK, RunConsistent, RunOK, Claim, At
<1>2. /\ run' = [run EXCEPT ![h] = r] /\ grants' = [grants EXCEPT ![j] = @ + 1]
      /\ UNCHANGED <<task, stray, got, again, done>> /\ Jobs!Grant(j, h)
  BY DEF Claim
<1>3. r \in Run /\ r.job = j /\ r.pc = "called" /\ r.post = "none" /\ r.sent = 0
  <2>1. Idle \in Run /\ Idle.post = "none" /\ Idle.sent = 0
    BY IdleRun DEF Idle
  <2> QED
    BY <2>1 DEF Run
<1> HIDE DEF r
<1>4. /\ run' \in [Holder -> Run] /\ run'[h] = r
      /\ \A g \in Holder \ {h} : run'[g] = run[g]
  BY <1>1, <1>2, <1>3 DEF TypeOK
<1>5. /\ grants' \in [Job -> 0..GrantLimit] /\ grants'[j] = grants[j] + 1
      /\ \A k \in Job \ {j} : grants'[k] = grants[k]
  BY <1>1, <1>2, TypesConstantsOK DEF TypeOK
<1>6. TableOK'
  <2>1. state' \in [Job -> Jobs!States] /\ holder' \in [Job -> Holder \cup {NoHolder}]
    BY <1>1, <1>2 DEF TableOK, Jobs!Grant, Jobs!States
  <2>2. /\ tries' \in [Job -> Nat] /\ tries'[j] = tries[j] + 1
        /\ \A k \in Job \ {j} : tries'[k] = tries[k]
    BY <1>1, <1>2 DEF TableOK, Jobs!Grant
  <2>3. \A k \in Job : tries'[k] <= grants'[k]
    <3> TAKE k \in Job
    <3>1. tries[k] \in Nat /\ grants[k] \in Nat /\ tries[k] <= grants[k]
      BY <1>1 DEF TypeOK, TableOK
    <3> QED
      BY <1>5, <2>2, <3>1
  <2> QED
    BY <1>1, <1>2, <2>1, <2>2, <2>3 DEF TableOK, Jobs!Grant
<1>7. TypeOK'
  <2>1. \A k \in Job : tries'[k] \in 0..GrantLimit
    BY <1>5, <1>6, TypesConstantsOK DEF TableOK
  <2>2. tries' \in [Job -> 0..GrantLimit]
    BY <1>6, <2>1 DEF TableOK
  <2> QED
    BY <1>1, <1>2, <1>4, <1>5, <1>6, <2>2 DEF TypeOK, TableOK
<1>8. RunConsistent' /\ SuccessMeansDone'
  <2>1. \A k \in Job : state'[k] = "success" => state[k] = "success"
    BY <1>1, <1>2 DEF TableOK, Jobs!Grant
  <2>2. RunOK(r, done')
    BY <1>3 DEF RunOK
  <2>3. \A g \in Holder : RunOK(run'[g], done')
    BY <1>1, <1>2, <1>4, <2>2 DEF RunConsistent, RunOK
  <2> QED
    BY <1>2, <2>1, <2>3 DEF IInv, RunConsistent, RunOK, SuccessMeansDone
<1>9. ASSUME NEW k \in Job
      PROVE  /\ got'[k] = got[k] /\ stray'[k] = stray[k] /\ again'[k] = again[k]
             /\ got[k] \in Nat /\ stray[k] \in Nat /\ again[k] \in Nat
             /\ grants[k] \in Nat
             /\ grants'[k] = IF k = j THEN grants[k] + 1 ELSE grants[k]
  BY <1>1, <1>2, <1>5 DEF TypeOK
<1>10. PaidFor'
  <2> SUFFICES ASSUME NEW k \in Job
               PROVE  got'[k] + stray'[k] + Cardinality(Owing(k)') <= grants'[k] + again'[k]
    BY DEF PaidFor
  <2>1. got[k] + stray[k] + Cardinality(Owing(k)) <= grants[k] + again[k]
    BY DEF IInv, PaidFor
  <2>2. Cardinality(Owing(k)') + Due(run[h], k) = Cardinality(Owing(k)) + Due(r, k)
    BY <1>1, <1>2, <1>3, OneRunOwes
  <2>3. Due(run[h], k) = 0 /\ Due(r, k) = IF k = j THEN 1 ELSE 0
    BY <1>1, <1>3 DEF Due, Owes
  <2> QED
    BY <1>9, <2>1, <2>2, <2>3, OwingIsFinite
<1>11. Bounded'
  <2> SUFFICES ASSUME NEW k \in Job
               PROVE  got'[k] + stray'[k] + Cardinality(Coming(k)') <= MaxRequests * grants'[k]
    BY DEF Bounded
  <2> DEFINE m == MaxRequests * grants[k]
             New == {h} \X (1..MaxRequests)
  <2>1. /\ m \in Nat
        /\ MaxRequests * grants'[k] = IF k = j THEN m + MaxRequests ELSE m
    BY <1>9, TypesConstantsOK
  <2>2. got[k] + stray[k] + Cardinality(Coming(k)) <= m
    BY DEF IInv, Bounded
  <2> HIDE DEF m
  <2>3. CASE k = j
    <3>1. Coming(k)' = Coming(k) \cup New /\ Coming(k) \cap New = {}
      <4>1. \A n \in 1..MaxRequests : May(r, n) /\ ~May(run[h], n)
        BY <1>1, <1>3 DEF May
      <4>2. \A g \in Holder, n \in 1..MaxRequests :
              (run'[g].job = k /\ May(run'[g], n)) <=>
                (run[g].job = k /\ May(run[g], n)) \/ g = h
        BY <1>3, <1>4, <2>3, <4>1
      <4>3. Coming(k)' = {c \in Holder \X (1..MaxRequests) :
                            run'[c[1]].job = k /\ May(run'[c[1]], c[2])}
        BY DEF Coming, May
      <4> QED
        BY <4>1, <4>2, <4>3 DEF Coming
    <3>2. IsFiniteSet(New) /\ Cardinality(New) = MaxRequests
      <4>1. IsFiniteSet({h}) /\ Cardinality({h}) = 1
        BY FS_Singleton
      <4>2. IsFiniteSet(1..MaxRequests) /\ Cardinality(1..MaxRequests) = MaxRequests
        BY TypesConstantsOK, FS_Interval
      <4>3. /\ IsFiniteSet({h} \X (1..MaxRequests))
            /\ Cardinality({h} \X (1..MaxRequests)) = Cardinality({h}) * Cardinality(1..MaxRequests)
        BY <4>1, <4>2, FS_Product, Zenon
      <4>4. 1 * MaxRequests = MaxRequests
        BY TypesConstantsOK
      <4>5. Cardinality({h}) * Cardinality(1..MaxRequests) = 1 * MaxRequests
        BY <4>1, <4>2, Zenon
      <4> QED
        BY <4>3, <4>4, <4>5, Zenon
    <3> HIDE DEF New
    <3>3. Cardinality(Coming(k)') = Cardinality(Coming(k)) + MaxRequests
      <4>1. /\ Cardinality(Coming(k) \cup New) =
                 Cardinality(Coming(k)) + Cardinality(New) - Cardinality(Coming(k) \cap New)
            /\ Cardinality(Coming(k) \cap New) = 0
        BY <3>1, <3>2, ComingIsFinite, FS_Union, FS_EmptySet
      <4> QED
        BY <3>1, <3>2, <4>1, ComingIsFinite, TypesConstantsOK
    <3> QED
      BY <1>9, <2>1, <2>2, <2>3, <3>3, ComingIsFinite, TypesConstantsOK
  <2>4. CASE k # j
    <3>1. Coming(k)' = Coming(k)
      <4>1. \A g \in Holder, n \in 1..MaxRequests :
              (run'[g].job = k /\ May(run'[g], n)) <=> (run[g].job = k /\ May(run[g], n))
        BY <1>1, <1>3, <1>4, <2>4 DEF May
      <4>2. Coming(k)' = {c \in Holder \X (1..MaxRequests) :
                            run'[c[1]].job = k /\ May(run'[c[1]], c[2])}
        BY DEF Coming, May
      <4> QED
        BY <4>1, <4>2 DEF Coming
    <3> QED
      BY <1>9, <2>1, <2>2, <2>4, <3>1, ComingIsFinite
  <2> QED
    BY <2>3, <2>4
<1> QED
  BY <1>6, <1>7, <1>8, <1>10, <1>11 DEF IInv

-----------------------------------------------------------------------------

LEMMA HandlerInv == ASSUME IInv, NEW h \in Holder, Handler(h) PROVE IInv'
<1>1. CASE Wakes(h)
  <2>1. run[h].pc = "asleep" /\ run[h].post = "none"
    BY <1>1 DEF IInv, RunConsistent, RunOK, Wakes, At
  <2> QED
    BY <1>1, <2>1, GoesSteps, FinishesSteps DEF Wakes
<1> QED
  BY <1>1, CalledInv, PostsInv, RowInv, RecordsInv, StopsWaitingInv DEF Handler

LEMMA StepInv == IInv /\ [Next]_vars => IInv'
<1> SUFFICES ASSUME IInv, [Next]_vars PROVE IInv'
  OBVIOUS
<1>1. CASE UNCHANGED vars
  <2>1. UNCHANGED <<queue, task, run, stray, got, again, done, grants>>
    BY <1>1 DEF vars
  <2>2. TableOK' /\ task' \in [Job -> [type : Type, payload : Payload]]
    BY <2>1 DEF IInv, TypeOK, TableOK, queue
  <2> QED
    BY <2>1, <2>2, QueueSteps DEF queue
<1>2. CASE \E j \in Job :
       \/ \E t \in Type, p \in Payload, max \in 1..MaxBudget : Enqueue(j, t, p, max)
       \/ \E h \in Holder : Claim(j, h)
       \/ StrayEnds(j) \/ QueueMoves(j)
  BY <1>2, EnqueueInv, ClaimInv, StrayEndsInv, QueueMovesInv
<1>3. CASE \E h \in Holder :
       \/ Handler(h) \/ ContextCanceled(h) \/ Arrives(h)
       \/ \E code \in {200, 303, 307, 500} : Answered(h, code)
       \/ StopsWaiting(h) \/ Crash(h)
  BY <1>3, HandlerInv, ContextCanceledInv, ArrivesInv, AnsweredInv, StopsWaitingInv, CrashInv
<1> QED
  BY <1>1, <1>2, <1>3 DEF Next

\* The inductive invariant: claims and redirects pay for POSTs, and what is ok is
\* done.
THEOREM Invariance == Spec => []IInv
  BY InitInv, StepInv, PTL DEF Spec

\* Every variable keeps its type.
THEOREM TypeCorrect == Spec => []TypeOK
<1>1. IInv => TypeOK
  BY DEF IInv
<1> QED
  BY <1>1, Invariance, PTL

\* A job is a success only if one of its runs did all its work (handleResult
\* after safeExecute), whatever payloads, cancellations, crashes and evictions.
THEOREM SuccessIsWork == Spec => []SuccessMeansDone
<1>1. IInv => SuccessMeansDone
  BY DEF IInv
<1> QED
  BY <1>1, Invariance, PTL

\* WebhookDelivery posts once per claim, and once more per 307 or 308 that it
\* follows, MaxRequests times per claim at most, POSTs it gave up included.
THEOREM NoExtraPosts == Spec => []PostsPerClaim
<1>1. IInv => PostsPerClaim
  <2> SUFFICES ASSUME IInv, NEW j \in Job
               PROVE  /\ got[j] + stray[j] <= grants[j] + again[j]
                      /\ got[j] + stray[j] <= MaxRequests * grants[j]
    BY DEF PostsPerClaim
  <2>1. /\ got[j] \in Nat /\ stray[j] \in Nat /\ grants[j] \in Nat /\ again[j] \in Nat
        /\ MaxRequests * grants[j] \in Nat
    BY TypesConstantsOK DEF IInv, TypeOK
  <2>2. got[j] + stray[j] <= grants[j] + again[j]
    BY <2>1, OwingIsFinite DEF IInv, PaidFor
  <2>3. got[j] + stray[j] <= MaxRequests * grants[j]
    BY <2>1, ComingIsFinite DEF IInv, Bounded
  <2> QED
    BY <2>2, <2>3
<1> QED
  BY <1>1, Invariance, PTL

-----------------------------------------------------------------------------
(* The workers and the rest of the queue do to the table what JobLifecycle *)
(* allows, whatever the handlers do.                                       *)

LEMMA StepIsLifecycle == IInv /\ [Next]_vars => [Jobs!Next]_queue
<1> SUFFICES ASSUME IInv, [Next]_vars PROVE Jobs!Next \/ UNCHANGED queue
  OBVIOUS
<1>1. ASSUME NEW j \in Job, NEW t \in Type, NEW p \in Payload, NEW max \in 1..MaxBudget,
             Enqueue(j, t, p, max)
      PROVE  Jobs!Next
  BY <1>1 DEF Enqueue, Jobs!Next
<1>2. ASSUME NEW j \in Job, NEW h \in Holder, Claim(j, h) PROVE Jobs!Next
  BY <1>2 DEF Claim, Jobs!Next
<1>3. ASSUME NEW j \in Job, QueueMoves(j) PROVE Jobs!Next
  <2>1. {j} \in SUBSET Job
    OBVIOUS
  <2> QED
    BY <1>3, <2>1 DEF QueueMoves, Jobs!Next
<1>4. ASSUME NEW h \in Holder, Records(h) PROVE Jobs!Next \/ UNCHANGED queue
  <2>1. run[h].job \in Job
    BY <1>4 DEF IInv, RunConsistent, RunOK, Records
  <2> QED
    BY <1>4, <2>1 DEF Records, Jobs!Next
<1>5. ASSUME NEW h \in Holder,
             \/ Called(h) \/ Posts(h) \/ Row(h) \/ Wakes(h) \/ StopsWaiting(h)
             \/ ContextCanceled(h) \/ Arrives(h) \/ Crash(h)
             \/ \E code \in {200, 303, 307, 500} : Answered(h, code)
      PROVE  UNCHANGED queue
  <2>1. CASE Called(h)
    BY <2>1 DEF Called, Goes, Becomes, Registered
  <2>2. CASE Posts(h) \/ Row(h) \/ Wakes(h)
    BY <2>2 DEF Posts, Row, Wakes, Goes, Fails, Finishes, Becomes
  <2>3. CASE StopsWaiting(h) \/ ContextCanceled(h) \/ Arrives(h) \/ Crash(h)
    BY <2>3 DEF StopsWaiting, ContextCanceled, Arrives, Crash, Becomes
  <2>4. CASE \E code \in {200, 303, 307, 500} : Answered(h, code)
    BY <2>4 DEF Answered, Redirected, Fails, Finishes, Becomes
  <2> QED
    BY <1>5, <2>1, <2>2, <2>3, <2>4
<1>6. ASSUME NEW j \in Job, StrayEnds(j) PROVE UNCHANGED queue
  BY <1>6 DEF StrayEnds
<1>7. CASE UNCHANGED vars
  BY <1>7 DEF vars
<1> QED
  BY <1>1, <1>2, <1>3, <1>4, <1>5, <1>6, <1>7 DEF Next, Handler

\* JobTypes implements JobLifecycle: the initial states map to initial states,
\* and every step is a step of the lifecycle or leaves the table alone.
THEOREM ImplementsLifecycle == Spec => Jobs!Spec
<1>1. Init => Jobs!Init
  BY DEF Init
<1> QED
  BY <1>1, StepIsLifecycle, Invariance, PTL DEF Spec, Jobs!Spec, Jobs!vars, queue
================================================================================
