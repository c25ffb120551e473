--------------------------- MODULE OperatorProofs ---------------------------
(***************************************************************************)
(* Proofs about OperatorApi, for every set of jobs, holders and requests,  *)
(* every configured maximum of attempts and any number of requests open at *)
(* a time.                                                                 *)
(*                                                                         *)
(* The argument: whatever happens is one statement of the table or none    *)
(* (TableStep), and no statement leaves "canceled" or "deleted" again      *)
(* (FinalStays).  What a request knows when its statement has run          *)
(* (RequestOK) therefore survives the steps of everyone else until it is   *)
(* answered, and is what the answer says.                                  *)
(***************************************************************************)
EXTENDS OperatorApi, TLAPS

\* Only running jobs have a lease that ran out, so reclaiming never touches a
\* job that is out of the queue.
LapsedRun == \A j \in lapsed : state[j] = "running"

Gone == {"canceled", "deleted"}

\* What is known of a request, by where its handler stands and what it answered.
EnqueueOK(r) ==
  /\ r.pc = "read" => r.job \in Job /\ r.did = {r.job} /\ r.was = "unused"
  /\ r.answer = 201 => r.did = {r.job} /\ r.was = "unused"
  /\ r.answer = 400 => r.did = {}

CancelOK(r) ==
  /\ (r.pc = "read" /\ r.did # {}) => state[r.job] = "canceled"
  /\ (r.pc = "read" /\ r.did = {}) => r.was \notin {"pending", "running"}
  /\ r.answer = 200 => state[r.job] = "canceled" /\ r.shown = "canceled"
  /\ r.answer \in {404, 409} => r.did = {} /\ r.was \notin {"pending", "running"}

RetryOK(r) ==
  r.pc = "read" \/ r.answer = 200 => r.did = {r.job} /\ r.was = "dead"

DeleteOK(r) ==
  r.answer = 204 => r.did = {r.job} /\ state[r.job] = "deleted"

PurgeOK(r) == \A j \in r.did : state[j] = "deleted"

RequestOK(r) ==
  /\ r.op \in {"get", "cancel", "retry", "delete"} => r.job \in Job
  /\ r.pc # "answered" => r.answer = 0
  /\ r.pc \in {"idle", "write"} => r.did = {}
  /\ r.answer = 201 => r.op = "enqueue"
  /\ r.answer = 204 => r.op = "delete"
  /\ r.op = "enqueue" => EnqueueOK(r)
  /\ r.op = "cancel" => CancelOK(r)
  /\ r.op = "retry" => RetryOK(r)
  /\ r.op = "delete" => DeleteOK(r)
  /\ r.op = "purge" => PurgeOK(r)

IInv ==
  /\ TypeOK
  /\ LapsedRun
  /\ BudgetWithinPolicy
  /\ \A c \in Client : RequestOK(request[c])

-----------------------------------------------------------------------------
(* The table.                                                              *)

\* What a step does to the table: a statement of a handler, or a step of the
\* workers, the reaper or time, or nothing.
TableStep ==
  \/ \E j \in Job, max \in 1..MaxBudget : Jobs!Submit(j, max)
  \/ \E j \in Job, h \in Holder : tries[j] < TryLimit /\ Jobs!Grant(j, h)
  \/ \E j \in Job :
       \/ Jobs!Expire(j) \/ Jobs!Extend(j) \/ Jobs!Reclaim({j})
       \/ Jobs!Complete(j) \/ Jobs!Requeue(j) \/ Jobs!Bury(j)
       \/ Jobs!Withdraw(j) \/ Jobs!Revive(j)
  \/ \E S \in SUBSET Job : Jobs!Discard(S)
  \/ UNCHANGED queue

LEMMA MaxBudgetType == MaxBudget \in Nat \ {0}
  BY ApiConstantsOK DEF MaxBudget

TableOK ==
  /\ state \in [Job -> Jobs!States]
  /\ holder \in [Job -> Holder \cup {NoHolder}]
  /\ tries \in [Job -> 0..TryLimit]
  /\ budget \in [Job -> 0..MaxBudget]
  /\ lapsed \in SUBSET Job
  /\ LapsedRun
  /\ BudgetWithinPolicy

LEMMA TableKept == TableOK /\ TableStep => TableOK'
<1> SUFFICES ASSUME TableOK, TableStep PROVE TableOK'
  OBVIOUS
<1> USE ApiConstantsOK, MaxBudgetType
<1>1. ASSUME NEW j \in Job, NEW max \in 1..MaxBudget, Jobs!Submit(j, max)
      PROVE  TableOK'
  BY <1>1 DEF TableOK, LapsedRun, BudgetWithinPolicy, Exists, Jobs!Submit, Jobs!States
<1>2. ASSUME NEW j \in Job, NEW h \in Holder, tries[j] < TryLimit, Jobs!Grant(j, h)
      PROVE  TableOK'
  BY <1>2 DEF TableOK, LapsedRun, BudgetWithinPolicy, Exists, Jobs!Grant, Jobs!States
<1>3. ASSUME NEW j \in Job, Jobs!Expire(j) \/ Jobs!Extend(j) PROVE TableOK'
  BY <1>3 DEF TableOK, LapsedRun, BudgetWithinPolicy, Exists, Jobs!Expire, Jobs!Extend
<1>4. ASSUME NEW j \in Job, Jobs!Reclaim({j}) PROVE TableOK'
  BY <1>4 DEF TableOK, LapsedRun, BudgetWithinPolicy, Exists, Jobs!Reclaim, Jobs!States
<1>5. ASSUME NEW j \in Job, Jobs!Complete(j) \/ Jobs!Requeue(j) \/ Jobs!Bury(j)
      PROVE  TableOK'
  BY <1>5 DEF TableOK, LapsedRun, BudgetWithinPolicy, Exists, Jobs!Complete,
              Jobs!Requeue, Jobs!Bury, Jobs!Leave, Jobs!States
<1>6. ASSUME NEW j \in Job, Jobs!Withdraw(j) PROVE TableOK'
  BY <1>6 DEF TableOK, LapsedRun, BudgetWithinPolicy, Exists, Jobs!Withdraw, Jobs!States
<1>7. ASSUME NEW j \in Job, Jobs!Revive(j) PROVE TableOK'
  BY <1>7 DEF TableOK, LapsedRun, BudgetWithinPolicy, Exists, Jobs!Revive, Jobs!States
<1>8. ASSUME NEW S \in SUBSET Job, Jobs!Discard(S) PROVE TableOK'
  BY <1>8 DEF TableOK, LapsedRun, BudgetWithinPolicy, Exists, Jobs!Discard, Jobs!States
<1>9. CASE UNCHANGED queue
  BY <1>9 DEF TableOK, LapsedRun, BudgetWithinPolicy, Exists, queue
<1> QED
  BY <1>1, <1>2, <1>3, <1>4, <1>5, <1>6, <1>7, <1>8, <1>9 DEF TableStep

\* No statement leaves "canceled" or "deleted".
FinalStays == \A j \in Job : state[j] \in Gone => state'[j] = state[j]

LEMMA Finality == TableOK /\ TableStep => FinalStays
<1> SUFFICES ASSUME TableOK, TableStep, NEW k \in Job, state[k] \in Gone
             PROVE  state'[k] = state[k]
  BY DEF FinalStays
<1>1. ASSUME NEW j \in Job, NEW max, NEW h,
             \/ Jobs!Submit(j, max) \/ Jobs!Grant(j, h)
             \/ Jobs!Expire(j) \/ Jobs!Extend(j)
             \/ Jobs!Withdraw(j) \/ Jobs!Revive(j)
      PROVE  state'[k] = state[k]
  BY <1>1 DEF TableOK, Gone, Jobs!Submit, Jobs!Grant, Jobs!Expire, Jobs!Extend,
              Jobs!Withdraw, Jobs!Revive
<1>2. ASSUME NEW j \in Job, Jobs!Complete(j) \/ Jobs!Requeue(j) \/ Jobs!Bury(j)
      PROVE  state'[k] = state[k]
  BY <1>2 DEF TableOK, Gone, Jobs!Complete, Jobs!Requeue, Jobs!Bury, Jobs!Leave
<1>3. ASSUME NEW j \in Job, Jobs!Reclaim({j}) PROVE state'[k] = state[k]
  BY <1>3 DEF TableOK, LapsedRun, Gone, Jobs!Reclaim
<1>4. ASSUME NEW S \in SUBSET Job, Jobs!Discard(S) PROVE state'[k] = state[k]
  BY <1>4 DEF Gone, Jobs!Discard
<1>5. CASE UNCHANGED queue
  BY <1>5 DEF queue
<1> QED
  BY <1>1, <1>2, <1>3, <1>4, <1>5 DEF TableStep

-----------------------------------------------------------------------------
(* The requests.                                                           *)

\* What is known of a request survives every step it does not take itself.
LEMMA OthersKeep ==
  ASSUME NEW r \in Request, RequestOK(r), FinalStays PROVE RequestOK(r)'
<1>1. r.did \subseteq Job
  BY DEF Request
<1>2. ASSUME r.op = "cancel", state[r.job] = "canceled" PROVE state'[r.job] = "canceled"
  BY <1>2 DEF RequestOK, FinalStays, Gone
<1>3. ASSUME r.op = "delete", state[r.job] = "deleted" PROVE state'[r.job] = "deleted"
  BY <1>3 DEF RequestOK, FinalStays, Gone
<1>4. ASSUME NEW j \in r.did, state[j] = "deleted" PROVE state'[j] = "deleted"
  BY <1>1, <1>4 DEF FinalStays, Gone
<1> QED
  BY <1>2, <1>3, <1>4 DEF RequestOK, EnqueueOK, CancelOK, RetryOK, DeleteOK, PurgeOK

Becomes(c, r) == request' = [request EXCEPT ![c] = r]

\* The jobs a request reports to have removed, as in Removed.
RemovedBy(r) ==
  IF r.answer = 204 THEN {r.job}
  ELSE IF r.op = "purge" /\ r.answer = 200 THEN r.did ELSE {}

\* The step of request c leaves it as a request of which the same is known, and
\* what it reports to have removed by this step was dead.
GoesOn(c) ==
  \E r \in Request : Becomes(c, r) /\ RequestOK(r)' /\ RemovedBy(r) \subseteq Dead

\* A request with one field changed is a request.
LEMMA UpdatePc ==
  ASSUME NEW q \in Request, NEW v \in {"idle", "write", "read", "answered", "cut"}
  PROVE  [q EXCEPT !.pc = v] \in Request
  BY DEF Request

LEMMA UpdateJob ==
  ASSUME NEW q \in Request, NEW v \in Job \cup {NoJob}
  PROVE  [q EXCEPT !.job = v] \in Request
  BY DEF Request

LEMMA UpdateAsked ==
  ASSUME NEW q \in Request, NEW v \in Asked PROVE [q EXCEPT !.asked = v] \in Request
  BY DEF Request

LEMMA UpdateValid ==
  ASSUME NEW q \in Request, NEW v \in BOOLEAN PROVE [q EXCEPT !.valid = v] \in Request
  BY DEF Request

Codes == {0, 200, 201, 204, 400, 404, 409, 500}

LEMMA CodesKnown ==
  /\ 0 \in Codes /\ 200 \in Codes /\ 201 \in Codes /\ 204 \in Codes
  /\ 400 \in Codes /\ 404 \in Codes /\ 409 \in Codes /\ 500 \in Codes
  BY DEF Codes

LEMMA UpdateAnswer ==
  ASSUME NEW q \in Request, NEW v \in Codes PROVE [q EXCEPT !.answer = v] \in Request
  BY DEF Request, Codes

LEMMA UpdateShown ==
  ASSUME NEW q \in Request, NEW v \in Jobs!States PROVE [q EXCEPT !.shown = v] \in Request
  BY DEF Request

LEMMA UpdateWas ==
  ASSUME NEW q \in Request, NEW v \in Jobs!States PROVE [q EXCEPT !.was = v] \in Request
  BY DEF Request

LEMMA UpdateDid ==
  ASSUME NEW q \in Request, NEW v \in SUBSET Job PROVE [q EXCEPT !.did = v] \in Request
  BY DEF Request

\* A new request: nothing is known of it but its job.
LEMMA OpenedGoesOn ==
  ASSUME NEW c \in Client, NEW op \in Operation, NEW j \in Job \cup {NoJob},
         NEW asked \in Asked, NEW valid \in BOOLEAN,
         op \in {"get", "cancel", "retry", "delete"} => j \in Job,
         \/ Becomes(c, Fresh(op, j))
         \/ Becomes(c, [Fresh(op, j) EXCEPT !.asked = asked, !.valid = valid])
  PROVE  GoesOn(c)
<1> DEFINE f == Fresh(op, j)
           r == [f EXCEPT !.asked = asked, !.valid = valid]
<1>1. f \in Request
  BY MaxBudgetType DEF Fresh, Request, Operation, Asked
<1>2. r \in Request
  <2> HIDE DEF f
  <2>1. [f EXCEPT !.asked = asked] \in Request
    BY <1>1, UpdateAsked
  <2> QED
    BY <2>1, UpdateValid
<1>3. /\ f.op = op /\ f.job = j /\ f.did = {} /\ f.answer = 0
      /\ f.pc \in {"read", "write"} /\ (f.pc = "read" => op = "get")
  BY DEF Fresh
<1>4. /\ r.op = op /\ r.job = j /\ r.did = {} /\ r.answer = 0
      /\ r.pc \in {"read", "write"} /\ (r.pc = "read" => op = "get")
  BY DEF Fresh
<1> HIDE DEF f, r
<1>5. RequestOK(f)' /\ RequestOK(r)'
  BY <1>3, <1>4 DEF RequestOK, EnqueueOK, CancelOK, RetryOK, DeleteOK, PurgeOK, Operation
<1>6. RemovedBy(f) = {} /\ RemovedBy(r) = {}
  BY <1>3, <1>4 DEF RemovedBy
<1> QED
  BY <1>1, <1>2, <1>5, <1>6 DEF GoesOn, f, r

\* What a step makes of request c, which was q: the fields that are read later.
IsNow(r, q, pc, code, did, was) ==
  /\ r.op = q.op /\ r.job = q.job /\ r.pc = pc /\ r.answer = code
  /\ r.did = did /\ r.was = was

\* What Answer, AnswerWithJob and Wrote make of a request.
AnsweredAs(q, code) == [q EXCEPT !.pc = "answered", !.answer = code]

ShownAs(q, code, s) == [q EXCEPT !.pc = "answered", !.answer = code, !.shown = s]

DoneAs(q, D) == [q EXCEPT !.did = D]

LEMMA AnsweredFields ==
  ASSUME NEW q \in Request, NEW code \in Codes
  PROVE  /\ AnsweredAs(q, code) \in Request
         /\ IsNow(AnsweredAs(q, code), q, "answered", code, q.did, q.was)
<1>1. AnsweredAs(q, code) \in Request
  <2>1. [q EXCEPT !.pc = "answered"] \in Request
    BY UpdatePc
  <2> QED
    BY <2>1, UpdateAnswer DEF AnsweredAs
<1> QED
  BY <1>1 DEF Request, AnsweredAs, IsNow

LEMMA ShownFields ==
  ASSUME NEW q \in Request, NEW code \in Codes, NEW s \in Jobs!States
  PROVE  /\ ShownAs(q, code, s) \in Request /\ ShownAs(q, code, s).shown = s
         /\ IsNow(ShownAs(q, code, s), q, "answered", code, q.did, q.was)
<1>1. ShownAs(q, code, s) \in Request
  <2>1. [q EXCEPT !.pc = "answered"] \in Request
    BY UpdatePc
  <2>2. [q EXCEPT !.pc = "answered", !.answer = code] \in Request
    BY <2>1, UpdateAnswer
  <2> QED
    BY <2>2, UpdateShown DEF ShownAs
<1> QED
  BY <1>1 DEF Request, ShownAs, IsNow

LEMMA DoneFields ==
  ASSUME NEW q \in Request, NEW D \in SUBSET Job
  PROVE  /\ DoneAs(q, D) \in Request
         /\ IsNow(DoneAs(q, D), q, q.pc, q.answer, D, q.was)
<1>1. DoneAs(q, D) \in Request
  BY UpdateDid DEF DoneAs
<1> QED
  BY <1>1 DEF Request, DoneAs, IsNow

\* A handler that writes hands Wrote the request with what it met, and where its
\* handler goes on or what it answers.
ToRead(q, s) == [q EXCEPT !.was = s, !.pc = "read"]

ToAnswer(q, s, code) == [q EXCEPT !.was = s, !.pc = "answered", !.answer = code]

LEMMA ToReadFields ==
  ASSUME NEW q \in Request, NEW s \in Jobs!States
  PROVE  /\ ToRead(q, s) \in Request
         /\ IsNow(ToRead(q, s), q, "read", q.answer, q.did, s)
<1>1. ToRead(q, s) \in Request
  <2>1. [q EXCEPT !.was = s] \in Request
    BY UpdateWas
  <2> QED
    BY <2>1, UpdatePc DEF ToRead
<1> QED
  BY <1>1 DEF Request, ToRead, IsNow

LEMMA ToAnswerFields ==
  ASSUME NEW q \in Request, NEW s \in Jobs!States, NEW code \in Codes
  PROVE  /\ ToAnswer(q, s, code) \in Request
         /\ IsNow(ToAnswer(q, s, code), q, "answered", code, q.did, s)
<1>1. ToAnswer(q, s, code) \in Request
  <2>1. [q EXCEPT !.was = s] \in Request
    BY UpdateWas
  <2>2. [q EXCEPT !.was = s, !.pc = "answered"] \in Request
    BY <2>1, UpdatePc
  <2> QED
    BY <2>2, UpdateAnswer DEF ToAnswer
<1> QED
  BY <1>1 DEF Request, ToAnswer, IsNow

\* The INSERT gives the request its job.
Inserted(q, j) == [q EXCEPT !.pc = "read", !.job = j, !.was = "unused"]

InsertedLost(q, j) == [q EXCEPT !.pc = "answered", !.job = j, !.answer = 500]

LEMMA InsertedFields ==
  ASSUME NEW q \in Request, NEW j \in Job
  PROVE  LET r == Inserted(q, j)
         IN  /\ r \in Request
             /\ r.op = q.op /\ r.pc = "read" /\ r.job = j /\ r.answer = q.answer
             /\ r.was = "unused"
<1>1. Inserted(q, j) \in Request
  <2>1. [q EXCEPT !.pc = "read"] \in Request
    BY UpdatePc
  <2>2. [q EXCEPT !.pc = "read", !.job = j] \in Request
    BY <2>1, UpdateJob
  <2>3. "unused" \in Jobs!States
    BY DEF Jobs!States
  <2> QED
    BY <2>2, <2>3, UpdateWas DEF Inserted
<1> QED
  BY <1>1 DEF Request, Inserted

LEMMA InsertedLostFields ==
  ASSUME NEW q \in Request, NEW j \in Job
  PROVE  LET r == InsertedLost(q, j)
         IN  /\ r \in Request
             /\ r.op = q.op /\ r.pc = "answered" /\ r.answer = 500
<1>1. InsertedLost(q, j) \in Request
  <2>1. [q EXCEPT !.pc = "answered"] \in Request
    BY UpdatePc
  <2>2. [q EXCEPT !.pc = "answered", !.job = j] \in Request
    BY <2>1, UpdateJob
  <2>3. \A p \in Request : [p EXCEPT !.answer = 500] \in Request
    BY CodesKnown, UpdateAnswer
  <2> QED
    BY <2>2, <2>3, Zenon DEF InsertedLost
<1> QED
  BY <1>1 DEF Request, InsertedLost

LEMMA Answered ==
  ASSUME NEW c \in Client, request[c] \in Request, NEW code \in Codes, Answer(c, code)
  PROVE  \E r \in Request :
           Becomes(c, r) /\ IsNow(r, request[c], "answered", code, request[c].did, request[c].was)
<1> DEFINE q == request[c]
           r == AnsweredAs(q, code)
<1>1. Becomes(c, r)
  BY Zenon DEF Answer, Becomes, AnsweredAs
<1>2. r \in Request /\ IsNow(r, q, "answered", code, q.did, q.was)
  BY AnsweredFields
<1> HIDE DEF r
<1> QED
  BY <1>1, <1>2

LEMMA Shown ==
  ASSUME NEW c \in Client, request[c] \in Request, NEW code \in Codes,
         state[request[c].job] \in Jobs!States, AnswerWithJob(c, code)
  PROVE  \E r \in Request :
           /\ Becomes(c, r) /\ r.shown = state[request[c].job]
           /\ IsNow(r, request[c], "answered", code, request[c].did, request[c].was)
<1> DEFINE q == request[c]
           r == ShownAs(q, code, state[q.job])
<1>1. Becomes(c, r)
  BY Zenon DEF AnswerWithJob, Becomes, ShownAs
<1>2. /\ r \in Request /\ r.shown = state[q.job]
      /\ IsNow(r, q, "answered", code, q.did, q.was)
  BY ShownFields
<1> HIDE DEF r
<1> QED
  BY <1>1, <1>2

LEMMA WroteThenReads ==
  ASSUME NEW c \in Client, request[c] \in Request, state[request[c].job] \in Jobs!States,
         NEW D \in SUBSET Job, Wrote(c, D, ToRead(request[c], state[request[c].job]))
  PROVE  \E r \in Request :
           /\ Becomes(c, r)
           /\ IsNow(r, request[c], "read", request[c].answer, D, state[request[c].job])
<1> DEFINE q == request[c]
           p == ToRead(q, state[q.job])
           r == DoneAs(p, D)
<1>1. Becomes(c, r)
  BY Zenon DEF Wrote, DoneAs, Becomes
<1>2. p \in Request /\ IsNow(p, q, "read", q.answer, q.did, state[q.job])
  BY ToReadFields DEF IsNow
<1> HIDE DEF p
<1>3. r \in Request /\ IsNow(r, q, "read", q.answer, D, state[q.job])
  BY <1>2, DoneFields DEF IsNow
<1> HIDE DEF r
<1> QED
  BY <1>1, <1>3

LEMMA WroteThenAnswered ==
  ASSUME NEW c \in Client, request[c] \in Request, state[request[c].job] \in Jobs!States,
         NEW D \in SUBSET Job, NEW code \in Codes,
         Wrote(c, D, ToAnswer(request[c], state[request[c].job], code))
  PROVE  \E r \in Request :
           /\ Becomes(c, r)
           /\ IsNow(r, request[c], "answered", code, D, state[request[c].job])
<1> DEFINE q == request[c]
           p == ToAnswer(q, state[q.job], code)
           r == DoneAs(p, D)
<1>1. Becomes(c, r)
  BY Zenon DEF Wrote, DoneAs, Becomes
<1>2. p \in Request /\ IsNow(p, q, "answered", code, q.did, state[q.job])
  BY ToAnswerFields
<1> HIDE DEF p
<1>3. r \in Request /\ IsNow(r, q, "answered", code, D, state[q.job])
  BY <1>2, DoneFields DEF IsNow
<1> HIDE DEF r
<1> QED
  BY <1>1, <1>3

LEMMA PurgedThenAnswered ==
  ASSUME NEW c \in Client, request[c] \in Request, NEW D \in SUBSET Job, NEW code \in Codes,
         Wrote(c, D, AnsweredAs(request[c], code))
  PROVE  \E r \in Request :
           Becomes(c, r) /\ IsNow(r, request[c], "answered", code, D, request[c].was)
<1> DEFINE q == request[c]
           p == AnsweredAs(q, code)
           r == DoneAs(p, D)
<1>1. Becomes(c, r)
  BY Zenon DEF Wrote, DoneAs, Becomes
<1>2. p \in Request /\ IsNow(p, q, "answered", code, q.did, q.was)
  BY AnsweredFields DEF IsNow
<1> HIDE DEF p
<1>3. r \in Request /\ IsNow(r, q, "answered", code, D, q.was)
  BY <1>2, DoneFields DEF IsNow
<1> HIDE DEF r
<1> QED
  BY <1>1, <1>3

-----------------------------------------------------------------------------
(* The steps.                                                              *)

\* A handler knows its job, unless it is about to insert it.
LEMMA KnownJob ==
  ASSUME IInv, NEW c \in Client, request[c].op \in {"get", "cancel", "retry", "delete"}
  PROVE  /\ request[c].job \in Job /\ state[request[c].job] \in Jobs!States
         /\ request[c] \in Request
  BY DEF IInv, TypeOK, RequestOK

LEMMA StepIsTableStep == IInv /\ [Next]_vars => TableStep
<1> SUFFICES ASSUME IInv, [Next]_vars PROVE TableStep
  OBVIOUS
<1>1. ASSUME NEW c \in Client, Handler(c) PROVE TableStep
  <2>1. CASE \E j \in Job : EnqueueInserted(c, j) \/ EnqueueLost(c, j)
    BY <2>1 DEF EnqueueInserted, EnqueueLost, Accepted, TableStep
  <2>2. CASE CancelHit(c) \/ CancelLost(c) \/ RetryHit(c) \/ RetryLost(c)
    <3>1. request[c].job \in Job
      BY <2>2, KnownJob DEF CancelHit, CancelLost, RetryHit, RetryLost, At
    <3> QED
      BY <2>2, <3>1 DEF CancelHit, CancelLost, RetryHit, RetryLost, TableStep
  <2>3. CASE DeleteHit(c) \/ DeleteLost(c)
    <3>1. {request[c].job} \in SUBSET Job
      BY <2>3, KnownJob DEF DeleteHit, DeleteLost, At
    <3> QED
      BY <2>3, <3>1 DEF DeleteHit, DeleteLost, TableStep
  <2>4. CASE Purge(c)
    <3>1. Dead \in SUBSET Job
      BY DEF Dead
    <3> QED
      BY <2>4, <3>1 DEF Purge, TableStep
  <2>5. CASE UNCHANGED queue
    BY <2>5 DEF TableStep
  <2> QED
    BY <1>1, <2>1, <2>2, <2>3, <2>4, <2>5
       DEF Handler, EnqueueRejected, EnqueueRead, CancelMiss, CancelRead, RetryMiss,
           RetryRead, DeleteMiss, GetRead, StatementFails, Cut
<1>2. ASSUME NEW j \in Job, Queue(j) PROVE TableStep
  BY <1>2 DEF Queue, TableStep
<1>3. ASSUME NEW c \in Client,
             \/ \E op \in Operation \ {"enqueue", "purge"}, j \in Job : Arrive(c, op, j)
             \/ Arrive(c, "purge", NoJob)
             \/ \E asked \in Asked, valid \in BOOLEAN : ArriveEnqueue(c, asked, valid)
      PROVE  TableStep
  BY <1>3 DEF Arrive, ArriveEnqueue, TableStep
<1>4. CASE UNCHANGED vars
  BY <1>4 DEF vars, TableStep
<1> QED
  BY <1>1, <1>2, <1>3, <1>4 DEF Next

\* The handler of an enqueue.
LEMMA EnqueueGoesOn ==
  ASSUME IInv, NEW c \in Client, FinalStays,
         \/ EnqueueRejected(c) \/ EnqueueRead(c)
         \/ \E j \in Job : EnqueueInserted(c, j) \/ EnqueueLost(c, j)
  PROVE  GoesOn(c)
<1> DEFINE q == request[c]
<1>1. q \in Request /\ RequestOK(q) /\ q.op = "enqueue"
  BY DEF IInv, TypeOK, EnqueueRejected, EnqueueRead, EnqueueInserted, EnqueueLost, At
<1> USE CodesKnown
<1>2. CASE EnqueueRejected(c)
  <2>1. PICK r \in Request : Becomes(c, r) /\ IsNow(r, q, "answered", 400, q.did, q.was)
    BY <1>1, <1>2, Answered DEF EnqueueRejected
  <2>2. q.did = {}
    BY <1>1, <1>2 DEF RequestOK, EnqueueRejected, At
  <2> QED
    BY <1>1, <2>1, <2>2 DEF GoesOn, RemovedBy, IsNow, RequestOK, EnqueueOK
<1>3. CASE EnqueueRead(c)
  <2>1. q.job \in Job /\ state[q.job] \in Jobs!States /\ q.did = {q.job} /\ q.was = "unused"
    BY <1>1, <1>3 DEF EnqueueRead, At, IInv, TypeOK, RequestOK, EnqueueOK
  <2>2. CASE AnswerWithJob(c, 201)
    <3>1. PICK r \in Request : Becomes(c, r) /\ IsNow(r, q, "answered", 201, q.did, q.was)
      BY <1>1, <2>1, <2>2, Shown
    <3> QED
      BY <1>1, <2>1, <3>1 DEF GoesOn, RemovedBy, IsNow, RequestOK, EnqueueOK
  <2>3. CASE Answer(c, 500)
    <3>1. PICK r \in Request : Becomes(c, r) /\ IsNow(r, q, "answered", 500, q.did, q.was)
      BY <1>1, <2>3, Answered
    <3> QED
      BY <1>1, <3>1 DEF GoesOn, RemovedBy, IsNow, RequestOK, EnqueueOK
  <2> QED
    BY <1>3, <2>2, <2>3 DEF EnqueueRead
<1>4. ASSUME NEW j \in Job, EnqueueInserted(c, j) PROVE GoesOn(c)
  <2> DEFINE p == Inserted(q, j)
             r == DoneAs(p, {j})
  <2>1. Becomes(c, r)
    BY <1>4 DEF EnqueueInserted, Wrote, Becomes, Inserted, DoneAs
  <2>2. /\ p \in Request /\ p.op = "enqueue" /\ p.pc = "read" /\ p.job = j
        /\ p.answer = 0 /\ p.was = "unused"
    <3>1. q.answer = 0
      BY <1>1, <1>4 DEF EnqueueInserted, At, RequestOK
    <3> HIDE DEF q
    <3> QED
      BY <1>1, <3>1, InsertedFields
  <2> HIDE DEF p
  <2>3. /\ r \in Request /\ IsNow(r, p, "read", 0, {j}, "unused")
    BY <2>2, DoneFields
  <2> HIDE DEF r
  <2> QED
    BY <2>1, <2>2, <2>3 DEF GoesOn, RemovedBy, IsNow, RequestOK, EnqueueOK
<1>5. ASSUME NEW j \in Job, EnqueueLost(c, j) PROVE GoesOn(c)
  <2> DEFINE p == InsertedLost(q, j)
             r == DoneAs(p, {j})
  <2>1. Becomes(c, r)
    BY <1>5 DEF EnqueueLost, Wrote, Becomes, InsertedLost, DoneAs
  <2>2. p \in Request /\ p.op = "enqueue" /\ p.pc = "answered" /\ p.answer = 500
    BY <1>1, InsertedLostFields
  <2> HIDE DEF p
  <2>3. r \in Request /\ IsNow(r, p, "answered", 500, {j}, p.was)
    BY <2>2, DoneFields
  <2> HIDE DEF r
  <2> QED
    BY <2>1, <2>2, <2>3 DEF GoesOn, RemovedBy, IsNow, RequestOK, EnqueueOK
<1> QED
  BY <1>2, <1>3, <1>4, <1>5

\* The handler of a cancel.
LEMMA CancelGoesOn ==
  ASSUME IInv, NEW c \in Client, FinalStays,
         CancelHit(c) \/ CancelMiss(c) \/ CancelLost(c) \/ CancelRead(c)
  PROVE  GoesOn(c)
<1> DEFINE q == request[c]
<1>1. /\ q \in Request /\ q.op = "cancel" /\ q.job \in Job
      /\ state[q.job] \in Jobs!States
  BY KnownJob DEF CancelHit, CancelMiss, CancelLost, CancelRead, At
<1>2. q.answer = 0
  BY DEF IInv, RequestOK, CancelHit, CancelMiss, CancelLost, CancelRead, At
<1> USE CodesKnown
<1>3. CASE CancelHit(c)
  <2>1. PICK r \in Request :
          Becomes(c, r) /\ IsNow(r, q, "read", q.answer, {q.job}, state[q.job])
    <3>1. {q.job} \in SUBSET Job
      BY <1>1
    <3>2. Wrote(c, {q.job}, ToRead(q, state[q.job]))
      BY <1>3, Zenon DEF CancelHit, Was, ToRead
    <3> QED
      BY <1>1, <3>1, <3>2, WroteThenReads, SMTT(60)
  <2>2. state'[q.job] = "canceled"
    BY <1>1, <1>3 DEF CancelHit, Jobs!Withdraw, IInv, TypeOK
  <2> QED
    BY <1>1, <1>2, <2>1, <2>2 DEF GoesOn, RemovedBy, IsNow, RequestOK, CancelOK
<1>4. CASE CancelLost(c)
  <2>1. PICK r \in Request :
          Becomes(c, r) /\ IsNow(r, q, "answered", 500, {q.job}, state[q.job])
    <3>1. {q.job} \in SUBSET Job
      BY <1>1
    <3>2. Wrote(c, {q.job}, ToAnswer(q, state[q.job], 500))
      BY <1>4, Zenon DEF CancelLost, Was, ToAnswer
    <3> QED
      BY <1>1, <3>1, <3>2, WroteThenAnswered, SMTT(60)
  <2> QED
    BY <1>1, <2>1 DEF GoesOn, RemovedBy, IsNow, RequestOK, CancelOK
<1>5. CASE CancelMiss(c)
  <2>1. PICK r \in Request :
          Becomes(c, r) /\ IsNow(r, q, "read", q.answer, {}, state[q.job])
    <3>1. {} \in SUBSET Job
      BY <1>1
    <3>2. Wrote(c, {}, ToRead(q, state[q.job]))
      BY <1>5, Zenon DEF CancelMiss, Was, ToRead
    <3> QED
      BY <1>1, <3>1, <3>2, WroteThenReads, SMTT(60)
  <2>2. state[q.job] \notin {"pending", "running"}
    BY <1>5 DEF CancelMiss
  <2> QED
    BY <1>1, <1>2, <2>1, <2>2 DEF GoesOn, RemovedBy, IsNow, RequestOK, CancelOK
<1>6. CASE CancelRead(c)
  <2>1. state' = state
    BY <1>6 DEF CancelRead, queue
  <2>2. /\ q.did # {} => state[q.job] = "canceled"
        /\ q.did = {} => q.was \notin {"pending", "running"}
    BY <1>1, <1>6 DEF CancelRead, At, IInv, RequestOK, CancelOK
  <2>3. CASE state[q.job] = "canceled" /\ AnswerWithJob(c, 200)
    <3>1. PICK r \in Request :
            /\ Becomes(c, r) /\ r.shown = state[q.job]
            /\ IsNow(r, q, "answered", 200, q.did, q.was)
      BY <1>1, <2>3, Shown
    <3> QED
      BY <1>1, <2>1, <2>3, <3>1 DEF GoesOn, RemovedBy, IsNow, RequestOK, CancelOK
  <2>4. CASE q.did = {} /\ AnswerWithJob(c, 409)
    <3>1. PICK r \in Request : Becomes(c, r) /\ IsNow(r, q, "answered", 409, q.did, q.was)
      BY <1>1, <2>4, Shown
    <3> QED
      BY <1>1, <2>2, <2>4, <3>1 DEF GoesOn, RemovedBy, IsNow, RequestOK, CancelOK
  <2>5. CASE ~Exists(q.job) /\ Answer(c, 404)
    <3>1. PICK r \in Request : Becomes(c, r) /\ IsNow(r, q, "answered", 404, q.did, q.was)
      BY <1>1, <2>5, Answered
    <3>2. q.did = {}
      BY <2>2, <2>5 DEF Exists
    <3> QED
      BY <1>1, <2>2, <3>1, <3>2 DEF GoesOn, RemovedBy, IsNow, RequestOK, CancelOK
  <2>6. CASE Answer(c, 500)
    <3>1. PICK r \in Request : Becomes(c, r) /\ IsNow(r, q, "answered", 500, q.did, q.was)
      BY <1>1, <2>6, Answered
    <3> QED
      BY <1>1, <3>1 DEF GoesOn, RemovedBy, IsNow, RequestOK, CancelOK
  <2> QED
    BY <1>6, <2>2, <2>3, <2>4, <2>5, <2>6 DEF CancelRead
<1> QED
  BY <1>3, <1>4, <1>5, <1>6

\* The handler of a retry.
LEMMA RetryGoesOn ==
  ASSUME IInv, NEW c \in Client, FinalStays,
         RetryHit(c) \/ RetryMiss(c) \/ RetryLost(c) \/ RetryRead(c)
  PROVE  GoesOn(c)
<1> DEFINE q == request[c]
<1>1. /\ q \in Request /\ q.op = "retry" /\ q.job \in Job
      /\ state[q.job] \in Jobs!States
  BY KnownJob DEF RetryHit, RetryMiss, RetryLost, RetryRead, At
<1> USE CodesKnown
<1>2. CASE RetryHit(c)
  <2>1. PICK r \in Request :
          Becomes(c, r) /\ IsNow(r, q, "read", q.answer, {q.job}, state[q.job])
    <3>1. {q.job} \in SUBSET Job
      BY <1>1
    <3>2. Wrote(c, {q.job}, ToRead(q, state[q.job]))
      BY <1>2, Zenon DEF RetryHit, Was, ToRead
    <3> QED
      BY <1>1, <3>1, <3>2, WroteThenReads, SMTT(60)
  <2>2. state[q.job] = "dead" /\ q.answer = 0
    BY <1>2 DEF RetryHit, At, Jobs!Revive, IInv, RequestOK
  <2> QED
    BY <1>1, <2>1, <2>2 DEF GoesOn, RemovedBy, IsNow, RequestOK, RetryOK
<1>3. CASE RetryMiss(c)
  <2>1. PICK r \in Request :
          Becomes(c, r) /\ IsNow(r, q, "answered", 400, {}, state[q.job])
    <3>1. {} \in SUBSET Job
      BY <1>1
    <3>2. Wrote(c, {}, ToAnswer(q, state[q.job], 400))
      BY <1>3, Zenon DEF RetryMiss, Was, ToAnswer
    <3> QED
      BY <1>1, <3>1, <3>2, WroteThenAnswered, SMTT(60)
  <2> QED
    BY <1>1, <2>1 DEF GoesOn, RemovedBy, IsNow, RequestOK, RetryOK
<1>4. CASE RetryLost(c)
  <2>1. PICK r \in Request :
          Becomes(c, r) /\ IsNow(r, q, "answered", 400, {q.job}, state[q.job])
    <3>1. {q.job} \in SUBSET Job
      BY <1>1
    <3>2. Wrote(c, {q.job}, ToAnswer(q, state[q.job], 400))
      BY <1>4, Zenon DEF RetryLost, Was, ToAnswer
    <3> QED
      BY <1>1, <3>1, <3>2, WroteThenAnswered, SMTT(60)
  <2> QED
    BY <1>1, <2>1 DEF GoesOn, RemovedBy, IsNow, RequestOK, RetryOK
<1>5. CASE RetryRead(c)
  <2>1. q.did = {q.job} /\ q.was = "dead"
    BY <1>1, <1>5 DEF RetryRead, At, IInv, RequestOK, RetryOK
  <2>2. CASE AnswerWithJob(c, 200)
    <3>1. PICK r \in Request : Becomes(c, r) /\ IsNow(r, q, "answered", 200, q.did, q.was)
      BY <1>1, <2>2, Shown
    <3> QED
      BY <1>1, <2>1, <3>1 DEF GoesOn, RemovedBy, IsNow, RequestOK, RetryOK
  <2>3. CASE Answer(c, 500)
    <3>1. PICK r \in Request : Becomes(c, r) /\ IsNow(r, q, "answered", 500, q.did, q.was)
      BY <1>1, <2>3, Answered
    <3> QED
      BY <1>1, <3>1 DEF GoesOn, RemovedBy, IsNow, RequestOK, RetryOK
  <2> QED
    BY <1>5, <2>2, <2>3 DEF RetryRead
<1> QED
  BY <1>2, <1>3, <1>4, <1>5

\* The handler of a delete: only one that changed its row answers 204.
LEMMA DeleteGoesOn ==
  ASSUME IInv, NEW c \in Client, FinalStays,
         DeleteHit(c) \/ DeleteMiss(c) \/ DeleteLost(c)
  PROVE  GoesOn(c)
<1> DEFINE q == request[c]
<1>1. /\ q \in Request /\ q.op = "delete" /\ q.job \in Job
      /\ state[q.job] \in Jobs!States
  BY KnownJob DEF DeleteHit, DeleteMiss, DeleteLost, At
<1> USE CodesKnown
<1>2. CASE DeleteHit(c)
  <2>1. PICK r \in Request :
          Becomes(c, r) /\ IsNow(r, q, "answered", 204, {q.job}, state[q.job])
    <3>1. {q.job} \in SUBSET Job
      BY <1>1
    <3>2. Wrote(c, {q.job}, ToAnswer(q, state[q.job], 204))
      BY <1>2, Zenon DEF DeleteHit, Was, ToAnswer
    <3> QED
      BY <1>1, <3>1, <3>2, WroteThenAnswered, SMTT(60)
  <2>2. q.job \in Dead /\ state'[q.job] = "deleted"
    BY <1>1, <1>2 DEF DeleteHit, Jobs!Discard, Dead
  <2> QED
    BY <1>1, <2>1, <2>2 DEF GoesOn, RemovedBy, IsNow, RequestOK, DeleteOK
<1>3. CASE DeleteMiss(c)
  <2>1. PICK r \in Request :
          Becomes(c, r) /\ IsNow(r, q, "answered", 400, {}, state[q.job])
    <3>1. {} \in SUBSET Job
      BY <1>1
    <3>2. Wrote(c, {}, ToAnswer(q, state[q.job], 400))
      BY <1>3, Zenon DEF DeleteMiss, Was, ToAnswer
    <3> QED
      BY <1>1, <3>1, <3>2, WroteThenAnswered, SMTT(60)
  <2> QED
    BY <1>1, <2>1 DEF GoesOn, RemovedBy, IsNow, RequestOK, DeleteOK
<1>4. CASE DeleteLost(c)
  <2>1. PICK r \in Request :
          Becomes(c, r) /\ IsNow(r, q, "answered", 400, {q.job}, state[q.job])
    <3>1. {q.job} \in SUBSET Job
      BY <1>1
    <3>2. Wrote(c, {q.job}, ToAnswer(q, state[q.job], 400))
      BY <1>4, Zenon DEF DeleteLost, Was, ToAnswer
    <3> QED
      BY <1>1, <3>1, <3>2, WroteThenAnswered, SMTT(60)
  <2> QED
    BY <1>1, <2>1 DEF GoesOn, RemovedBy, IsNow, RequestOK, DeleteOK
<1> QED
  BY <1>2, <1>3, <1>4

\* The purge takes the dead jobs, and they are deleted for whoever looks next.
LEMMA PurgeGoesOn ==
  ASSUME IInv, NEW c \in Client, Purge(c) PROVE GoesOn(c)
<1> DEFINE q == request[c]
<1>1. q \in Request /\ q.op = "purge"
  BY DEF IInv, TypeOK, Purge, At
<1>2. Dead \in SUBSET Job /\ \A j \in Dead : state'[j] = "deleted"
  BY DEF Dead, Purge, Jobs!Discard
<1>3. PICK code \in {200, 500} : Wrote(c, Dead, AnsweredAs(q, code))
  BY DEF Purge, AnsweredAs
<1>4. PICK r \in Request : Becomes(c, r) /\ IsNow(r, q, "answered", code, Dead, q.was)
  <2>1. code \in Codes
    BY CodesKnown
  <2> QED
    BY <1>1, <1>2, <1>3, <2>1, PurgedThenAnswered
<1> QED
  BY <1>1, <1>2, <1>3, <1>4 DEF GoesOn, RemovedBy, IsNow, RequestOK, PurgeOK

LEMMA GetGoesOn ==
  ASSUME IInv, NEW c \in Client, GetRead(c) PROVE GoesOn(c)
<1> DEFINE q == request[c]
<1>1. q \in Request /\ q.op = "get" /\ q.job \in Job /\ state[q.job] \in Jobs!States
  BY KnownJob DEF GetRead, At
<1>2. CASE AnswerWithJob(c, 200)
  <2>1. PICK r \in Request : Becomes(c, r) /\ IsNow(r, q, "answered", 200, q.did, q.was)
    BY <1>1, <1>2, CodesKnown, Shown
  <2> QED
    BY <1>1, <2>1 DEF GoesOn, RemovedBy, IsNow, RequestOK
<1>3. CASE Answer(c, 404)
  <2>1. PICK r \in Request : Becomes(c, r) /\ IsNow(r, q, "answered", 404, q.did, q.was)
    BY <1>1, <1>3, CodesKnown, Answered
  <2> QED
    BY <1>1, <2>1 DEF GoesOn, RemovedBy, IsNow, RequestOK
<1> QED
  BY <1>2, <1>3 DEF GetRead

\* A statement that failed changed nothing, and is refused or reported as an
\* error of the server.
LEMMA FailureGoesOn ==
  ASSUME IInv, NEW c \in Client, StatementFails(c) PROVE GoesOn(c)
<1> DEFINE q == request[c]
<1>1. q \in Request /\ RequestOK(q) /\ q.pc = "write" /\ q.did = {}
  BY DEF IInv, TypeOK, StatementFails, RequestOK
<1>2. PICK code \in {400, 500} :
        Answer(c, code) /\ (code = 400 => q.op \in {"retry", "delete"})
  BY DEF StatementFails
<1>3. PICK r \in Request : Becomes(c, r) /\ IsNow(r, q, "answered", code, q.did, q.was)
  BY <1>1, <1>2, CodesKnown, Answered
<1>4. /\ r.op = q.op /\ r.job = q.job /\ r.pc = "answered" /\ r.did = {}
      /\ r.answer = code
  BY <1>1, <1>3 DEF IsNow
<1>5. q.op \in {"get", "cancel", "retry", "delete"} => q.job \in Job
  BY <1>1 DEF RequestOK
<1>6. RequestOK(r)'
  BY <1>2, <1>4, <1>5 DEF RequestOK, EnqueueOK, CancelOK, RetryOK, DeleteOK, PurgeOK
<1>7. RemovedBy(r) = {}
  BY <1>2, <1>4 DEF RemovedBy
<1> QED
  BY <1>3, <1>6, <1>7 DEF GoesOn

\* Nobody learns the answer of a request that is cut off.
LEMMA CutGoesOn ==
  ASSUME IInv, NEW c \in Client, Cut(c) PROVE GoesOn(c)
<1> DEFINE q == request[c]
           p == [q EXCEPT !.pc = "cut"]
<1>1. q \in Request /\ RequestOK(q) /\ q.answer = 0
  BY DEF IInv, TypeOK, Cut, RequestOK
<1>2. Becomes(c, p)
  BY DEF Cut, Becomes
<1>3. p \in Request
  BY <1>1, UpdatePc
<1>4. IsNow(p, q, "cut", 0, q.did, q.was)
  BY <1>1 DEF Request, IsNow
<1> HIDE DEF p
<1>5. PICK r \in Request : Becomes(c, r) /\ IsNow(r, q, "cut", 0, q.did, q.was)
  BY <1>2, <1>3, <1>4
<1>6. state' = state
  BY DEF Cut, queue
<1>7. RequestOK(r)'
  <2>1. r.op = "purge" => PurgeOK(r)'
    BY <1>1, <1>5, <1>6 DEF IsNow, RequestOK, PurgeOK
  <2> QED
    BY <1>1, <1>5, <2>1 DEF IsNow, RequestOK, EnqueueOK, CancelOK, RetryOK, DeleteOK
<1>8. RemovedBy(r) = {}
  BY <1>5 DEF IsNow, RemovedBy
<1> QED
  BY <1>5, <1>7, <1>8 DEF GoesOn

-----------------------------------------------------------------------------
(* The invariant and what follows from it.                                 *)

\* A step is the queue's, or one request's.
LEMMA StepOfOne ==
  ASSUME IInv, FinalStays, Next
  PROVE  UNCHANGED request \/ \E c \in Client : GoesOn(c)
<1>1. ASSUME NEW c \in Client, Handler(c) PROVE GoesOn(c)
  BY <1>1, EnqueueGoesOn, CancelGoesOn, RetryGoesOn, DeleteGoesOn, PurgeGoesOn, GetGoesOn,
     FailureGoesOn, CutGoesOn DEF Handler
<1>2. ASSUME NEW c \in Client, NEW op \in Operation \ {"enqueue", "purge"}, NEW j \in Job,
             Arrive(c, op, j)
      PROVE  GoesOn(c)
  <2>1. Becomes(c, Fresh(op, j))
    BY <1>2 DEF Arrive, Becomes
  <2>2. 0 \in Asked
    BY MaxBudgetType DEF Asked
  <2> QED
    BY <2>1, <2>2, OpenedGoesOn
<1>3. ASSUME NEW c \in Client, Arrive(c, "purge", NoJob) PROVE GoesOn(c)
  <2>1. Becomes(c, Fresh("purge", NoJob))
    BY <1>3 DEF Arrive, Becomes
  <2>2. 0 \in Asked /\ "purge" \in Operation
    BY MaxBudgetType DEF Asked, Operation
  <2> QED
    BY <2>1, <2>2, OpenedGoesOn
<1>4. ASSUME NEW c \in Client, NEW asked \in Asked, NEW valid \in BOOLEAN,
             ArriveEnqueue(c, asked, valid)
      PROVE  GoesOn(c)
  <2>1. Becomes(c, [Fresh("enqueue", NoJob) EXCEPT !.asked = asked, !.valid = valid])
    BY <1>4 DEF ArriveEnqueue, Becomes
  <2>2. "enqueue" \in Operation
    BY DEF Operation
  <2> QED
    BY <2>1, <2>2, OpenedGoesOn
<1>5. ASSUME NEW j \in Job, Queue(j) PROVE UNCHANGED request
  BY <1>5 DEF Queue
<1> QED
  BY <1>1, <1>2, <1>3, <1>4, <1>5 DEF Next

LEMMA Initially == Init => IInv /\ OneRemover
<1> SUFFICES ASSUME Init PROVE IInv /\ OneRemover
  OBVIOUS
<1>1. TypeOK
  <2>1. NoRequest \in Request
    <3>1. Fresh("none", NoJob) \in Request
      BY MaxBudgetType DEF Fresh, Request, Asked
    <3> QED
      BY <3>1, UpdatePc DEF NoRequest
  <2> QED
    BY <2>1, ApiConstantsOK, MaxBudgetType DEF Init, Jobs!Init, Jobs!States, TypeOK
<1>2. LapsedRun /\ BudgetWithinPolicy
  BY DEF Init, Jobs!Init, LapsedRun, BudgetWithinPolicy, Exists
<1>3. /\ NoRequest.op = "none" /\ NoRequest.pc = "idle" /\ NoRequest.answer = 0
      /\ NoRequest.did = {}
  BY DEF NoRequest, Fresh
<1>4. \A c \in Client : RequestOK(request[c]) /\ Removed(c) = {}
  BY <1>3 DEF Init, RequestOK, Removed
<1> QED
  BY <1>1, <1>2, <1>4 DEF IInv, OneRemover

LEMMA IInvKept == IInv /\ [Next]_vars => IInv' /\ FinalStays
<1> SUFFICES ASSUME IInv, [Next]_vars PROVE IInv' /\ FinalStays
  OBVIOUS
<1>1. TableOK' /\ FinalStays
  BY StepIsTableStep, TableKept, Finality DEF IInv, TypeOK, TableOK
<1>2. request' \in [Client -> Request] /\ \A c \in Client : RequestOK(request[c])'
  <2>1. \A r \in Request : RequestOK(r) => RequestOK(r)'
    BY <1>1, OthersKeep
  <2>2. CASE UNCHANGED request
    BY <2>1, <2>2 DEF IInv, TypeOK
  <2>3. ASSUME NEW c \in Client, GoesOn(c)
        PROVE  /\ request' \in [Client -> Request]
               /\ \A d \in Client : RequestOK(request[d])'
    <3>1. PICK r \in Request : Becomes(c, r) /\ RequestOK(r)'
      BY <2>3 DEF GoesOn
    <3>2. request' \in [Client -> Request]
      BY <3>1 DEF Becomes, IInv, TypeOK
    <3>3. ASSUME NEW d \in Client PROVE RequestOK(request[d])'
      <4>1. PICK x \in Request : x = request'[d] /\ (d = c \/ x = request[d])
        BY <3>1, <3>2 DEF Becomes, IInv, TypeOK
      <4>2. RequestOK(x)'
        <5>1. CASE d = c
          BY <3>1, <4>1, <5>1 DEF Becomes, IInv, TypeOK
        <5>2. CASE x = request[d]
          BY <2>1, <5>2 DEF IInv
        <5> QED
          BY <4>1, <5>1, <5>2
      <4> QED
        BY <4>1, <4>2
    <3> QED
      BY <3>2, <3>3
  <2> QED
    BY <1>1, <2>2, <2>3, StepOfOne DEF vars
<1> QED
  BY <1>1, <1>2 DEF TableOK, IInv, TypeOK

\* What is known of the table and of every request, in every reachable state.
THEOREM Invariance == Spec => []IInv
  BY Initially, IInvKept, PTL DEF Spec

\* Every variable has its type, at every moment.
THEOREM TypeCorrect == Spec => []TypeOK
  BY Invariance, PTL DEF IInv

\* A successful answer is true while the table moves on under the handlers.
THEOREM TrueAnswers == Spec => []AnswersAreTrue
<1>1. IInv => AnswersAreTrue
  BY DEF IInv, AnswersAreTrue, RequestOK, EnqueueOK, CancelOK, RetryOK, DeleteOK, PurgeOK
<1> QED
  BY <1>1, Invariance, PTL

\* A refusal was right when the statement ran.
THEOREM JustRefusals == Spec => []RefusalsAreJustified
<1>1. IInv => RefusalsAreJustified
  BY DEF IInv, RefusalsAreJustified, RequestOK, EnqueueOK, CancelOK
<1> QED
  BY <1>1, Invariance, PTL

\* Every job in the table may fail at least once and at most MaxBudget times,
\* whatever budgets the clients ask for.
THEOREM BudgetsHold == Spec => []BudgetWithinPolicy
  BY Invariance, PTL DEF IInv

\* What a request removed is deleted, so a later remover cannot report it.
LEMMA RemovedAreDeleted ==
  ASSUME IInv, NEW c \in Client PROVE \A j \in Removed(c) : state[j] = "deleted"
  BY DEF IInv, RequestOK, DeleteOK, PurgeOK, Removed

LEMMA OneRemoverKept == IInv /\ OneRemover /\ [Next]_vars => OneRemover'
<1> SUFFICES ASSUME IInv, OneRemover, [Next]_vars, NEW a \in Client, NEW b \in Client, a # b
             PROVE  Removed(a)' \cap Removed(b)' = {}
  BY DEF OneRemover
<1>1. CASE UNCHANGED request
  BY <1>1 DEF OneRemover, Removed
<1>2. ASSUME NEW c \in Client, GoesOn(c) PROVE Removed(a)' \cap Removed(b)' = {}
  <2>1. PICK r \in Request : Becomes(c, r) /\ RemovedBy(r) \subseteq Dead
    BY <1>2 DEF GoesOn
  <2>2. \A d \in Client : d # c => Removed(d)' = Removed(d)
    BY <2>1 DEF Becomes, IInv, TypeOK, Removed
  <2>3. Removed(c)' \subseteq Dead
    <3>1. request'[c] = r
      BY <2>1 DEF Becomes, IInv, TypeOK
    <3> QED
      BY <2>1, <3>1 DEF RemovedBy, Removed
  <2>4. \A d \in Client : Removed(d) \cap Dead = {}
    BY RemovedAreDeleted DEF Dead
  <2>5. CASE a = c
    BY <2>2, <2>3, <2>4, <2>5
  <2>6. CASE b = c
    BY <2>2, <2>3, <2>4, <2>6
  <2>7. CASE a # c /\ b # c
    BY <2>2, <2>7 DEF OneRemover
  <2> QED
    BY <2>5, <2>6, <2>7
<1> QED
  BY <1>1, <1>2, IInvKept, StepOfOne DEF vars

\* However many operators remove the same dead job at once, at most one is told
\* that it did.
THEOREM AtMostOneRemover == Spec => []OneRemover
  BY Initially, Invariance, OneRemoverKept, PTL DEF Spec

\* Nothing the operators and the queue do brings a canceled or a deleted job
\* back, or turns one into the other.
THEOREM FinalStatesStay == Spec => [][FinalStays]_vars
  BY Invariance, IInvKept, PTL DEF Spec

-----------------------------------------------------------------------------
(* The requests do to the table what JobLifecycle allows.                  *)

\* OperatorApi implements JobLifecycle: the initial states map to initial
\* states, and every step is a step of the lifecycle or leaves the table alone.
THEOREM ImplementsLifecycle == Spec => Jobs!Spec
<1>1. Init => Jobs!Init
  BY DEF Init
<1>2. IInv /\ [Next]_vars => [Jobs!Next]_queue
  <2>1. TableStep => Jobs!Next \/ UNCHANGED queue
    <3>1. \A j \in Job : {j} \in SUBSET Job
      OBVIOUS
    <3> QED
      BY <3>1, Zenon DEF TableStep, Jobs!Next
  <2> QED
    BY <2>1, StepIsTableStep
<1> QED
  BY <1>1, <1>2, Invariance, PTL DEF Spec, Jobs!Spec, Jobs!vars, queue
=============================================================================
