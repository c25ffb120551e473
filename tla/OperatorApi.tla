----------------------------- MODULE OperatorApi -----------------------------
(***************************************************************************)
(* The HTTP handlers of internal/api/handlers.go, which answer after one   *)
(* or two statements on the table, while other operators' requests and the *)
(* workers change it in between.                                           *)
(*                                                                         *)
(* The queue is seen through JobLifecycle, which LeaseQueue implements:    *)
(* each statement a handler issues is one of its actions, and whatever the *)
(* pool, the reaper and time do is one of its other actions.               *)
(*                                                                         *)
(* A request is a record: pc is where its handler stands,                  *)
(*   "write" before its INSERT, UPDATE or DELETE, "read" before GetJob,    *)
(*   "answered", or "cut": the process exited or the client went away and  *)
(*   nobody learns the answer (main returns without waiting for requests   *)
(*   that are being served).                                               *)
(* did and was are history: the jobs its statement changed, and the state  *)
(* of its job when the statement ran.                                      *)
(***************************************************************************)
EXTENDS Integers

CONSTANTS Job, Holder, NoHolder,
          Client,       \* requests that may be open at a time
          MaxAttempts,  \* MAX_ATTEMPTS, as configured
          TryLimit,     \* bound: how often a job is granted
          NoJob

\* MAX_ATTEMPTS is whatever integer the environment holds.
ASSUME ApiConstantsOK == MaxAttempts \in Int /\ TryLimit \in Nat

VARIABLES state, holder, tries, budget, lapsed,   \* the table, see JobLifecycle
          request                                 \* [Client -> request]

\* NewHandler: a configured maximum below 1 is replaced.
MaxBudget == IF MaxAttempts < 1 THEN 5 ELSE MaxAttempts

Jobs == INSTANCE JobLifecycle

queue == <<state, holder, tries, budget, lapsed>>

vars == <<queue, request>>

\* The budgets a client may ask for; 0 is what a body without one decodes to.
Asked == -1..(MaxBudget + 1)

Operation == {"enqueue", "get", "cancel", "retry", "delete", "purge"}

Request ==
  [op     : Operation \cup {"none"},
   pc     : {"idle", "write", "read", "answered", "cut"},
   job    : Job \cup {NoJob},
   asked  : Asked,
   valid  : BOOLEAN,     \* JSON, type, priority and payload pass
   answer : {0, 200, 201, 204, 400, 404, 409, 500},
   shown  : Jobs!States \cup {"none"},
   did    : SUBSET Job,
   was    : Jobs!States \cup {"none"}]

Fresh(op, j) ==
  [op |-> op, pc |-> IF op = "get" THEN "read" ELSE "write", job |-> j,
   asked |-> 0, valid |-> TRUE, answer |-> 0, shown |-> "none", did |-> {},
   was |-> "none"]

NoRequest == [Fresh("none", NoJob) EXCEPT !.pc = "idle"]

Exists(j) == state[j] \notin {"unused", "deleted"}

Init ==
  /\ Jobs!Init
  /\ request = [c \in Client |-> NoRequest]

-----------------------------------------------------------------------------

\* The handler of op is about to issue its statement, or its GetJob.
At(c, op, pc) == request[c].op = op /\ request[c].pc = pc

Answer(c, code) ==
  request' = [request EXCEPT ![c] = [@ EXCEPT !.pc = "answered", !.answer = code]]

AnswerWithJob(c, code) ==
  request' = [request EXCEPT ![c] =
    [@ EXCEPT !.pc = "answered", !.answer = code, !.shown = state[request[c].job]]]

\* The statement ran and changed the jobs of D.
Wrote(c, D, r) ==
  request' = [request EXCEPT ![c] = [r EXCEPT !.did = D]]

Was(c) == [request[c] EXCEPT !.was = state[request[c].job]]

Arrive(c, op, j) ==
  /\ request[c].pc \in {"idle", "answered", "cut"}
  /\ request' = [request EXCEPT ![c] = Fresh(op, j)]
  /\ UNCHANGED queue

ArriveEnqueue(c, asked, valid) ==
  /\ request[c].pc \in {"idle", "answered", "cut"}
  /\ request' = [request EXCEPT ![c] =
       [Fresh("enqueue", NoJob) EXCEPT !.asked = asked, !.valid = valid]]
  /\ UNCHANGED queue

-----------------------------------------------------------------------------
(* POST /api/jobs                                                          *)

EffectiveBudget(r) == IF r.asked = 0 THEN MaxBudget ELSE r.asked

\* Fault: the budget is not bounded from below.
AcceptedAtMost(r) ==
  r.valid /\ EffectiveBudget(r) <= MaxBudget

Accepted(r) ==
  r.valid /\ EffectiveBudget(r) \in 1..MaxBudget

EnqueueRejected(c) ==
  /\ At(c, "enqueue", "write")
  /\ ~Accepted(request[c])
  /\ Answer(c, 400)
  /\ UNCHANGED queue

EnqueueInserted(c, j) ==
  /\ At(c, "enqueue", "write")
  /\ Accepted(request[c])
  /\ Jobs!Submit(j, EffectiveBudget(request[c]))
  /\ Wrote(c, {j}, [request[c] EXCEPT !.pc = "read", !.job = j, !.was = "unused"])

EnqueueLost(c, j) ==
  /\ At(c, "enqueue", "write")
  /\ Accepted(request[c])
  /\ Jobs!Submit(j, EffectiveBudget(request[c]))
  /\ Wrote(c, {j}, [request[c] EXCEPT !.pc = "answered", !.job = j, !.answer = 500])

\* The job may be deleted already, or be running: it is read as it is now.
EnqueueRead(c) ==
  /\ At(c, "enqueue", "read")
  /\ \/ Exists(request[c].job) /\ AnswerWithJob(c, 201)
     \/ Answer(c, 500)
  /\ UNCHANGED queue

-----------------------------------------------------------------------------
(* POST /api/jobs/{id}/cancel                                              *)

CancelHit(c) ==
  /\ At(c, "cancel", "write")
  /\ Jobs!Withdraw(request[c].job)
  /\ Wrote(c, {request[c].job}, [Was(c) EXCEPT !.pc = "read"])

\* Fault: the UPDATE's WHERE takes running jobs only.
CancelMissPending(c) ==
  /\ At(c, "cancel", "write")
  /\ state[request[c].job] # "running"
  /\ Wrote(c, {}, [Was(c) EXCEPT !.pc = "read"])
  /\ UNCHANGED queue

CancelMiss(c) ==
  /\ At(c, "cancel", "write")
  /\ state[request[c].job] \notin {"pending", "running"}
  /\ Wrote(c, {}, [Was(c) EXCEPT !.pc = "read"])
  /\ UNCHANGED queue

CancelLost(c) ==
  /\ At(c, "cancel", "write")
  /\ Jobs!Withdraw(request[c].job)
  /\ Wrote(c, {request[c].job}, [Was(c) EXCEPT !.pc = "answered", !.answer = 500])

\* GetJob after the UPDATE.  When the UPDATE changed a row the job is returned
\* as it is; when it did not, the status read now decides the answer.
CancelRead(c) ==
  LET j == request[c].job
  IN  /\ At(c, "cancel", "read")
      /\ \/ ~Exists(j) /\ Answer(c, 404)
         \/ Exists(j) /\ request[c].did # {} /\ AnswerWithJob(c, 200)
         \/ request[c].did = {} /\ state[j] = "canceled" /\ AnswerWithJob(c, 200)
         \/ /\ request[c].did = {}
            /\ Exists(j) /\ state[j] # "canceled"
            /\ AnswerWithJob(c, 409)
         \/ Answer(c, 500)
      /\ UNCHANGED queue

-----------------------------------------------------------------------------
(* POST /api/jobs/{id}/retry and DELETE /api/jobs/{id}: whatever the       *)
(* statement's error is, the answer is 400.                                *)

RetryHit(c) ==
  /\ At(c, "retry", "write")
  /\ Jobs!Revive(request[c].job)
  /\ Wrote(c, {request[c].job}, [Was(c) EXCEPT !.pc = "read"])

\* Fault: the number of rows affected is not looked at.
RetryMissIgnored(c) ==
  /\ At(c, "retry", "write")
  /\ state[request[c].job] # "dead"
  /\ Wrote(c, {}, [Was(c) EXCEPT !.pc = "read"])
  /\ UNCHANGED queue

RetryMiss(c) ==
  /\ At(c, "retry", "write")
  /\ state[request[c].job] # "dead"
  /\ Wrote(c, {}, [Was(c) EXCEPT !.pc = "answered", !.answer = 400])
  /\ UNCHANGED queue

RetryLost(c) ==
  /\ At(c, "retry", "write")
  /\ Jobs!Revive(request[c].job)
  /\ Wrote(c, {request[c].job}, [Was(c) EXCEPT !.pc = "answered", !.answer = 400])

\* By now the job may run again, be finished, dead again or deleted.
RetryRead(c) ==
  /\ At(c, "retry", "read")
  /\ \/ Exists(request[c].job) /\ AnswerWithJob(c, 200)
     \/ Answer(c, 500)
  /\ UNCHANGED queue

DeleteHit(c) ==
  /\ At(c, "delete", "write")
  /\ Jobs!Discard({request[c].job})
  /\ Wrote(c, {request[c].job}, [Was(c) EXCEPT !.pc = "answered", !.answer = 204])

\* Fault: the number of rows affected is not looked at.
DeleteMissIgnored(c) ==
  /\ At(c, "delete", "write")
  /\ state[request[c].job] # "dead"
  /\ Wrote(c, {}, [Was(c) EXCEPT !.pc = "answered", !.answer = 204])
  /\ UNCHANGED queue

DeleteMiss(c) ==
  /\ At(c, "delete", "write")
  /\ state[request[c].job] # "dead"
  /\ Wrote(c, {}, [Was(c) EXCEPT !.pc = "answered", !.answer = 400])
  /\ UNCHANGED queue

DeleteLost(c) ==
  /\ At(c, "delete", "write")
  /\ Jobs!Discard({request[c].job})
  /\ Wrote(c, {request[c].job}, [Was(c) EXCEPT !.pc = "answered", !.answer = 400])

-----------------------------------------------------------------------------
(* DELETE /api/jobs/dead and GET /api/jobs/{id}                            *)

Dead == {j \in Job : state[j] = "dead"}

Purge(c) ==
  /\ At(c, "purge", "write")
  /\ Jobs!Discard(Dead)
  /\ \E code \in {200, 500} :
       Wrote(c, Dead, [request[c] EXCEPT !.pc = "answered", !.answer = code])

\* Any error of GetJob is answered 404, the database's own too.
GetRead(c) ==
  /\ At(c, "get", "read")
  /\ \/ Exists(request[c].job) /\ AnswerWithJob(c, 200)
     \/ Answer(c, 404)
  /\ UNCHANGED queue

-----------------------------------------------------------------------------

\* The statement failed and changed nothing.
StatementFails(c) ==
  /\ request[c].pc = "write"
  /\ request[c].op = "enqueue" => Accepted(request[c])
  /\ Answer(c, IF request[c].op \in {"retry", "delete"} THEN 400 ELSE 500)
  /\ UNCHANGED queue

Cut(c) ==
  /\ request[c].pc \in {"write", "read"}
  /\ request' = [request EXCEPT ![c].pc = "cut"]
  /\ UNCHANGED queue

Handler(c) ==
  \/ EnqueueRejected(c) \/ EnqueueRead(c)
  \/ \E j \in Job : EnqueueInserted(c, j) \/ EnqueueLost(c, j)
  \/ CancelHit(c) \/ CancelMiss(c) \/ CancelLost(c) \/ CancelRead(c)
  \/ RetryHit(c) \/ RetryMiss(c) \/ RetryLost(c) \/ RetryRead(c)
  \/ DeleteHit(c) \/ DeleteMiss(c) \/ DeleteLost(c)
  \/ Purge(c) \/ GetRead(c)
  \/ StatementFails(c) \/ Cut(c)

\* The workers, the reaper and time.
Queue(j) ==
  /\ \/ \E h \in Holder : tries[j] < TryLimit /\ Jobs!Grant(j, h)
     \/ Jobs!Expire(j) \/ Jobs!Extend(j) \/ Jobs!Reclaim({j})
     \/ Jobs!Complete(j) \/ Jobs!Requeue(j) \/ Jobs!Bury(j)
  /\ UNCHANGED request

Next ==
  \/ \E c \in Client :
       \/ Handler(c)
       \/ \E op \in Operation \ {"enqueue", "purge"}, j \in Job : Arrive(c, op, j)
       \/ Arrive(c, "purge", NoJob)
       \/ \E asked \in Asked, valid \in BOOLEAN : ArriveEnqueue(c, asked, valid)
  \/ \E j \in Job : Queue(j)

Spec == Init /\ [][Next]_vars

-----------------------------------------------------------------------------

\* Every variable has its type.
TypeOK ==
  /\ state \in [Job -> Jobs!States]
  /\ holder \in [Job -> Holder \cup {NoHolder}]
  /\ tries \in [Job -> 0..TryLimit]
  /\ budget \in [Job -> 0..MaxBudget]
  /\ lapsed \in SUBSET Job
  /\ request \in [Client -> Request]

\* What a successful answer says is true although the table moves on between
\* the statement, the read and the answer: a job answered 201 was inserted by
\* this request, one answered 200 to a cancel is canceled for good and shown so,
\* one answered 200 to a retry left the dead letters by this request, and the
\* jobs of a 204 or of a purge were removed by this request and stay away.
AnswersAreTrue ==
  \A c \in Client :
    LET r == request[c]
    IN  /\ r.answer = 201 => r.did = {r.job} /\ r.was = "unused"
        /\ (r.op = "cancel" /\ r.answer = 200)
             => state[r.job] = "canceled" /\ r.shown = "canceled"
        /\ (r.op = "retry" /\ r.answer = 200) => r.did = {r.job} /\ r.was = "dead"
        /\ r.answer = 204 => r.did = {r.job}
        /\ (r.answer = 204 \/ r.op = "purge") => \A j \in r.did : state[j] = "deleted"

\* A refusal was right when the statement ran: a request to enqueue answered 400
\* inserted nothing, and a cancel answered 404 or 409 met a job that was neither
\* pending nor running and left it alone.
RefusalsAreJustified ==
  \A c \in Client :
    LET r == request[c]
    IN  /\ (r.op = "enqueue" /\ r.answer = 400) => r.did = {}
        /\ (r.op = "cancel" /\ r.answer \in {404, 409})
             => r.did = {} /\ r.was \notin {"pending", "running"}

\* The jobs a request reports to have removed.
Removed(c) ==
  LET r == request[c]
  IN  IF r.answer = 204 THEN {r.job}
      ELSE IF r.op = "purge" /\ r.answer = 200 THEN r.did ELSE {}

\* Of several operators who remove the same dead job at once, one by one or all
\* together, one is told that it did.
OneRemover ==
  \A c, d \in Client : c # d => Removed(c) \cap Removed(d) = {}

\* Every job in the table may fail at least once and at most as often as the
\* configuration allows (PRD.md, "Payload validation").
BudgetWithinPolicy ==
  \A j \in Job : Exists(j) => budget[j] \in 1..MaxBudget

\* internal/store/postgres.go, ErrJobNotCancelable: "indicates that a job is
\* already in a terminal state".  (Ids no job had yet are left aside.)
ConflictMeansTerminal ==
  \A c \in Client :
    (request[c].answer = 409 /\ request[c].was # "unused")
      => request[c].shown \notin {"pending", "running"}
=============================================================================
