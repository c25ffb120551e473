------------------------------- MODULE JobTypes -------------------------------
(***************************************************************************)
(* What a job does: the registry, the payload checks, and the handlers     *)
(* send_email, webhook_delivery and generate_report, run by workers that   *)
(* may lose the job, their context or their process at any step, against a *)
(* receiver and a network that may do anything with a POST.                *)
(*                                                                         *)
(* The queue is seen through JobLifecycle, as in OperatorApi.              *)
(***************************************************************************)
EXTENDS Integers, FiniteSets

CONSTANTS Job, Holder, NoHolder, NoJob,
          MaxBudget,
          Payload,     \* payloads considered: [good, n]
          MaxSeconds,  \* the most seconds a time.Duration holds
          MaxRequests, \* requests one client.Do sends, redirects followed (10)
          GrantLimit   \* bound: how often a job is claimed

ASSUME TypesConstantsOK ==
  /\ NoJob \notin Job /\ NoHolder \notin Holder
  /\ IsFiniteSet(Holder)
  /\ Payload \subseteq [good : BOOLEAN, n : Int]
  /\ MaxBudget \in Nat /\ GrantLimit \in Nat
  /\ MaxRequests \in Nat \ {0}

VARIABLES state, holder, tries, budget, lapsed,  \* the table, see JobLifecycle
          task,    \* [Job -> its type and payload]
          run,     \* [Holder -> what its handler is doing]
          stray,   \* [Job -> POSTs under way that nobody waits for any more]
          got,     \* history: [Job -> POSTs its receivers got]
          again,   \* history: [Job -> POSTs that a receiver redirected]
          done,    \* history: jobs of which a handler did all the work
          grants   \* history: [Job -> how often it was claimed]

Jobs == INSTANCE JobLifecycle

queue == <<state, holder, tries, budget, lapsed>>

vars == <<queue, task, run, stray, got, again, done, grants>>

-----------------------------------------------------------------------------
(* The registry.  Of a payload is kept a number, timeout_seconds or rows,  *)
(* and whether the rest (JSON, required fields, URL, format) is good.      *)

Registered == {"send_email", "webhook_delivery", "generate_report"}

Type == Registered \cup {"other"}

ValidatePayload(t, p) ==
  /\ p.good
  /\ t = "webhook_delivery" => p.n >= 0
  /\ t = "generate_report" => p.n > 0

\* Registry.Validate, which enqueueJob calls.
Validate(t, p) == t \in Registered /\ ValidatePayload(t, p)

-----------------------------------------------------------------------------

\* pc: "called", "posting", "waiting", "rows", "asleep", "ok", "failed".
\* sent: the requests of client.Do.  post: the last one is "out" or "in", or it
\* is a "get", without the body.
Run == [job   : Job \cup {NoJob},
        pc    : {"idle", "called", "posting", "waiting", "rows", "asleep", "ok",
                 "failed"},
        alive : BOOLEAN,
        left  : Nat,
        sent  : 0..MaxRequests,
        post  : {"none", "out", "in", "get"}]

Idle == [job |-> NoJob, pc |-> "idle", alive |-> FALSE, left |-> 0,
         sent |-> 0, post |-> "none"]

Init ==
  /\ Jobs!Init
  /\ task \in [Job -> [type : {"other"}, payload : Payload]]
  /\ run = [h \in Holder |-> Idle]
  /\ stray = [j \in Job |-> 0]
  /\ got = [j \in Job |-> 0]
  /\ again = [j \in Job |-> 0]
  /\ done = {}
  /\ grants = [j \in Job |-> 0]

At(h, pc) == run[h].pc = pc

PayloadOf(h) == task[run[h].job].payload

Becomes(h, r) ==
  run' = [run EXCEPT ![h] = r] /\ UNCHANGED <<queue, task, grants>>

Goes(h, pc) ==
  Becomes(h, [run[h] EXCEPT !.pc = pc]) /\ UNCHANGED <<stray, got, again, done>>

Ended(h, pc) == [run[h] EXCEPT !.pc = pc, !.sent = 0, !.post = "none"]

\* The handler returns an error.
Fails(h) == Becomes(h, Ended(h, "failed")) /\ UNCHANGED <<stray, got, again, done>>

\* The handler returns nil after its work.
Finishes(h) ==
  /\ Becomes(h, Ended(h, "ok"))
  /\ done' = done \cup {run[h].job}
  /\ UNCHANGED <<stray, got, again>>

\* A POST that is out stays out.
Abandoned(h) ==
  stray' = IF run[h].post = "out" THEN [stray EXCEPT ![run[h].job] = @ + 1] ELSE stray

-----------------------------------------------------------------------------

Enqueue(j, t, p, max) ==
  /\ Validate(t, p)
  /\ Jobs!Submit(j, max)
  /\ task' = [task EXCEPT ![j] = [type |-> t, payload |-> p]]
  /\ UNCHANGED <<run, stray, got, again, done, grants>>

Claim(j, h) ==
  /\ At(h, "idle") /\ grants[j] < GrantLimit
  /\ Jobs!Grant(j, h)
  /\ run' = [run EXCEPT ![h] = [Idle EXCEPT !.job = j, !.pc = "called", !.alive = TRUE]]
  /\ grants' = [grants EXCEPT ![j] = @ + 1]
  /\ UNCHANGED <<task, stray, got, again, done>>

\* A renewal failed, or the pool is aborted.
ContextCanceled(h) ==
  /\ ~At(h, "idle") /\ run[h].alive
  /\ Becomes(h, [run[h] EXCEPT !.alive = FALSE])
  /\ UNCHANGED <<stray, got, again, done>>

\* main's handler: Lookup; then the type's function, which checks again.
Called(h) ==
  /\ At(h, "called")
  /\ LET t == task[run[h].job].type IN
     IF t \notin Registered \/ ~ValidatePayload(t, PayloadOf(h)) THEN Goes(h, "failed")
     ELSE CASE t = "webhook_delivery" -> Goes(h, "posting")
            [] t = "send_email" -> Goes(h, "asleep")
            [] t = "generate_report" ->
                 Becomes(h, [run[h] EXCEPT !.pc = "rows", !.left = PayloadOf(h).n])
                   /\ UNCHANGED <<stray, got, again, done>>

\* client.Do sends a request; with a canceled context it sends none.
Posts(h) ==
  /\ At(h, "posting")
  /\ IF run[h].alive
     THEN Becomes(h, [run[h] EXCEPT !.pc = "waiting", !.sent = @ + 1,
                                    !.post = IF @ = "get" THEN "get" ELSE "out"])
            /\ UNCHANGED <<stray, got, again, done>>
     ELSE Fails(h)

\* The receiver gets the POST.
Arrives(h) ==
  /\ run[h].post = "out"
  /\ Becomes(h, [run[h] EXCEPT !.post = "in"])
  /\ got' = [got EXCEPT ![run[h].job] = @ + 1]
  /\ UNCHANGED <<stray, again, done>>

\* A 307 or 308 (307) makes the client send its POST again, to wherever the
\* answer says: the body is a bytes.Reader.  A 301, 302 or 303 (303) makes it a
\* GET, and a GET stays one.
Redirected(h, code) ==
  LET post == code = 307 /\ run[h].post = "in" IN
  /\ Becomes(h, [run[h] EXCEPT !.pc = "posting", !.post = IF post THEN "none" ELSE "get"])
  /\ again' = IF post THEN [again EXCEPT ![run[h].job] = @ + 1] ELSE again
  /\ UNCHANGED <<stray, got, done>>

\* Fault: any answer will do.
AnsweredAnyhow(h, code) ==
  At(h, "waiting") /\ run[h].post \in {"in", "get"} /\ Goes(h, "ok")

\* Fault: redirects are followed without end, as a CheckRedirect that returns
\* nil would have it.
AnsweredWithoutEnd(h, code) ==
  /\ At(h, "waiting") /\ run[h].post \in {"in", "get"}
  /\ IF code = 200 THEN Finishes(h)
     ELSE IF code \in {303, 307} THEN Redirected(h, code)
     ELSE Fails(h)

\* The answer to the last request.  The client has no CheckRedirect, so net/http
\* follows redirects, and gives up instead of sending one request too many; any
\* other answer is the handler's.
Answered(h, code) ==
  /\ At(h, "waiting") /\ run[h].post \in {"in", "get"}
  /\ IF code = 200 THEN Finishes(h)
     ELSE IF code \in {303, 307} /\ run[h].sent < MaxRequests THEN Redirected(h, code)
     ELSE Fails(h)

\* Fault: the error is answered by another POST.
StopsWaitingAgain(h) ==
  /\ At(h, "waiting")
  /\ Becomes(h, Ended(h, "posting"))
  /\ Abandoned(h)
  /\ UNCHANGED <<got, again, done>>

\* The connection fails, the context is canceled, or the time is over.
StopsWaiting(h) ==
  /\ At(h, "waiting")
  /\ Becomes(h, Ended(h, "failed"))
  /\ Abandoned(h)
  /\ UNCHANGED <<got, again, done>>

\* Fault: the request is made without the context.
EndsInTime(h) == PayloadOf(h).n <= MaxSeconds

\* client.Timeout is positive unless the product overflows, and a Timeout that
\* is not positive is none.
EndsAnyway(h) == ~run[h].alive \/ PayloadOf(h).n <= MaxSeconds

\* GenerateReport's loop.
Row(h) ==
  /\ At(h, "rows")
  /\ IF run[h].left <= 0 THEN Finishes(h)
     ELSE IF ~run[h].alive THEN Goes(h, "failed")
     ELSE Becomes(h, [run[h] EXCEPT !.left = @ - 1]) /\ UNCHANGED <<stray, got, again, done>>

\* SendEmail's select, and its simulated failure.
Wakes(h) == At(h, "asleep") /\ (Goes(h, "failed") \/ Finishes(h))

\* handleResult; what it does not store was fenced off or lost.
Records(h) ==
  LET j == run[h].job IN
  /\ run[h].pc \in {"ok", "failed"}
  /\ run' = [run EXCEPT ![h] = Idle]
  /\ \/ holder[j] = h /\ At(h, "ok") /\ Jobs!Complete(j)
     \/ holder[j] = h /\ ~At(h, "ok") /\ (Jobs!Requeue(j) \/ Jobs!Bury(j))
     \/ UNCHANGED queue
  /\ UNCHANGED <<task, stray, got, again, done, grants>>

\* The process ends.
Crash(h) ==
  /\ ~At(h, "idle")
  /\ run' = [run EXCEPT ![h] = Idle]
  /\ Abandoned(h)
  /\ UNCHANGED <<queue, task, got, again, done, grants>>

-----------------------------------------------------------------------------
(* The network, and the rest of the queue.                                 *)

StrayEnds(j) ==
  /\ stray[j] > 0
  /\ stray' = [stray EXCEPT ![j] = @ - 1]
  /\ got' = [got EXCEPT ![j] = @ + 1] \/ UNCHANGED got
  /\ UNCHANGED <<queue, task, run, again, done, grants>>

QueueMoves(j) ==
  /\ \/ Jobs!Expire(j) \/ Jobs!Extend(j) \/ Jobs!Reclaim({j})
     \/ Jobs!Withdraw(j) \/ Jobs!Revive(j) \/ Jobs!Discard({j})
  /\ UNCHANGED <<task, run, stray, got, again, done, grants>>

Handler(h) ==
  \/ Called(h) \/ Posts(h) \/ Row(h) \/ Wakes(h) \/ Records(h)
  \/ At(h, "waiting") /\ EndsAnyway(h) /\ StopsWaiting(h)

Next ==
  \/ \E j \in Job :
       \/ \E t \in Type, p \in Payload, max \in 1..MaxBudget : Enqueue(j, t, p, max)
       \/ \E h \in Holder : Claim(j, h)
       \/ StrayEnds(j) \/ QueueMoves(j)
  \/ \E h \in Holder :
       \/ Handler(h) \/ ContextCanceled(h) \/ Arrives(h)
       \/ \E code \in {200, 303, 307, 500} : Answered(h, code)
       \/ StopsWaiting(h) \/ Crash(h)

Spec == Init /\ [][Next]_vars

\* A goroutine that can go on goes on; the receiver owes nobody anything.
FairSpec == Spec /\ \A h \in Holder : WF_vars(Handler(h))

-----------------------------------------------------------------------------

\* Every variable has its type.
TypeOK ==
  /\ state \in [Job -> Jobs!States]
  /\ holder \in [Job -> Holder \cup {NoHolder}]
  /\ tries \in [Job -> 0..GrantLimit]
  /\ budget \in [Job -> 0..MaxBudget]
  /\ lapsed \in SUBSET Job
  /\ task \in [Job -> [type : Type, payload : Payload]]
  /\ run \in [Holder -> Run]
  /\ stray \in [Job -> Nat] /\ got \in [Job -> Nat] /\ again \in [Job -> Nat]
  /\ grants \in [Job -> 0..GrantLimit]
  /\ done \in SUBSET Job

\* A job is recorded as a success only if one of its runs did all of its work,
\* whatever answers, timeouts, cancellations, crashes and evictions there were.
\* (A webhook's work is done when the last answer, after redirects, is a 2xx.)
SuccessMeansDone == \A j \in Job : state[j] = "success" => j \in done

\* A webhook is posted once per claim, and once more for each time a receiver
\* sends the client on with a 307 or 308, which it can do MaxRequests - 1 times
\* per claim.  Those POSTs are counted that come after their handler has given
\* them up; what makes the handler give up never makes it post again.
PostsPerClaim ==
  \A j \in Job :
    /\ got[j] + stray[j] <= grants[j] + again[j]
    /\ got[j] + stray[j] <= MaxRequests * grants[j]

\* A handler whose context is canceled ends, which QueueLiveness takes for
\* granted.  With a timeout that a Duration holds it ends anyway, however long
\* the receiver is silent.
HandlersEnd ==
  \A h \in Holder :
    (~At(h, "idle") /\ (~run[h].alive \/ PayloadOf(h).n <= MaxSeconds)) ~> At(h, "idle")
===============================================================================
