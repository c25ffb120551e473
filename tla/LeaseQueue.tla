------------------------------ MODULE LeaseQueue ------------------------------
(***************************************************************************)
(* The server process at work on the jobs table: the worker pool           *)
(* (internal/worker/pool.go), the reaper and the shutdown sequence of      *)
(* cmd/server/main.go, and the operator's statements issued by the API.    *)
(*                                                                         *)
(* Every SQL statement is one step; the claim transaction is two, because  *)
(* its row lock is visible to the others between them.  A statement may    *)
(* fail, and it may take effect although its caller is told it failed.     *)
(* The process may die between any two steps and be started again; a new   *)
(* pool gets new lease-owner tokens.                                       *)
(*                                                                         *)
(* A worker's goroutine, its heartbeat goroutine and the handler it runs   *)
(* are one record: pc is where the goroutine stands,                       *)
(*   "idle"    at the top of its loop (or asleep before it),               *)
(*   "tx"      inside Claim, the SELECT done and its row locked,           *)
(*   "run"     inside the handler,                                         *)
(*   "result"  the handler returned, waiting for heartbeatDone and then    *)
(*             in handleResult,                                            *)
(*   "stopped" returned; wg.Done() called (or not yet created);            *)
(* beat is the heartbeat goroutine: "wait" in its select, "renew" inside   *)
(* Renew, "off" when there is none.                                        *)
(***************************************************************************)
EXTENDS JobTable

CONSTANTS Server,       \* the server processes that may run on one database
          Slot,         \* the pool's goroutines in each, 0..WorkerCount-1
          MaxAttempts,  \* cfg.MaxAttempts: the largest budget the API accepts
          ClaimLimit,   \* bound: a row with this many attempts is not claimed
          MaxPool       \* bound: how many pools are created, in all processes

ASSUME ConstantsOK ==
  /\ MaxAttempts \in Nat \ {0}
  /\ ClaimLimit \in Nat
  /\ MaxPool \in Nat
  /\ NULL \notin Job
  /\ NULL \notin Slot \X (0..MaxPool)

VARIABLES phase,    \* [Server -> state of the process], see Phase
          pool,     \* [Server -> number of its last pool]
          pools,    \* how many pools have been created
          worker,   \* [Worker -> the goroutine's state]
          evicted   \* history: workers whose lease was reaped while they ran

vars == <<jobs, phase, pool, pools, worker, evicted>>

\* "draining": Stop was called, claimCtx is canceled; "aborting": Abort was
\* called too, jobCtx is canceled; "down": there is no process.
Phase == {"down", "serving", "draining", "aborting"}

Worker == Server \X Slot

ServerOf(w) == w[1]

WorkersOf(s) == {s} \X Slot

Owners == Slot \X (0..MaxPool)

\* Fault: the token is the goroutine's index.
OwnerIsIndex(w) == <<w[2], 0>>

\* The token newLeaseOwner gave this goroutine: fresh with every pool.
Owner(w) == <<w[2], pool[ServerOf(w)]>>

Goroutine ==
  [pc           : {"stopped", "idle", "tx", "run", "result"},
   job          : Job \cup {NULL},
   attempts     : Nat,
   max_attempts : Nat,
   ctx          : BOOLEAN,
   beat         : {"off", "wait", "renew"},
   err          : BOOLEAN]

AtRest(pc) ==
  [pc |-> pc, job |-> NULL, attempts |-> 0, max_attempts |-> 0,
   ctx |-> FALSE, beat |-> "off", err |-> FALSE]

Up(s) == phase[s] # "down"

SomeUp == \E s \in Server : Up(s)

\* w's handler runs job j, or has just run it and the result is not stored.
Executing(w, j) ==
  /\ worker[w].pc \in {"run", "result"}
  /\ worker[w].job = j

Holds(w) ==
  /\ worker[w].job # NULL
  /\ Renewable(jobs[worker[w].job], Owner(w))

RowLocked(j) == \E w \in Worker : worker[w].pc = "tx" /\ worker[w].job = j

Init ==
  /\ jobs = [j \in Job |-> BlankRow("unused")]
  /\ phase = [s \in Server |-> "down"]
  /\ pool = [s \in Server |-> 0]
  /\ pools = 0
  /\ worker = [w \in Worker |-> AtRest("stopped")]
  /\ evicted = {}

-----------------------------------------------------------------------------
(* The claim loop.                                                         *)

\* Fault: SELECT ... LIMIT 1 without FOR UPDATE SKIP LOCKED.
ClaimSelectUnlocked(w, j) ==
  /\ phase[ServerOf(w)] = "serving"
  /\ worker[w].pc = "idle"
  /\ Claimable(jobs[j])
  /\ jobs[j].attempts < ClaimLimit
  /\ worker' = [worker EXCEPT ![w] =
       [@ EXCEPT !.pc = "tx", !.job = j, !.attempts = jobs[j].attempts,
                 !.max_attempts = jobs[j].max_attempts]]
  /\ UNCHANGED <<jobs, phase, pool, pools, evicted>>

\* The SELECT returns one claimable row no open claim has locked, locks it and
\* copies it into the worker's Job.  Once claimCtx is canceled Claim fails
\* before it. Which row is first is left open (priority and age decide).
ClaimSelect(w, j) ==
  /\ phase[ServerOf(w)] = "serving"
  /\ worker[w].pc = "idle"
  /\ Claimable(jobs[j])
  /\ ~RowLocked(j)
  /\ jobs[j].attempts < ClaimLimit
  /\ worker' = [worker EXCEPT ![w] =
       [@ EXCEPT !.pc = "tx", !.job = j, !.attempts = jobs[j].attempts,
                 !.max_attempts = jobs[j].max_attempts]]
  /\ UNCHANGED <<jobs, phase, pool, pools, evicted>>

\* Fault: the copy keeps the attempts the SELECT read.
StartedStale(g, ctx) ==
  [g EXCEPT !.pc = "run", !.ctx = ctx, !.beat = "wait"]

\* Claim brings its copy of the row up to date by hand and returns it.
Started(g, ctx) ==
  [g EXCEPT !.pc = "run", !.attempts = @ + 1, !.ctx = ctx, !.beat = "wait"]

\* UPDATE and COMMIT; the worker starts the heartbeat and the handler under a
\* child of jobCtx, which is born canceled when the pool was aborted meanwhile.
ClaimCommit(w) ==
  /\ worker[w].pc = "tx"
  /\ jobs' = [jobs EXCEPT ![worker[w].job] = Claimed(@, Owner(w))]
  /\ worker' = [worker EXCEPT ![w] =
       Started(@, phase[ServerOf(w)] # "aborting")]
  /\ UNCHANGED <<phase, pool, pools, evicted>>

\* The COMMIT took effect and its answer was lost: Claim returns an error and
\* the worker goes on without the job it now owns.
ClaimCommitLost(w) ==
  /\ worker[w].pc = "tx"
  /\ jobs' = [jobs EXCEPT ![worker[w].job] = Claimed(@, Owner(w))]
  /\ worker' = [worker EXCEPT ![w] = AtRest("idle")]
  /\ UNCHANGED <<phase, pool, pools, evicted>>

\* UPDATE or COMMIT failed, or Stop canceled claimCtx: the transaction is
\* rolled back.
ClaimRollback(w) ==
  /\ worker[w].pc = "tx"
  /\ worker' = [worker EXCEPT ![w] = AtRest("idle")]
  /\ UNCHANGED <<jobs, phase, pool, pools, evicted>>

\* The worker sees claimCtx canceled at the top of its loop.
WorkerExit(w) ==
  /\ phase[ServerOf(w)] \in {"draining", "aborting"}
  /\ worker[w].pc = "idle"
  /\ worker' = [worker EXCEPT ![w] = AtRest("stopped")]
  /\ UNCHANGED <<jobs, phase, pool, pools, evicted>>

-----------------------------------------------------------------------------
(* The handler and the result.                                             *)

\* safeExecute returns, with an error when the handler failed, panicked or
\* gave up on its context (a handler need not notice it); then jobCancel().
HandlerReturns(w, failed) ==
  /\ worker[w].pc = "run"
  /\ worker' = [worker EXCEPT ![w] =
       [@ EXCEPT !.pc = "result", !.err = failed, !.ctx = FALSE]]
  /\ UNCHANGED <<jobs, phase, pool, pools, evicted>>

\* Fault: the result is handled without <-heartbeatDone.
LoopUnawaited(w) ==
  /\ worker[w].pc = "result"
  /\ worker' = [worker EXCEPT ![w] = [AtRest("idle") EXCEPT !.beat = worker[w].beat]]
  /\ evicted' = evicted \ {w}
  /\ UNCHANGED <<phase, pool, pools>>

\* handleResult is over, whatever became of its statement: the worker loops.
\* It starts only when the heartbeat goroutine has exited, which nothing here
\* would end.
Loop(w) ==
  /\ worker[w].pc = "result"
  /\ worker[w].beat = "off"
  /\ worker' = [worker EXCEPT ![w] = [AtRest("idle") EXCEPT !.beat = worker[w].beat]]
  /\ evicted' = evicted \ {w}
  /\ UNCHANGED <<phase, pool, pools>>

RecordSuccess(w) ==
  LET j == worker[w].job
  IN  /\ Loop(w)
      /\ ~worker[w].err
      /\ Succeedable(jobs[j], Owner(w))
      /\ jobs' = [jobs EXCEPT ![j] = Succeeded(@)]

\* The status is decided by the attempts and the budget of the worker's copy.
RecordFailure(w, delay) ==
  LET j == worker[w].job
  IN  /\ Loop(w)
      /\ worker[w].err
      /\ Failable(jobs[j], Owner(w))
      /\ jobs' = [jobs EXCEPT ![j] =
           Failed(@, worker[w].attempts, worker[w].max_attempts, delay)]

\* The statement failed, or matched no row because the lease is gone: logged,
\* never retried.
RecordNothing(w) ==
  /\ Loop(w)
  /\ UNCHANGED jobs

HandleResult(w) ==
  \/ RecordSuccess(w)
  \/ \E delay \in {"past", "future"} : RecordFailure(w, delay)
  \/ RecordNothing(w)

-----------------------------------------------------------------------------
(* The heartbeat.                                                          *)

HeartbeatTick(w) ==
  /\ worker[w].beat = "wait"
  /\ worker[w].ctx
  /\ worker' = [worker EXCEPT ![w] = [@ EXCEPT !.beat = "renew"]]
  /\ UNCHANGED <<jobs, phase, pool, pools, evicted>>

HeartbeatRenewed(w) ==
  /\ worker[w].beat = "renew"
  /\ Renewable(jobs[worker[w].job], Owner(w))
  /\ jobs' = [jobs EXCEPT ![worker[w].job] = Renewed(@)]
  /\ worker' = [worker EXCEPT ![w] = [@ EXCEPT !.beat = "wait"]]
  /\ UNCHANGED <<phase, pool, pools, evicted>>

\* Fault: a refused renewal is logged and the loop goes on.
HeartbeatRefusedIgnored(w) ==
  /\ worker[w].beat = "renew"
  /\ worker' = [worker EXCEPT ![w] = [@ EXCEPT !.beat = "wait"]]
  /\ UNCHANGED <<jobs, phase, pool, pools, evicted>>

\* No row matched, or the statement failed: the heartbeat cancels the job's
\* context and exits.
HeartbeatRefused(w) ==
  /\ worker[w].beat = "renew"
  /\ worker' = [worker EXCEPT ![w] = [@ EXCEPT !.beat = "off", !.ctx = FALSE]]
  /\ UNCHANGED <<jobs, phase, pool, pools, evicted>>

\* The lease was extended and the answer lost.
HeartbeatRenewLost(w) ==
  /\ worker[w].beat = "renew"
  /\ Renewable(jobs[worker[w].job], Owner(w))
  /\ jobs' = [jobs EXCEPT ![worker[w].job] = Renewed(@)]
  /\ worker' = [worker EXCEPT ![w] = [@ EXCEPT !.beat = "off", !.ctx = FALSE]]
  /\ UNCHANGED <<phase, pool, pools, evicted>>

\* ctx.Done() ends the loop (a tick that wins the select makes Renew fail at
\* once on the canceled context: the same step).
HeartbeatExit(w) ==
  /\ worker[w].beat = "wait"
  /\ ~worker[w].ctx
  /\ worker' = [worker EXCEPT ![w] = [@ EXCEPT !.beat = "off"]]
  /\ UNCHANGED <<jobs, phase, pool, pools, evicted>>

-----------------------------------------------------------------------------
(* Time, and the reaper goroutine.                                         *)

LeaseExpires(j) ==
  /\ jobs[j].status = "running"
  /\ jobs[j].locked_until = "future"
  /\ jobs' = [jobs EXCEPT ![j] = [@ EXCEPT !.locked_until = "past"]]
  /\ UNCHANGED <<phase, pool, pools, worker, evicted>>

BackoffElapses(j) ==
  /\ jobs[j].run_after = "future"
  /\ jobs' = [jobs EXCEPT ![j] = [@ EXCEPT !.run_after = "past"]]
  /\ UNCHANGED <<phase, pool, pools, worker, evicted>>

Reap ==
  /\ SomeUp
  /\ jobs' = [j \in Job |-> IF Reapable(jobs[j]) THEN Reaped(jobs[j]) ELSE jobs[j]]
  /\ evicted' = evicted \cup
       {w \in Worker : \E j \in Job : Executing(w, j) /\ Reapable(jobs[j])}
  /\ UNCHANGED <<phase, pool, pools, worker>>

-----------------------------------------------------------------------------
(* The operator's statements, through the API of the same process.  An     *)
(* UPDATE of a row an open claim has locked waits for the claim to end.    *)

Enqueue(j, max) ==
  /\ SomeUp
  /\ jobs[j].status = "unused"
  /\ jobs' = [jobs EXCEPT ![j] = Inserted(max)]
  /\ UNCHANGED <<phase, pool, pools, worker, evicted>>

Cancel(j) ==
  /\ SomeUp
  /\ ~RowLocked(j)
  /\ Cancelable(jobs[j])
  /\ jobs' = [jobs EXCEPT ![j] = Canceled(@)]
  /\ UNCHANGED <<phase, pool, pools, worker, evicted>>

RetryDead(j) ==
  /\ SomeUp
  /\ Retryable(jobs[j])
  /\ jobs' = [jobs EXCEPT ![j] = Retried(@)]
  /\ UNCHANGED <<phase, pool, pools, worker, evicted>>

DeleteDead(j) ==
  /\ SomeUp
  /\ Deletable(jobs[j])
  /\ jobs' = [jobs EXCEPT ![j] = Deleted]
  /\ UNCHANGED <<phase, pool, pools, worker, evicted>>

DeleteAllDead ==
  /\ SomeUp
  /\ jobs' = [j \in Job |-> IF Deletable(jobs[j]) THEN Deleted ELSE jobs[j]]
  /\ UNCHANGED <<phase, pool, pools, worker, evicted>>

-----------------------------------------------------------------------------
(* A process.                                                              *)

\* main: the table exists after the migration and keeps its rows; NewPool.
Start(s) ==
  /\ ~Up(s)
  /\ pools < MaxPool
  /\ phase' = [phase EXCEPT ![s] = "serving"]
  /\ pools' = pools + 1
  /\ pool' = [pool EXCEPT ![s] = pools + 1]
  /\ worker' = [w \in Worker |-> IF w \in WorkersOf(s) THEN AtRest("idle")
                                                       ELSE worker[w]]
  /\ UNCHANGED <<jobs, evicted>>

\* SIGINT or SIGTERM: pool.Stop().  (A process is not signalled or killed once
\* the last pool is created: the bound leaves a process running.)
Signal(s) ==
  /\ phase[s] = "serving"
  /\ pools < MaxPool
  /\ phase' = [phase EXCEPT ![s] = "draining"]
  /\ UNCHANGED <<jobs, pool, pools, worker, evicted>>

\* Fault: the deadline passes and no context is canceled.
DrainDeadlineNoAbort(s) ==
  /\ phase[s] = "draining"
  /\ phase' = [phase EXCEPT ![s] = "aborting"]
  /\ UNCHANGED <<jobs, pool, pools, worker, evicted>>

\* The drain deadline: pool.Abort() cancels the contexts of all jobs.
DrainDeadline(s) ==
  /\ phase[s] = "draining"
  /\ phase' = [phase EXCEPT ![s] = "aborting"]
  /\ worker' = [w \in Worker |-> IF w \in WorkersOf(s)
                                 THEN [worker[w] EXCEPT !.ctx = FALSE]
                                 ELSE worker[w]]
  /\ UNCHANGED <<jobs, pool, pools, evicted>>

\* pool.Done() is closed: the server shuts down and main returns.
Exit(s) ==
  /\ phase[s] \in {"draining", "aborting"}
  /\ \A w \in WorkersOf(s) : worker[w].pc = "stopped"
  /\ phase' = [phase EXCEPT ![s] = "down"]
  /\ UNCHANGED <<jobs, pool, pools, worker, evicted>>

\* The process is killed: open transactions are rolled back, the table stays.
Crash(s) ==
  /\ Up(s)
  /\ pools < MaxPool
  /\ phase' = [phase EXCEPT ![s] = "down"]
  /\ worker' = [w \in Worker |-> IF w \in WorkersOf(s) THEN AtRest("stopped")
                                                       ELSE worker[w]]
  /\ evicted' = evicted \ WorkersOf(s)
  /\ UNCHANGED <<jobs, pool, pools>>

-----------------------------------------------------------------------------

Goroutines(w) ==
  \/ \E j \in Job : ClaimSelect(w, j)
  \/ ClaimCommit(w) \/ ClaimCommitLost(w) \/ ClaimRollback(w)
  \/ WorkerExit(w)
  \/ \E failed \in BOOLEAN : HandlerReturns(w, failed)
  \/ HandleResult(w)
  \/ HeartbeatTick(w) \/ HeartbeatRenewed(w) \/ HeartbeatRefused(w)
  \/ HeartbeatRenewLost(w) \/ HeartbeatExit(w)

Operator(j) ==
  \/ \E max \in 1..MaxAttempts : Enqueue(j, max)
  \/ Cancel(j) \/ RetryDead(j) \/ DeleteDead(j)

Process(s) ==
  Start(s) \/ Signal(s) \/ DrainDeadline(s) \/ Exit(s) \/ Crash(s)

Next ==
  \/ \E w \in Worker : Goroutines(w)
  \/ \E j \in Job : Operator(j) \/ LeaseExpires(j) \/ BackoffElapses(j)
  \/ Reap \/ DeleteAllDead
  \/ \E s \in Server : Process(s)

Spec == Init /\ [][Next]_vars

-----------------------------------------------------------------------------
(* Safety.                                                                 *)

\* Every variable has its type.
TypeOK ==
  /\ jobs \in [Job -> Row(Owners)]
  /\ phase \in [Server -> Phase]
  /\ pool \in [Server -> 0..MaxPool]
  /\ pools \in 0..MaxPool
  /\ worker \in [Worker -> Goroutine]
  /\ evicted \in SUBSET Worker

\* Two workers run the same job at once only if the lease of one of them ran
\* out and was reaped under it: neither concurrent claims, nor operators, nor
\* lost answers, nor restarts make a job run twice at a time.
AtMostOneExecutor ==
  \A v, w \in Worker : \A j \in Job :
    (v # w /\ Executing(v, j) /\ Executing(w, j)) => (v \in evicted \/ w \in evicted)

\* A worker whose lease was reaped has no authority over the row any more,
\* whoever claims the job next and wherever (CONTEXT.md, "Lease owner").
EvictedHasNoAuthority ==
  \A w \in evicted : ~Holds(w)

\* As long as a worker holds the lease, the attempts and the budget it copied
\* when it claimed the job are those of the row: MarkFailed, which decides from
\* the copy, decides as the row would.
SnapshotFresh ==
  \A w \in Worker :
    (worker[w].pc \in {"run", "result"} /\ Holds(w)) =>
      /\ worker[w].attempts = jobs[worker[w].job].attempts
      /\ worker[w].max_attempts = jobs[worker[w].job].max_attempts

\* A worker that runs a job under an unexpired lease loses the lease in two
\* ways: it records the job's result itself, or an operator cancels the job.
\* (After a crash of its process there is no such worker any more.)
LeaseNotStolen ==
  [][\A w \in Worker :
       (/\ worker[w].pc \in {"run", "result"}
        /\ Holds(w)
        /\ jobs[worker[w].job].locked_until = "future"
        /\ worker'[w].pc \in {"run", "result"})
       => \/ Holds(w)'
          \/ jobs'[worker[w].job].status = "canceled"]_vars

\* A job becomes dead only when its budget is spent, and a job whose budget is
\* spent returns to the queue only by the reaper or by an operator's retry.
BudgetDecidesDeath ==
  [][\A j \in Job :
       /\ (jobs[j].status = "running" /\ jobs'[j].status = "dead")
            => jobs[j].attempts >= jobs[j].max_attempts
       /\ (jobs[j].status = "running" /\ jobs'[j].status = "pending")
            => \/ jobs[j].attempts < jobs[j].max_attempts
               \/ jobs[j].locked_until = "past"]_vars

\* Nothing late changes a job that is finished, canceled or deleted: no stale
\* result, renewal, sweep, cancellation or retry.
TerminalIsFinal ==
  [][\A j \in Job : jobs[j].status \in {"success", "canceled", "deleted"}
                      => jobs'[j] = jobs[j]]_vars

-----------------------------------------------------------------------------
(* The inductive invariant.                                                *)

\* The lease columns of a row, its backoff and its attempts agree with its
\* status.
RowConsistent(row) ==
  /\ row.status = "running" => row.locked_by # NULL /\ row.locked_until # "null"
  /\ row.status \notin {"running", "success"} =>
       row.locked_by = NULL /\ row.locked_until = "null"
  /\ row.run_after = "future" => row.status = "pending"
  /\ row.status = "unused" => row.attempts = 0

\* No two live pools share a number, and no row names a pool yet to come.
TokensUnique ==
  /\ \A s \in Server : pool[s] <= pools
  /\ \A s, t \in Server : (s # t /\ Up(s) /\ Up(t)) => pool[s] # pool[t]
  /\ \A j \in Job, i \in Slot, n \in 0..MaxPool :
       jobs[j].locked_by = <<i, n>> => n <= pools

GoroutineConsistent(w) ==
  /\ ~Up(ServerOf(w)) => worker[w].pc = "stopped"
  /\ worker[w].pc \in {"stopped", "idle"} <=> worker[w].job = NULL
  /\ worker[w].beat # "off" => worker[w].pc \in {"run", "result"}
  /\ w \in evicted => worker[w].pc \in {"run", "result"}

\* The row of an open claim is locked: it stays as the SELECT read it.
ClaimIsolated ==
  \A w \in Worker : worker[w].pc = "tx" =>
    /\ Claimable(jobs[worker[w].job])
    /\ worker[w].attempts = jobs[worker[w].job].attempts
    /\ worker[w].max_attempts = jobs[worker[w].job].max_attempts
    /\ \A v \in Worker :
         (v # w /\ worker[v].pc = "tx") => worker[v].job # worker[w].job

\* An executor that was not evicted has the lease, or its job was canceled.
LeaseHeld ==
  \A w \in Worker, j \in Job :
    (Executing(w, j) /\ w \notin evicted) =>
      jobs[j].status = "canceled" \/ Renewable(jobs[j], Owner(w))

\* The invariant that implies the ones above; it holds in every state and
\* every step of every action preserves it.
IndInv ==
  /\ TypeOK
  /\ \A j \in Job : RowConsistent(jobs[j])
  /\ TokensUnique
  /\ \A w \in Worker : GoroutineConsistent(w)
  /\ ClaimIsolated
  /\ LeaseHeld
  /\ AtMostOneExecutor
  /\ EvictedHasNoAuthority
  /\ SnapshotFresh
=============================================================================
