----------------------------- MODULE ServerStart -----------------------------
(***************************************************************************)
(* Instances of the server that start, migrate the schema side by side,    *)
(* fail, are killed and started again, and one job whose handler always    *)
(* fails: what reaches "serving", and what a bad job or a bad              *)
(* configuration can take down.                                            *)
(*                                                                         *)
(* A lease lasts as long as its owner renews it (LeaseTiming), unless it   *)
(* is not positive to begin with.  What is not about starting and dying is *)
(* left to LeaseQueue.                                                     *)
(***************************************************************************)
EXTENDS Configuration

CONSTANTS Instance, NoOne,
          Orphan,      \* the session of a process that died while it migrated
          Env,         \* the environments considered
          FaultLimit,  \* bound: kills, failed and unanswered statements
          MoreClaims   \* bound: claims of the job beyond its budget

ASSUME StartConstantsOK ==
  /\ NoOne # Orphan /\ {NoOne, Orphan} \cap Instance = {}
  /\ Env \subseteq [Key -> Int \cup {Unset, Garbage}]
  /\ Unset \notin Int /\ Garbage \notin Int
  /\ FaultLimit \in Nat /\ MoreClaims \in Nat

VARIABLES env,     \* the environment all instances share
          phase,   \* [Instance -> where main stands]
          up,      \* [Instance -> goroutines that are past their start]
          work,    \* [Instance -> "idle", "claimed", "beating"]
          cause,   \* [Instance -> why it last ended]
          table,   \* the table exists
          locker,  \* whose transaction holds advisory lock 717101
          job,     \* the row
          faults   \* history: faults so far

vars == <<env, phase, up, work, cause, table, locker, job, faults>>

Phase == {"down", "ping", "lock", "create", "insert", "made", "kept", "on"}

Job == [status   : {"none", "pending", "running", "dead"},
        attempts : Nat,
        budget   : Nat \ {0},
        owner    : Instance \cup {NoOne}]

cfg == Load(env)

Init ==
  /\ env \in Env
  /\ phase = [i \in Instance |-> "down"]
  /\ up = [i \in Instance |-> {}]
  /\ work = [i \in Instance |-> "idle"]
  /\ cause = [i \in Instance |-> "none"]
  /\ table = FALSE
  /\ locker = NoOne
  /\ job = [status |-> "none", attempts |-> 0, budget |-> 1, owner |-> NoOne]
  /\ faults = 0

\* The process ends.  The database may learn of it later; the owner token is
\* forgotten with the pool.
Dies(i, why) ==
  /\ phase' = [phase EXCEPT ![i] = "down"]
  /\ up' = [up EXCEPT ![i] = {}]
  /\ work' = [work EXCEPT ![i] = "idle"]
  /\ cause' = [cause EXCEPT ![i] = why]
  /\ locker' = IF locker = i THEN Orphan ELSE locker
  /\ job' = IF job.owner = i THEN [job EXCEPT !.owner = NoOne] ELSE job
  /\ UNCHANGED env

Goes(i, from, to) ==
  /\ phase[i] = from
  /\ phase' = [phase EXCEPT ![i] = to]
  /\ UNCHANGED <<env, up, work, cause, job, faults>>

-----------------------------------------------------------------------------
(* main up to the pool.                                                    *)

\* Restarted unless stopped.
Start(i) ==
  \/ ~LoadFails(env) /\ Goes(i, "down", "ping") /\ UNCHANGED <<table, locker>>
  \/ phase[i] = "down" /\ LoadFails(env) /\ Dies(i, "fatal") /\ UNCHANGED <<table, faults>>

\* OpenDB, and RunMigrations' BEGIN.
OpenDB(i) == Goes(i, "ping", "lock") /\ UNCHANGED <<table, locker>>

\* Fault: no advisory lock.
TakesNoLock(i) == Goes(i, "lock", "create") /\ UNCHANGED <<table, locker>>

TakesLock(i) ==
  /\ locker = NoOne
  /\ Goes(i, "lock", "create")
  /\ locker' = i
  /\ UNCHANGED table

\* CREATE TABLE IF NOT EXISTS looks for a committed table ...
LooksForTable(i) ==
  /\ Goes(i, "create", IF table THEN "kept" ELSE "insert")
  /\ UNCHANGED <<table, locker>>

\* ... and enters its own, after any other transaction that is about to.
EntersTable(i) ==
  /\ phase[i] = "insert"
  /\ \A j \in Instance : phase[j] # "made"
  /\ IF table THEN Dies(i, "duplicate") /\ UNCHANGED <<table, faults>>
              ELSE Goes(i, "insert", "made") /\ UNCHANGED <<table, locker>>

Released(i) == IF locker = i THEN NoOne ELSE locker

\* Fault: the lock is the session's, which goes back to the connection pool.
CommitsKeepingLock(i) ==
  /\ \E p \in {"made", "kept"} : Goes(i, p, "on")
  /\ table' = (table \/ phase[i] = "made")
  /\ UNCHANGED locker

\* Fault: only the deferred Rollback.
RollsBack(i) ==
  /\ \E p \in {"made", "kept"} : Goes(i, p, "on")
  /\ locker' = Released(i)
  /\ UNCHANGED table

\* COMMIT ends the transaction and its lock; NewPool starts the workers.
Commits(i) ==
  /\ \E p \in {"made", "kept"} : Goes(i, p, "on")
  /\ table' = (table \/ phase[i] = "made")
  /\ locker' = Released(i)

\* The database notices that the client is gone, and rolls back.
OrphanEnds ==
  /\ locker = Orphan
  /\ locker' = NoOne
  /\ UNCHANGED <<env, phase, up, work, cause, table, job, faults>>

-----------------------------------------------------------------------------
(* The goroutines.  A panic in any of them ends the process.               *)

ReaperStarts(i) ==
  /\ phase[i] = "on" /\ "reaper" \notin up[i]
  /\ IF ReaperPanics(cfg)
     THEN Dies(i, "panic")
     ELSE /\ up' = [up EXCEPT ![i] = @ \cup {"reaper"}]
          /\ UNCHANGED <<env, phase, work, cause, locker, job>>
  /\ UNCHANGED <<table, faults>>

Listens(i) ==
  /\ phase[i] = "on" /\ "http" \notin up[i]
  /\ IF env["LISTEN_ADDR"] = Garbage
     THEN Dies(i, "fatal")
     ELSE /\ up' = [up EXCEPT ![i] = @ \cup {"http"}]
          /\ UNCHANGED <<env, phase, work, cause, locker, job>>
  /\ UNCHANGED <<table, faults>>

RowBecomes(j) == job' = j /\ UNCHANGED <<env, phase, up, cause, table, locker, faults>>

\* The budget a request gets that asks for some (0: that asks for none).
Budget(asked) == IF asked = 0 THEN MaxBudget(cfg) ELSE asked

Stored(asked) ==
  RowBecomes([job EXCEPT !.status = "pending", !.budget = Budget(asked)]) /\ UNCHANGED work

\* Fault: the budget's lower bound is not checked.
EnqueueUnchecked(i, asked) ==
  /\ "http" \in up[i] /\ job.status = "none"
  /\ Budget(asked) <= MaxBudget(cfg)
  /\ Stored(asked)

Enqueue(i, asked) ==
  /\ "http" \in up[i] /\ job.status = "none"
  /\ 1 <= Budget(asked) /\ Budget(asked) <= MaxBudget(cfg)
  /\ Stored(asked)

\* (A claim error is logged, and the claim tried again.)
Claim(i) ==
  /\ phase[i] = "on" /\ work[i] = "idle" /\ CanClaim(cfg)
  /\ job.status = "pending" /\ job.attempts < job.budget + MoreClaims
  /\ RowBecomes([job EXCEPT !.status = "running", !.attempts = @ + 1, !.owner = i])
  /\ work' = [work EXCEPT ![i] = "claimed"]

HeartbeatStarts(i) ==
  /\ work[i] = "claimed"
  /\ IF HeartbeatPanics(cfg)
     THEN Dies(i, "panic") /\ UNCHANGED <<table, faults>>
     ELSE work' = [work EXCEPT ![i] = "beating"] /\ RowBecomes(job)

\* Fault: a job that was reaped after its last attempt is past its budget.
DiesAtBudget(attempts, budget) == attempts = budget

BudgetSpent(attempts, budget) == attempts >= budget

Failed(i) ==
  IF job.owner = i
  THEN [job EXCEPT !.status = IF BudgetSpent(job.attempts, job.budget) THEN "dead" ELSE "pending",
                   !.owner = NoOne]
  ELSE job

\* The handler panics or returns an error; safeExecute makes both an error.
\* handleResult draws the backoff outside of safeExecute.
HandlerFails(i) ==
  /\ work[i] = "beating"
  /\ IF BackoffPanics(cfg, job.attempts)
     THEN Dies(i, "panic") /\ UNCHANGED <<table, faults>>
     ELSE work' = [work EXCEPT ![i] = "idle"] /\ RowBecomes(Failed(i))

\* The lease has run out: nobody renews it, or it was over from the start.
Reap(i) ==
  /\ "reaper" \in up[i]
  /\ job.status = "running" /\ (job.owner = NoOne \/ cfg.LeaseDuration <= 0)
  /\ RowBecomes([job EXCEPT !.status = "pending", !.owner = NoOne])
  /\ UNCHANGED work

-----------------------------------------------------------------------------
(* Faults.                                                                 *)

Fault == faults < FaultLimit /\ faults' = faults + 1

Killed(i) == Fault /\ phase[i] # "down" /\ Dies(i, "kill") /\ UNCHANGED table

\* A statement of OpenDB or RunMigrations fails, COMMIT perhaps after it took
\* effect: log.Fatalf.
StatementFails(i) ==
  /\ Fault /\ phase[i] \notin {"down", "on"}
  /\ Dies(i, "fatal")
  /\ UNCHANGED table \/ (phase[i] = "made" /\ table' = TRUE)

\* MarkFailed fails: handleResult logs it, and nobody renews the lease.
ResultLost(i) ==
  /\ Fault /\ work[i] = "beating" /\ ~BackoffPanics(cfg, job.attempts)
  /\ work' = [work EXCEPT ![i] = "idle"]
  /\ job' = [job EXCEPT !.owner = NoOne]
  /\ UNCHANGED <<env, phase, up, cause, table, locker>>

-----------------------------------------------------------------------------

Main(i) ==
  \/ Start(i) \/ OpenDB(i) \/ TakesLock(i) \/ LooksForTable(i)
  \/ EntersTable(i) \/ Commits(i)

Worker(i) == HeartbeatStarts(i) \/ HandlerFails(i)

Next ==
  \/ OrphanEnds
  \/ \E i \in Instance :
       \/ Main(i) \/ ReaperStarts(i) \/ Listens(i)
       \/ \E asked \in {-1, 0} : Enqueue(i, asked)
       \/ Claim(i) \/ Worker(i) \/ Reap(i)
       \/ Killed(i) \/ StatementFails(i) \/ ResultLost(i)

Spec == Init /\ [][Next]_vars

\* Statements end, sessions of the dead end, goroutines run, some worker claims
\* what is there, some reaper sweeps.
Fairness ==
  /\ WF_vars(OrphanEnds)
  /\ \A i \in Instance :
       WF_vars(Main(i)) /\ WF_vars(ReaperStarts(i)) /\ WF_vars(Listens(i)) /\ WF_vars(Worker(i))
  /\ WF_vars(\E i \in Instance : Claim(i))
  /\ WF_vars(\E i \in Instance : Reap(i))

FairSpec == Spec /\ Fairness

-----------------------------------------------------------------------------

\* Every variable has its type.
TypeOK ==
  /\ env \in Env
  /\ phase \in [Instance -> Phase]
  /\ up \in [Instance -> SUBSET {"reaper", "http"}]
  /\ work \in [Instance -> {"idle", "claimed", "beating"}]
  /\ cause \in [Instance -> {"none", "kill", "fatal", "panic", "duplicate"}]
  /\ table \in BOOLEAN
  /\ locker \in Instance \cup {NoOne, Orphan}
  /\ job \in Job
  /\ faults \in 0..FaultLimit

\* However many instances migrate at once, and whichever die over it, none fails
\* because another one creates the same table.
MigrationsDontCollide == \A i \in Instance : cause[i] # "duplicate"

\* Workers only ever claim from a table that is there.
ServesOnTable == \A i \in Instance : phase[i] = "on" => table

\* With a sound configuration no job, however often it fails, ends a process
\* (the comment on Pool): neither its backoff nor its heartbeat panics.
BadJobIsContained ==
  ~LoadFails(env) /\ Sound(cfg) => \A i \in Instance : cause[i] # "panic"

SoundEnv ==
  ~LoadFails(env) /\ Sound(cfg) /\ env["LISTEN_ADDR"] # Garbage

\* With a sound configuration every instance gets through its start, however the
\* starts interleave and whoever died holding the lock, and stays up.
GetsServing ==
  SoundEnv => <>[](\A i \in Instance : up[i] = {"reaper", "http"})

\* A job that always fails is dead at last, whatever dies on the way.
BadJobIsBuried ==
  SoundEnv /\ job.status = "pending" ~> job.status = "dead"
===============================================================================
