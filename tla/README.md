# Kulee: specification and verification

Kulee is a job queue in Go: an HTTP API, a pool of workers and a reaper in one
server process, all on one Postgres table `jobs`.  Everything that has to be
right between concurrent parties goes through that table.  This directory holds
TLA+ modules of it, TLC configurations that check them on small instances, and
proofs, checked by TLAPS, for instances of any size.

## The system

| Part | State | Operations | Hard behaviour |
|------|-------|------------|----------------|
| Job store (`internal/store`) | table `jobs`: status, attempts, max_attempts, locked_by, locked_until, run_after | Enqueue, Claim (a transaction: SELECT .. FOR UPDATE SKIP LOCKED, UPDATE), Renew, MarkSuccess, MarkFailed, Reap, Cancel, RetryDead, DeleteDead, DeleteAllDead, GetJob, ListJobs, Stats | every statement races with every other; a statement may fail, or take effect and its answer be lost |
| Worker pool (`internal/worker/pool.go`) | per goroutine: claimed job, its copy of attempts and budget, the job's context, the heartbeat goroutine, a random owner token; per pool: claimCtx, jobCtx, done | claim loop, safeExecute, heartbeat, handleResult, Stop, Abort | heartbeat, handler and result race; the copy may be stale; a lease may be reaped under a running handler |
| Server process (`cmd/server/main.go`) | the pool, the reaper's ticker, the HTTP server | start, sweep, signal, drain, abort, exit | crash between any two steps, restart, several processes on one database, drain deadline |
| API (`internal/api/handlers.go`) | none of its own; each request issues one or two statements | enqueue, list, get, retry, cancel, delete, purge, stats | the second statement sees another state than the first; requests are cut at exit |
| Dashboard (`web/src`) | filter, cursor, history of cursors, cached pages | next, previous, filter, refresh, actions | the table changes between pages, pages on show are stale |
| Backoff (`internal/worker/retry.go`), configuration (`internal/config`) | the loaded values | Load, FullJitterDelay, the tickers | no value is checked for its sign or for overflow; what it does shows when the first goroutine uses it |
| Migration (`internal/store/postgres.go`) | the table, an advisory lock | BEGIN, lock, CREATE TABLE IF NOT EXISTS, COMMIT | several instances migrate at once, and die over it |
| Job types (`internal/jobtypes`) | the handler's own progress; what the receiver of a webhook got | Register, Lookup, Validate, SendEmail, WebhookDelivery, GenerateReport | context, timeout and answer race; a POST outlives its handler |

The worker pool and the operators never speak to each other: an operator's
cancel changes the row, the heartbeat's next Renew affects no row and cancels
the handler's context.  The reaper does not know whether a worker is alive: it
looks at `locked_until`.  The only thing that keeps a worker that was taken for
dead from harming the next one is the owner token in `locked_by`.

What makes each part correct: a job is run by one lease owner at a time; a stale
owner has no authority; a result is recorded from values that are those of the
row; the budget decides between retry and death; finished jobs stay finished;
orphans come back; a lost lease stops its handler; a shutdown ends; an HTTP
answer says what happened; paging neither skips nor repeats; the most urgent job
goes first and no job starves; a healthy worker keeps its lease; instances that
start together all get through; one bad job takes nothing down; a job is a
success only if its work was done.

## Modules

| Module | Models | Role |
|--------|--------|------|
| `JobTable` | the row and, for every statement of `internal/store`, its WHERE clause (a predicate) and its SET clause (a function of the row) | used by `LeaseQueue` |
| `LeaseQueue` | `pool.go`, the reaper and the shutdown of `main.go`, the operators' statements | the core; safety properties and the inductive invariant |
| `JobLifecycle` | the life of a job as the API shows it, without processes | abstract specification |
| `QueueLifecycle` | the mapping from `LeaseQueue` to `JobLifecycle` | refinement |
| `LeaseQueueMC` | symmetry sets | for TLC |
| `QueueLiveness` | fairness and what must eventually happen | |
| `QueueClaims` | two sentences of the documents that the code does not keep | |
| `OperatorApi` | the HTTP handlers, each in its one or two statements, over `JobLifecycle` | composes handlers with the abstract queue |
| `OperatorApiMC` | symmetry sets | for TLC |
| `JobLedger` | ListJobs, the listJobs handler and the dashboard's paging | |
| `ClaimOrder` (`ClaimOrderMC`) | the ORDER BY of Claim over time | which job goes first; `LeaseQueue` leaves that open |
| `LeaseTiming` | one claim with its heartbeat's ticker and the reaper, in numbers | when the leases, which `LeaseQueue` lets expire at any time, do last |
| `Configuration` | `config.Load`, the backoff's bound, what panics | operators used by `ServerStart` |
| `ServerStart` (`ServerStartMC`) | `main` up to the pool, RunMigrations, panics, kills and restarts, with a job that always fails | what reaches "serving", what a bad job or value takes down |
| `JobTypes` (`JobTypesMC`) | the registry and the three handlers, over `JobLifecycle` | composes handlers with the abstract queue |
| `QueueProofs` | safety of `LeaseQueue` | proofs |
| `RefinementProofs` | `LeaseQueue` implements `JobLifecycle` | proofs |
| `LedgerProofs` | safety of `JobLedger` | proofs |
| `OrderProofs` | safety of `ClaimOrder` | proofs |
| `TimingProofs` | safety of `LeaseTiming` | proofs |
| `StartProofs` | safety of `ServerStart`, the arithmetic of `Configuration` | proofs |
| `HandlerProofs` | safety of `JobTypes`; it implements `JobLifecycle` | proofs |
| `OperatorProofs` | safety of `OperatorApi`; it implements `JobLifecycle` | proofs |

Operators named "Fault: ..." in a comment are variants of the code's statements
with a plausible mistake; no specification uses them.  Substituted for the
operator that follows them they break the property they are meant for, which is
how it is known that the property says something about the code.

### LeaseQueue and the code

* A SQL statement is one step.  Claim is two, `ClaimSelect` and `ClaimCommit`,
  because the row lock it holds between them is seen by others: other claims
  skip the row, other UPDATEs of it wait.
* A goroutine of the pool, its heartbeat goroutine and its handler are one
  record of `worker`: `pc` (where the goroutine stands), `ctx` (whether the
  job's context is alive), `beat` (where the heartbeat stands), and the copy of
  attempts and budget that Claim returned.
* `HandleResult` is guarded by the heartbeat's end, as `<-heartbeatDone` is; it
  does not itself end the heartbeat, so that without the guard one would outlive
  its job (`GoroutineConsistent`).
* Failure of a statement and loss of its answer are steps of their own:
  `ClaimRollback`, `ClaimCommitLost`, `RecordNothing`, `HeartbeatRefused`,
  `HeartbeatRenewLost`.
* `phase` is the process: serving; draining after Stop; aborting after the drain
  deadline and Abort; down.  The API and the reaper go on until the process
  exits, as in main, where Shutdown is called after the pool is done.
* Time: an instant is null, past or future, and a future one becomes past at any
  moment.  Safety thus holds for every lease, backoff and clock skew.
* Tokens: `newLeaseOwner` draws 128 random bits; the model numbers the pools, so
  a token is `<<slot, pool number>>` and is never drawn twice.
* Which claimable row is first (priority and age) is left open.
* `evicted` is history: the workers whose lease was swept while they ran.

### OperatorApi and the code

A request is a record; its handler takes one step per statement, and between
them the workers, the reaper, time and the other requests take theirs.  These
are the actions of `JobLifecycle`, which is legitimate because `LeaseQueue`
implements it (`RefinementProofs!Refinement`) and the composition does no more
than it allows (`OperatorProofs!ImplementsLifecycle`).  Errors are kept as the handlers map them:
retry and delete answer 400 for every error, get answers 404 for every error.
JSON decoding, the type, the priority and the payload are one flag, `valid`;
the budget is kept because its default and its bounds decide what reaches the
table.

### JobLedger and the code

A row is what the filter makes of it: matching, not matching, not there yet,
deleted.  `Answer` is ListJobs and listJobs together: limit+1 rows below the
cursor, newest first, the extra one cut off.  `goNext`, `goPrev` and
`changeStatus` are those of `App.tsx`; the cache of react-query is modelled as
the dashboard uses it, and a page from the cache is shown at once.  `trail` and
`kept` are history.

### ClaimOrder and the code

`Score` is the ORDER BY times the divisor, so that it stays an integer.  A claim
computes it with its own NOW(), the time of its BEGIN, which may be any earlier
moment (`t` in `ClaimSelect`), and takes one of the best rows that are pending,
due, and not locked by another claim.  `created_at` is the time of the INSERT's
transaction, so a row may become visible later than it was created.  How a
running job comes back (MarkFailed, Reap, RetryDead) matters only in that it
keeps its priority and `created_at` and gets a new `run_after`.  The PRD's "after
~90 minutes of waiting" is `(MaxPriority - 1) * AgingDivisor` seconds: 9 * 600.

### LeaseTiming and the code

One worker, from Claim's BEGIN, where `NOW()` and so the lease are fixed, to its
result.  `tick` and `full` are the `time.Ticker` and its channel of one: a tick
that nobody takes in time is dropped.  A Renew takes effect at any moment
between its sending and its answer, also after the worker is gone.  `Pass`, the
clock, does not pass a deadline: that is where the latencies are assumed.  A
statement's `Latency` includes its wait for one of the 25 connections of
`OpenDB`.  `GivesUp` is every way in which a claim is left alone: a crash, a
COMMIT without an answer, a failed Renew, a result that is not stored.

### Configuration, ServerStart and the code

Every key is an integer, unset, or not a number.  Products of an int and a unit
wrap around as int64 does; nothing else is checked, as in `Load`.  Where a value
makes the code panic the model panics: `NewTicker` in the heartbeat and the
reaper, `rand.Int63n` in the backoff.  `FullJitterDelay` computes its bound in
floating point (`math.Pow`), hence without overflow, which `Upper` says; the way
back to an integer overflows for a cap so close to 2^63 that its float64 is 2^63
(`Edge`, `ToInt64`), to what depends on the processor (`Saturates`).

`phase` is where `main` stands: down, OpenDB's ping, waiting for the lock, CREATE
TABLE, its two halves (looking for a committed table, entering a new one), and
serving.  That CREATE TABLE IF NOT EXISTS of two transactions collides on a
unique index is what the comment at `postgres.go:54-56` says; the model has it
(`EntersTable`), and the lock prevents it.  A process ends by log.Fatalf, by a
panic in any goroutine, or by being killed; `cause` says which.  The session of
a process that died migrating keeps the lock until the database notices
(`Orphan`).  The rest of the queue is reduced to one job whose handler always
fails: claim, heartbeat, MarkFailed, sweep.

### JobTypes and the code

A holder is a worker with its handler's state.  WebhookDelivery is: a request to
be sent, waiting for its answer, and then an answer of any code, or an error of
`client.Do` at any moment (the connection, the timeout, the context).  The client
has no `CheckRedirect`, so net/http follows redirects, up to ten requests in all
(`MaxRequests`): a 307 or 308 makes it send the POST again, because the body is a
`bytes.Reader`, and a 301, 302 or 303 makes it send a GET, whose answer is then
the handler's (`Redirected`).  Where the redirect leads is not kept: `got` counts
the POSTs of a job whoever gets them, and a receiver may redirect to itself.
net/http does not repeat a POST that was written for any other reason.  A POST
that is out when its handler stops waiting is `stray`: it may still arrive.
GenerateReport takes a step per row and looks at its context before each;
SendEmail waits for its time or its context.  The table is that of
`JobLifecycle`: a holder may be evicted at any moment and go on.

## Runs

| Run | Instance | Question | Result |
|-----|----------|----------|--------|
| `queue_two_servers` | 1 job, 2 processes with 1 worker, budget up to 2, 3 claims, 3 pools | all safety properties, the inductive invariant, the refinement | holds, 220 thousand states up to symmetry |
| `queue_two_jobs` | 2 jobs, 1 process with 2 workers, budget 1, 2 claims, 2 pools | exclusion, leases and refinement when workers change jobs | holds, 198 thousand states up to symmetry |
| `queue_liveness` | 1 job, 2 processes with 1 worker, 2 pools | recovery of orphans, end of handlers, end of a shutdown | holds, 10 thousand states |
| `operator_api` | 2 jobs, 2 requests, budget up to 2, 1 grant | truth of answers | holds, 1.1 million states up to symmetry |
| `ledger_pages` | 4 ids, pages of 2 | paging | holds, 1 million states |
| `claim_order` | 2 jobs, 2 workers, priorities 1 to 3, divisor 2, 6 ticks | starvation and order | holds, 1.4 million states up to symmetry |
| `lease_timing` | lease 12, heartbeat 4, statements 3, sweeps every 3 | leases last, orphans return | holds, 22 thousand states |
| `server_start` | 2 instances, 18 environments, 2 faults, 2 claims beyond the budget | start, migration, bad job, bad values | holds, 345 thousand states |
| `job_types` | 1 job of any type, 2 holders, budget up to 2, 2 claims, 3 requests per claim | work done, POSTs, end of handlers | holds, 174 thousand states |
| `retry_budget` | 1 job, 1 process with 2 workers, budget 1 | `CONTEXT.md`: attempts stay within the budget | violated |
| `drain_deadline` | 1 job, 1 process with 1 worker | `PRD.md`: overdue jobs are left for the reaper | violated |
| `cancel_conflict` | 1 job, 2 requests | `postgres.go`: not cancelable means terminal | violated |

### Bounds

* `MaxPool`, pools created in all: three allow a crash and a restart beside
  another process, or two restarts of one.  Once the last is created no process
  is signalled or killed, so that the system does not stop for want of pools.
* `ClaimLimit`, claims of a row since its insertion or retry: one more than
  `MaxAttempts`, so that the last attempt fails or expires, and the sweep after
  it leads to one more claim.
* `MaxAttempts`: two, so that a failure may be within the budget or at its end.
  One is enough where two jobs make it up.
* `TryLimit` in `OperatorApi`, grants of a job: requests differ by the state a
  job is in, not by how often it ran.
* `MaxId` and `Limit` in `JobLedger`: full, partial and empty pages.  (Ways over
  more pages, and other page sizes, are covered by `LedgerProofs`.)
* `MaxTime` in `ClaimOrder`: more than the 4 ticks after which an aged job may
  not be passed any more, so that a job can be overtaken, age, and be safe.
* The numbers of `LeaseTiming` are tight: `ClaimTime + Period + 2 * Latency` is
  the lease, so each tick of slack that the code has is used up in some behaviour.
* `FaultLimit` in `ServerStart`: two, so that both instances may fail, or one
  twice, among others while the second waits for the lock.  `MoreClaims`: two
  sweeps after the last attempt of the budget.  Environments change one key at a
  time, except for one in which base and cap of the backoff reach the edge of an
  int64 (`Edge` is 8).  `Word` is 2^20 with a millisecond as the unit: small enough that 1000
  seconds overflow to a negative duration, as 10^10 seconds do in the code.
* `GrantLimit` in `JobTypes`: two claims, by two holders, so that an evicted
  handler runs beside its successor.  `MaxRequests`: three, so that a POST is
  sent again twice, or again and then as a GET, and a third redirect is refused.
  `MaxSeconds` and `Payload`: timeouts of none, one second, and more than a duration holds.
The properties that are proved do not rest on these bounds: the theorems are
about every value of the constants.

### Fairness

`QueueLiveness` assumes that a goroutine that can go on goes on and a statement
it waits for ends one way or another; that the reaper's ticker makes it sweep
successfully some time; that leases expire when nobody renews them; that the
drain deadline passes; that a process that has gone is started again
(`docker-compose.yaml` says `restart: unless-stopped`); and that a handler whose
context is canceled returns, as the three in `internal/jobtypes` do.  It does not
assume that any claim or result is stored, that any renewal succeeds, or that a
handler returns while its context is alive.  handleResult uses
`context.Background()`, so the assumption that its statement ends is one on the
database connection, not on the code.

`ServerStart` assumes that `main` goes on (restarts included), that statements end, that
the database ends the session of a client that is gone, that goroutines run, and that some
worker claims and some reaper sweeps when there is something to claim or to
sweep; faults are finitely many.  `JobTypes` assumes only that a handler and its
worker go on when they can: no answer of the receiver, no arrival of a POST.
That `HandlersEnd` holds there is what `QueueLiveness` assumes of handlers.

### Where code and documents differ

1. `CONTEXT.md:12` defines the retry budget as the maximum number of execution
   attempts.  The reaper requeues whatever the attempts are
   (`claim.go:206-216`), so each expired lease grants one more.
2. `PRD.md:300-301` leaves jobs that exceed the drain deadline for the reaper.
   `main.go:130` aborts them, and `pool.go:194-202` records the abort as a
   failed attempt: requeued with a backoff, or dead at the end of the budget.
3. `postgres.go:17` says a job that is not cancelable is in a terminal state.
   Cancel reads the status after its UPDATE, in another statement
   (`deadletter.go:51-72`): a dead job retried in between is answered 409 with
   "status pending".

What the model of the configuration shows beside that: the comment on `Pool`
(`pool.go:25-28`), that a single bad job never takes down the pool, holds for the
configurations `Sound` describes.  `RETRY_BASE_MS` or `RETRY_CAP_MS` of 0 makes
the first failing job end the process, again at each retry; a lease or a reaper
interval that is not positive, as one that overflows may be, ends it at the first claim, or at once;
an `AGING_DIVISOR_SECONDS` of 0 makes every claim that finds a job fail.  Load accepts all of
these.  A webhook's `timeout_seconds` large enough to overflow leaves it
without a timeout.

## Proofs

TLAPS proves, for any sets of jobs, servers and slots and any bounds that
satisfy `ConstantsOK`:

* `QueueProofs!Invariance`: `IndInv` is an invariant of `LeaseQueue`.  Its own
  parts beside the properties are: `RowConsistent` (the lease columns agree with
  the status), `TokensUnique` (no two live pools share a number, no row names a
  pool yet to come), `GoroutineConsistent`, `ClaimIsolated` (the row of an open
  claim stays as the SELECT read it) and `LeaseHeld` (who runs a job and was not
  evicted has its lease, or the job was canceled).  They are needed because
  exclusion alone is not inductive: that a second worker cannot claim follows
  from the first one's lease (`LeaseHeld`: the row is running, so not
  claimable) or from the row lock (`ClaimIsolated`), and that an evicted worker
  cannot get its authority back follows from the next owner's token being
  another (`TokensUnique`, and a worker that runs does not claim).
* The invariants `TypeOK`, `AtMostOneExecutor`, `EvictedHasNoAuthority` and
  `SnapshotFresh` follow (`TypeCorrect`, `MutualExclusion`,
  `FencingIsEffective`, `SnapshotsAreFresh`).
* `TableSteps` lists what a step may do to the table; `TerminalIsFinal`,
  `BudgetDecidesDeath` and `LeaseNotStolen` follow from it and the invariant
  (`FinalityOfTerminalJobs`, `DeathByBudget`, `LeasesAreSafe`).  `DeathByBudget`
  is where the fencing and the freshness of the copy meet: MarkFailed decides
  from the copy, and the copy is the row's.
* `RefinementProofs!Refinement`: `LeaseQueue` implements `JobLifecycle`.  One
  lemma per transition, and `TableSteps` again for the case distinction.
* `LedgerProofs`: the pages of `JobLedger`, for any number of ids and any page
  size.  `AnswerOK` is the arithmetic of a page: asking for one row more than it
  holds tells whether there are more, and everything cut off is older than
  everything kept.  It rests on lemmas about the n largest of a finite set
  (`TopUpward`, `TopAll`, `TopCount`), proved by taking a minimal counterexample
  under inclusion.  The inductive invariant `IInv` links each page of the way to
  the one before it (`Linked`), lets them fall (`Falling`), and says that nothing
  is missing above the end of any of them (`Covered`); `Gapless` and `OnlyOlder`
  are about the page on show as well, which may be replaced by another answer at
  any time, so they are not inductive.  `NothingMissed`, `PagesFallAway`,
  `PagesFull` and `TypeCorrect` follow.
* `OrderProofs`: for any jobs, workers, priorities and divisor.  The difference of
  two scores does not depend on the time, so a row has a `Rank` that never
  changes, and the invariant `PassedByRank` says that whoever went first has the
  higher one.  `NoStarvation` and `NoReordering` are arithmetic on that.
* `TimingProofs`: for all numbers that satisfy `TimingOK`.  The invariant says,
  for each state of worker and heartbeat, how much of the lease is left compared
  with what still has to happen: a tick and two statements, one statement and
  the rest of another, the result (`Waits`, `Ticks`, `Renews`, `Stores`).
  `Orphaned` bounds the time since the worker's end by what its last Renew can
  have given; `Sweeps` says the last sweep was before the lease ran out.
  `LeasesLast` and `OrphansReturn` follow.
* `StartProofs`: for any instances, environments and faults.  `LockHeld` (who
  migrates holds the lock) makes what a migration found out about the table stay
  true (`TableKnown`); `NoCollision` and `TableFirst` follow.  `Contained` (a bad
  job is contained) rests on arithmetic that has to hold for every attempt: that
  2^n is positive needs no induction, because it counts the subsets of 1..n
  (`SubsetsOfInterval`), and neither does that it doubles (`PowerDoubles`: the
  subsets of 1..n+1 are those of 1..n, with and without n+1).  Hence the
  backoff's bound is between 1 and the cap (`UpperInRange`) and doubles as its
  comment says (`BackoffDoubles`), for a cap that stays an int64 through a
  float64; and the bound does reach its cap (`CapIsReached`, because a set has at
  least as many subsets as members), so that any other cap panics at some attempt
  unless the processor saturates.  `SoundIsExact` says that the hypothesis of
  `BadJobIsContained` is not chosen too strong: `Sound` is what Load would have
  to check, no more.
* `HandlerProofs`: for any jobs, workers, payloads, budgets and numbers of
  requests.  `PaidFor` is an accounting: each claim, and each redirect with 307 or
  308, pays for one POST, which has come, is astray, or is still owed by a run that
  has not sent it or has it out (`Owing`); that no run owes two is what makes the
  first part of `PostsPerClaim` inductive.  For the second, `Bounded` counts for
  each run what its client may still send (`Coming`).  `RunConsistent` says that a run
  that is ok did its work, and the table's part of the types (`TableOK`) bounds
  the tries by the claims.  `SuccessIsWork` and `NoExtraPosts` follow, and
  `ImplementsLifecycle`: the table takes steps of `JobLifecycle` only.
* `OperatorProofs`: for any jobs, holders, requests open at a time and configured
  maximum.  Every step is one statement on the table or none (`TableStep`), and
  no statement leaves "canceled" or "deleted" (`Finality`).  That is inductive
  only with `LapsedRun`: a lapsed lease belongs to a running job, otherwise
  reclaiming could bring a job back that an operator withdrew.  `RequestOK` says
  what a handler knows once its statement has run: its INSERT made the job, its
  UPDATE changed it and left it in the state its answer is about, or the state the statement met
  explains why it changed nothing.  The steps of others keep it (`OthersKeep`,
  from the finality), its own steps reach the next part of it (one lemma per
  operation), and the answers say no more: `TrueAnswers`, `JustRefusals`.
  `AtMostOneRemover`: what was reported removed is deleted, what is being removed
  was dead.  `BudgetsHold`, `FinalStatesStay` (an action property of all
  operators, workers and the reaper together), `TypeCorrect` and
  `ImplementsLifecycle` come from the same invariant.  Requests are records whose
  fields change two or three at a time; the lemmas named `...Fields` say once
  which fields remain, and the steps use only those.

Assumed are only the constants' assumptions (`ConstantsOK`,
`LedgerConstantsOK`, `OrderConstantsOK`, `TimingOK`, `ConfigConstantsOK`,
`StartConstantsOK`, `TypesConstantsOK`, `ApiConstantsOK`), which the runs evaluate.

Every safety property that a passing run checks is proved.  Model-checked only:
the liveness properties (`OrphansRecovered`, `LostLeaseStopsHandler`,
`ShutdownCompletes`, `GetsServing`, `BadJobIsBuried`, `HandlersEnd`), because
fairness is out of the prover's reach.

## Not modelled

* Stats (a count per status), which reads and changes nothing; the health check.
* JSON and its validation beyond accepted or not; the text of payloads, errors
  and logs.  `updated_at` and `last_error` are written and never read by a
  statement that decides anything.
* HTTP below `client.Do` apart from its redirects: connections kept alive, and
  where a redirect leads.
* Rounding to the 53 bits of a float64 where it does not reach 2^63: a backoff's
  bound of more than 100 days may be off by nanoseconds.
* `internal/queue`, a channel with a counter that nothing imports.
* The dashboard's forms, dialogs and charts: presentation, and requests that
  `OperatorApi` has.
* Transactions other than Claim and the migration are single statements under
  READ COMMITTED.  A statement takes effect before its caller learns how it
  ended (plan 1).
* What clients do after an answer is lost: a repeated request enqueues a second
  job, and no code or document promises otherwise.

## Plan

Done: the queue, its abstract specification and the refinement, liveness,
`OperatorApi`, `JobLedger`, `ClaimOrder`, `LeaseTiming`, `ServerStart`,
`JobTypes`, and the proofs above.  Next, in this order:

1. `LeaseQueue` with statements that outlive their connection: a MarkSuccess
   whose connection broke may take effect later, when the same worker, with the
   same token, may have claimed the job again.
2. The configurations that are not sound, as a disagreement with the comment on
   `Pool`.
3. `OperatorApi` with retries by clients; Stats beside ListJobs.
