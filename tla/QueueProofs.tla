------------------------------ MODULE QueueProofs ------------------------------
(***************************************************************************)
(* The safety of LeaseQueue for every number of jobs, servers, goroutines, *)
(* attempts and restarts.                                                  *)
(***************************************************************************)
EXTENDS LeaseQueue, TLAPS

LEMMA WorkerParts ==
  ASSUME NEW w \in Worker
  PROVE  /\ ServerOf(w) \in Server
         /\ w[2] \in Slot
         /\ w = <<ServerOf(w), w[2]>>
  BY DEF Worker, ServerOf

LEMMA WorkersOfMembers ==
  ASSUME NEW s \in Server, NEW w \in Worker
  PROVE  w \in WorkersOf(s) <=> ServerOf(w) = s
  BY DEF Worker, WorkersOf, ServerOf

LEMMA OwnerType ==
  ASSUME TypeOK, NEW w \in Worker
  PROVE  Owner(w) \in Owners /\ Owner(w) # NULL
  BY WorkerParts, ConstantsOK DEF Owner, Owners, TypeOK

\* The tokens of two goroutines that live at the same time differ.
LEMMA OwnerUnique ==
  ASSUME TypeOK, TokensUnique, NEW v \in Worker, NEW w \in Worker,
         Up(ServerOf(v)), Up(ServerOf(w)), Owner(v) = Owner(w)
  PROVE  v = w
  BY WorkerParts DEF Owner, TokensUnique

THEOREM InitInv == Init => IndInv
<1> SUFFICES ASSUME Init PROVE IndInv
  OBVIOUS
<1> USE DEF Init
<1>1. TypeOK
  BY ConstantsOK DEF TypeOK, Row, BlankRow, Status, NoRow, Instant, Phase, Goroutine, AtRest
<1>2. \A j \in Job : RowConsistent(jobs[j])
  BY DEF RowConsistent, BlankRow
<1>3. TokensUnique
  BY ConstantsOK DEF TokensUnique, Up, BlankRow, Owners
<1>4. \A w \in Worker : GoroutineConsistent(w)
  BY DEF GoroutineConsistent, AtRest
<1>5. ClaimIsolated
  BY DEF ClaimIsolated, AtRest
<1>6. LeaseHeld /\ AtMostOneExecutor
  BY DEF LeaseHeld, AtMostOneExecutor, Executing, AtRest
<1>7. EvictedHasNoAuthority /\ SnapshotFresh
  BY DEF EvictedHasNoAuthority, SnapshotFresh, AtRest
<1> QED
  BY <1>1, <1>2, <1>3, <1>4, <1>5, <1>6, <1>7 DEF IndInv

-----------------------------------------------------------------------------
(* Most steps are quiet: they start and end no lease.                      *)

\* The step keeps what the invariants read of row j, or moves it between
\* states in which nobody holds it, or cancels it.
QuietRow(j) ==
  /\ jobs'[j] \in Row(Owners)
  /\ RowConsistent(jobs'[j])
  /\ RowLocked(j) => /\ Claimable(jobs'[j])
                     /\ jobs'[j].attempts = jobs[j].attempts
                     /\ jobs'[j].max_attempts = jobs[j].max_attempts
  /\ \/ /\ jobs'[j].status = jobs[j].status
        /\ jobs'[j].locked_by = jobs[j].locked_by
        /\ jobs'[j].attempts = jobs[j].attempts
        /\ jobs'[j].max_attempts = jobs[j].max_attempts
     \/ jobs'[j].status = "canceled"
     \/ /\ jobs[j].status \in {"unused", "dead"}
        /\ jobs'[j].status \in {"pending", "deleted"}

\* The step leaves goroutine w with the job it has, or puts it to rest.
QuietGoroutine(w) ==
  /\ worker'[w] \in Goroutine
  /\ \/ /\ worker'[w].job = worker[w].job
        /\ worker'[w].attempts = worker[w].attempts
        /\ worker'[w].max_attempts = worker[w].max_attempts
        /\ \/ worker'[w].pc = worker[w].pc
           \/ worker[w].pc = "run" /\ worker'[w].pc = "result"
        /\ worker'[w].beat # "off" => worker[w].beat # "off"
        /\ w \in evicted' <=> w \in evicted
     \/ /\ Up(ServerOf(w)) \/ worker'[w].pc = "stopped"
        /\ worker'[w].pc \in {"idle", "stopped"}
        /\ worker'[w].job = NULL
        /\ worker'[w].beat = "off"
        /\ w \notin evicted'

\* Quiet steps preserve the invariant.
LEMMA QuietStep ==
  ASSUME IndInv,
         jobs' = [j \in Job |-> jobs'[j]],
         \A j \in Job : QuietRow(j),
         worker' = [w \in Worker |-> worker'[w]],
         \A w \in Worker : QuietGoroutine(w),
         evicted' \subseteq evicted,
         phase' \in [Server -> Phase],
         \A s \in Server : Up(s)' <=> Up(s),
         UNCHANGED <<pool, pools>>
  PROVE  IndInv'
<1>1. TypeOK'
  <2>1. jobs' \in [Job -> Row(Owners)]
    BY DEF QuietRow
  <2>2. worker' \in [Worker -> Goroutine]
    BY DEF QuietGoroutine
  <2> QED
    BY <2>1, <2>2 DEF IndInv, TypeOK
<1>2. \A j \in Job : RowConsistent(jobs[j])'
  BY DEF QuietRow
<1>3. TokensUnique'
  <2>1. ASSUME NEW j \in Job, NEW i \in Slot, NEW n \in 0..MaxPool,
               jobs'[j].locked_by = <<i, n>>
        PROVE  n <= pools
    <3>1. <<i, n>> # NULL
      BY ConstantsOK
    <3>2. jobs'[j].locked_by = jobs[j].locked_by
      BY <2>1, <3>1 DEF QuietRow, RowConsistent
    <3> QED
      BY <2>1, <3>2 DEF IndInv, TokensUnique
  <2> QED
    BY <2>1 DEF IndInv, TokensUnique
<1>4. \A w \in Worker : GoroutineConsistent(w)'
  <2> SUFFICES ASSUME NEW w \in Worker PROVE GoroutineConsistent(w)'
    OBVIOUS
  <2>1. GoroutineConsistent(w) /\ QuietGoroutine(w) /\ (Up(ServerOf(w))' <=> Up(ServerOf(w)))
    BY WorkerParts DEF IndInv, ServerOf
  <2> QED
    BY <2>1 DEF GoroutineConsistent, QuietGoroutine, ServerOf
<1>5. \A w \in Worker : Owner(w)' = Owner(w)
  BY DEF Owner, ServerOf
<1>6. \A w \in Worker, j \in Job : Executing(w, j)' =>
        /\ Executing(w, j)
        /\ w \in evicted' <=> w \in evicted
        /\ worker'[w].attempts = worker[w].attempts
        /\ worker'[w].max_attempts = worker[w].max_attempts
  BY DEF Executing, QuietGoroutine
<1>7. ClaimIsolated'
  <2> SUFFICES ASSUME NEW w \in Worker, worker'[w].pc = "tx"
               PROVE  /\ Claimable(jobs'[worker'[w].job])
                      /\ worker'[w].attempts = jobs'[worker'[w].job].attempts
                      /\ worker'[w].max_attempts = jobs'[worker'[w].job].max_attempts
                      /\ \A v \in Worker :
                           (v # w /\ worker'[v].pc = "tx") => worker'[v].job # worker'[w].job
    BY DEF ClaimIsolated, Claimable
  <2>1. \A v \in Worker : worker'[v].pc = "tx" =>
          /\ worker[v].pc = "tx"
          /\ worker'[v].job = worker[v].job
          /\ worker'[v].attempts = worker[v].attempts
          /\ worker'[v].max_attempts = worker[v].max_attempts
    BY DEF QuietGoroutine
  <2>2. worker[w].job \in Job
    BY <2>1, WorkerParts DEF IndInv, TypeOK, Goroutine, GoroutineConsistent
  <2>3. QuietRow(worker[w].job) /\ RowLocked(worker[w].job)
    BY <2>1, <2>2 DEF RowLocked
  <2> QED
    BY <2>1, <2>2, <2>3 DEF IndInv, ClaimIsolated, QuietRow
<1>8. LeaseHeld'
  <2> SUFFICES ASSUME NEW w \in Worker, NEW j \in Job,
                      Executing(w, j)', w \notin evicted'
               PROVE  (jobs[j].status = "canceled" \/ Renewable(jobs[j], Owner(w)))'
    BY DEF LeaseHeld
  <2>1. jobs[j].status = "canceled" \/ Renewable(jobs[j], Owner(w))
    BY <1>6 DEF IndInv, LeaseHeld
  <2> QED
    BY <1>5, <2>1 DEF QuietRow, Renewable
<1>9. AtMostOneExecutor'
  BY <1>6 DEF IndInv, AtMostOneExecutor
<1>10. \A w \in Worker : (worker'[w].pc \in {"run", "result"} /\ Holds(w)') =>
         /\ worker'[w].job = worker[w].job
         /\ worker[w].job \in Job
         /\ Executing(w, worker[w].job)'
         /\ Holds(w)
         /\ jobs'[worker[w].job].attempts = jobs[worker[w].job].attempts
         /\ jobs'[worker[w].job].max_attempts = jobs[worker[w].job].max_attempts
  <2> SUFFICES ASSUME NEW w \in Worker, worker'[w].pc \in {"run", "result"}, Holds(w)'
               PROVE  /\ worker'[w].job = worker[w].job
                      /\ worker[w].job \in Job
                      /\ Executing(w, worker[w].job)'
                      /\ Holds(w)
                      /\ jobs'[worker[w].job].attempts = jobs[worker[w].job].attempts
                      /\ jobs'[worker[w].job].max_attempts = jobs[worker[w].job].max_attempts
    OBVIOUS
  <2>1. worker'[w].job = worker[w].job /\ worker[w].job # NULL
    BY DEF QuietGoroutine, Holds
  <2>2. worker[w].job \in Job
    BY <2>1 DEF IndInv, TypeOK, Goroutine
  <2> QED
    BY <1>5, <2>1, <2>2 DEF QuietRow, Holds, Renewable, Executing
<1>11. SnapshotFresh'
  BY <1>6, <1>10 DEF IndInv, SnapshotFresh, Executing
<1>12. EvictedHasNoAuthority'
  <2> SUFFICES ASSUME NEW w \in evicted', Holds(w)' PROVE FALSE
    BY DEF EvictedHasNoAuthority
  <2>1. w \in Worker /\ w \in evicted
    BY DEF IndInv, TypeOK
  <2>2. worker'[w].pc \in {"run", "result"}
    BY <1>4, <2>1 DEF GoroutineConsistent
  <2> QED
    BY <1>10, <2>1, <2>2 DEF IndInv, EvictedHasNoAuthority
<1> QED
  BY <1>1, <1>2, <1>3, <1>4, <1>7, <1>8, <1>9, <1>11, <1>12 DEF IndInv

LEMMA SameRow ==
  ASSUME IndInv, NEW j \in Job, jobs'[j] = jobs[j]
  PROVE  QuietRow(j)
  BY DEF IndInv, TypeOK, QuietRow, RowLocked, ClaimIsolated, Claimable

LEMMA SameGoroutine ==
  ASSUME IndInv, NEW w \in Worker, worker'[w] = worker[w],
         w \in evicted' <=> w \in evicted
  PROVE  QuietGoroutine(w)
  BY DEF IndInv, TypeOK, QuietGoroutine

LEMMA LocalStep ==
  ASSUME IndInv, NEW w \in Worker,
         worker' = [worker EXCEPT ![w] = worker'[w]], QuietGoroutine(w),
         evicted' = evicted \/ evicted' = evicted \ {w},
         UNCHANGED <<jobs, phase, pool, pools>>
  PROVE  IndInv'
<1>1. \A j \in Job : QuietRow(j)
  BY SameRow
<1>2. \A v \in Worker : QuietGoroutine(v)
  BY SameGoroutine DEF IndInv, TypeOK
<1>3. /\ jobs' = [j \in Job |-> jobs'[j]]
      /\ worker' = [v \in Worker |-> worker'[v]]
      /\ phase' \in [Server -> Phase]
      /\ \A s \in Server : Up(s)' <=> Up(s)
  BY DEF IndInv, TypeOK, Up
<1> QED
  BY <1>1, <1>2, <1>3, QuietStep

LEMMA RowStep ==
  ASSUME IndInv, NEW j \in Job,
         jobs' = [jobs EXCEPT ![j] = jobs'[j]], QuietRow(j),
         UNCHANGED <<phase, pool, pools, worker, evicted>>
  PROVE  IndInv'
<1>1. \A i \in Job : QuietRow(i)
  BY SameRow DEF IndInv, TypeOK
<1>2. \A v \in Worker : QuietGoroutine(v)
  BY SameGoroutine
<1>3. /\ jobs' = [i \in Job |-> jobs'[i]]
      /\ worker' = [v \in Worker |-> worker'[v]]
      /\ phase' \in [Server -> Phase]
      /\ \A s \in Server : Up(s)' <=> Up(s)
  BY DEF IndInv, TypeOK, Up
<1> QED
  BY <1>1, <1>2, <1>3, QuietStep

-----------------------------------------------------------------------------
(* The actions of a goroutine.                                             *)

\* A busy goroutine has a job, and that of an open claim is locked.
LEMMA BusyJob ==
  ASSUME IndInv, NEW w \in Worker, worker[w].pc \notin {"stopped", "idle"}
  PROVE  /\ worker[w].job \in Job
         /\ Up(ServerOf(w))
         /\ worker[w].pc = "tx" => RowLocked(worker[w].job)
  BY DEF IndInv, TypeOK, Goroutine, GoroutineConsistent, RowLocked

LEMMA RestType == \A pc \in {"stopped", "idle"} : AtRest(pc) \in Goroutine
  BY DEF AtRest, Goroutine

\* The heartbeat it waited for is off, so the worker that loops is at rest.
LEMMA LoopRests ==
  ASSUME NEW w \in Worker, Loop(w)
  PROVE  /\ worker[w].pc = "result"
         /\ worker' = [worker EXCEPT ![w] = AtRest("idle")]
<1> DEFINE r == AtRest("idle")
<1>1. r \in Goroutine /\ r.beat = "off"
  BY RestType DEF AtRest
<1> HIDE DEF r
<1>2. [r EXCEPT !.beat = "off"] = r
  BY <1>1 DEF Goroutine
<1> QED
  BY <1>2 DEF Loop, r

LEMMA ClaimRollbackInv ==
  ASSUME IndInv, NEW w \in Worker, ClaimRollback(w)
  PROVE  IndInv'
<1>1. QuietGoroutine(w)
  BY BusyJob, RestType DEF IndInv, TypeOK, GoroutineConsistent, ClaimRollback, QuietGoroutine, AtRest
<1> QED
  BY <1>1, LocalStep DEF ClaimRollback, IndInv, TypeOK

LEMMA WorkerExitInv ==
  ASSUME IndInv, NEW w \in Worker, WorkerExit(w)
  PROVE  IndInv'
<1>1. QuietGoroutine(w)
  BY RestType DEF IndInv, TypeOK, GoroutineConsistent, WorkerExit, QuietGoroutine, AtRest
<1> QED
  BY <1>1, LocalStep DEF WorkerExit, IndInv, TypeOK

LEMMA HandlerReturnsInv ==
  ASSUME IndInv, NEW w \in Worker, NEW failed \in BOOLEAN, HandlerReturns(w, failed)
  PROVE  IndInv'
<1>1. QuietGoroutine(w)
  BY DEF IndInv, TypeOK, Goroutine, HandlerReturns, QuietGoroutine
<1> QED
  BY <1>1, LocalStep DEF HandlerReturns, IndInv, TypeOK

LEMMA RecordNothingInv ==
  ASSUME IndInv, NEW w \in Worker, RecordNothing(w)
  PROVE  IndInv'
<1>1. QuietGoroutine(w)
  <2>1. worker[w].pc = "result" /\ worker'[w] = AtRest("idle")
    BY LoopRests DEF RecordNothing, IndInv, TypeOK
  <2>2. Up(ServerOf(w)) /\ w \notin evicted'
    BY <2>1, BusyJob DEF RecordNothing, Loop
  <2> QED
    BY <2>1, <2>2, RestType DEF QuietGoroutine, AtRest
<1> QED
  BY <1>1, LoopRests, LocalStep DEF RecordNothing, Loop, IndInv, TypeOK

LEMMA HeartbeatLocalInv ==
  ASSUME IndInv, NEW w \in Worker,
         HeartbeatTick(w) \/ HeartbeatRefused(w) \/ HeartbeatExit(w)
  PROVE  IndInv'
<1>1. QuietGoroutine(w)
  <2> USE DEF IndInv, TypeOK, Goroutine, QuietGoroutine
  <2>1. CASE HeartbeatTick(w)
    BY <2>1 DEF HeartbeatTick
  <2>2. CASE HeartbeatRefused(w)
    BY <2>2 DEF HeartbeatRefused
  <2>3. CASE HeartbeatExit(w)
    BY <2>3 DEF HeartbeatExit
  <2> QED
    BY <2>1, <2>2, <2>3
<1> QED
  BY <1>1, LocalStep DEF HeartbeatTick, HeartbeatRefused, HeartbeatExit, IndInv, TypeOK

\* A renewal changes the deadline of a row its worker holds.
LEMMA RenewedQuiet ==
  ASSUME IndInv, NEW j \in Job, jobs'[j] = Renewed(jobs[j]), jobs[j].status = "running"
  PROVE  QuietRow(j)
<1>1. /\ jobs[j] \in Row(Owners)
      /\ RowConsistent(jobs[j])
      /\ ~RowLocked(j)
  BY DEF IndInv, TypeOK, RowLocked, ClaimIsolated, Claimable
<1> QED
  BY <1>1 DEF QuietRow, RowConsistent, Row, Instant, Renewed

LEMMA HeartbeatRenewInv ==
  ASSUME IndInv, NEW w \in Worker, HeartbeatRenewed(w) \/ HeartbeatRenewLost(w)
  PROVE  IndInv'
<1> DEFINE k == worker[w].job
<1>1. k \in Job
  BY BusyJob DEF HeartbeatRenewed, HeartbeatRenewLost, IndInv, GoroutineConsistent
<1>2. jobs' = [jobs EXCEPT ![k] = Renewed(jobs[k])] /\ jobs[k].status = "running"
  BY DEF HeartbeatRenewed, HeartbeatRenewLost, Renewable
<1>3. \A j \in Job : QuietRow(j)
  BY <1>1, <1>2, SameRow, RenewedQuiet DEF IndInv, TypeOK
<1>4. QuietGoroutine(w) /\ worker' = [worker EXCEPT ![w] = worker'[w]]
  <2>1. worker \in [Worker -> Goroutine]
    BY DEF IndInv, TypeOK
  <2>2. /\ worker[w].beat = "renew"
        /\ evicted' = evicted
        /\ \/ worker' = [worker EXCEPT ![w] = [@ EXCEPT !.beat = "wait"]]
           \/ worker' = [worker EXCEPT ![w] = [@ EXCEPT !.beat = "off", !.ctx = FALSE]]
    BY DEF HeartbeatRenewed, HeartbeatRenewLost
  <2>3. worker[w] \in Goroutine /\ worker' = [worker EXCEPT ![w] = worker'[w]]
    BY <2>1, <2>2
  <2>4. \/ worker'[w] = [worker[w] EXCEPT !.beat = "wait"]
        \/ worker'[w] = [worker[w] EXCEPT !.beat = "off", !.ctx = FALSE]
    BY <2>1, <2>2
  <2>5. QuietGoroutine(w)
    BY <2>2, <2>3, <2>4 DEF Goroutine, QuietGoroutine
  <2> QED
    BY <2>3, <2>5
<1>5. UNCHANGED <<phase, pool, pools, evicted>>
  BY DEF HeartbeatRenewed, HeartbeatRenewLost
<1>6. \A v \in Worker : QuietGoroutine(v)
  BY <1>4, <1>5, SameGoroutine DEF IndInv, TypeOK
<1>7. /\ jobs' = [j \in Job |-> jobs'[j]]
      /\ worker' = [v \in Worker |-> worker'[v]]
      /\ phase' \in [Server -> Phase]
      /\ \A s \in Server : Up(s)' <=> Up(s)
  BY <1>2, <1>4, <1>5 DEF IndInv, TypeOK, Up
<1> QED
  BY <1>3, <1>5, <1>6, <1>7, QuietStep

-----------------------------------------------------------------------------
(* Time, and the operator's statements.                                    *)

LEMMA LeaseExpiresInv ==
  ASSUME IndInv, NEW j \in Job, LeaseExpires(j)
  PROVE  IndInv'
<1>1. jobs[j] \in Row(Owners) /\ RowConsistent(jobs[j]) /\ ~RowLocked(j)
  BY DEF LeaseExpires, IndInv, TypeOK, RowLocked, ClaimIsolated, Claimable
<1>2. QuietRow(j)
  BY <1>1 DEF LeaseExpires, QuietRow, RowConsistent, Row, Instant, IndInv, TypeOK
<1> QED
  BY <1>2, RowStep DEF LeaseExpires, IndInv, TypeOK

LEMMA BackoffElapsesInv ==
  ASSUME IndInv, NEW j \in Job, BackoffElapses(j)
  PROVE  IndInv'
<1>1. jobs[j] \in Row(Owners) /\ RowConsistent(jobs[j]) /\ ~RowLocked(j)
  BY DEF BackoffElapses, IndInv, TypeOK, RowLocked, ClaimIsolated, Claimable
<1>2. QuietRow(j)
  BY <1>1 DEF BackoffElapses, QuietRow, RowConsistent, Row, Instant, IndInv, TypeOK
<1> QED
  BY <1>2, RowStep DEF BackoffElapses, IndInv, TypeOK

\* An open claim has locked a pending row.
LEMMA LockedPending ==
  ASSUME IndInv, NEW j \in Job, RowLocked(j)
  PROVE  jobs[j].status = "pending"
  BY DEF IndInv, RowLocked, ClaimIsolated, Claimable

LEMMA EnqueueInv ==
  ASSUME IndInv, NEW j \in Job, NEW max \in 1..MaxAttempts, Enqueue(j, max)
  PROVE  IndInv'
<1>1. jobs'[j] = Inserted(max) /\ ~RowLocked(j) /\ jobs[j].status = "unused"
  BY LockedPending DEF Enqueue, IndInv, TypeOK
<1>2. Inserted(max) \in Row(Owners) /\ RowConsistent(Inserted(max))
  BY ConstantsOK DEF Inserted, BlankRow, Row, RowConsistent, Status, Instant
<1>3. QuietRow(j)
  BY <1>1, <1>2 DEF QuietRow, Inserted, BlankRow
<1> QED
  BY <1>3, RowStep DEF Enqueue, IndInv, TypeOK

LEMMA CancelInv ==
  ASSUME IndInv, NEW j \in Job, Cancel(j)
  PROVE  IndInv'
<1>1. jobs'[j] = Canceled(jobs[j]) /\ ~RowLocked(j) /\ jobs[j] \in Row(Owners)
  BY DEF Cancel, IndInv, TypeOK
<1>2. QuietRow(j)
  BY <1>1 DEF QuietRow, RowConsistent, Canceled, Row, Instant, Status
<1> QED
  BY <1>2, RowStep DEF Cancel, IndInv, TypeOK

LEMMA RetryDeadInv ==
  ASSUME IndInv, NEW j \in Job, RetryDead(j)
  PROVE  IndInv'
<1>1. /\ jobs'[j] = Retried(jobs[j])
      /\ ~RowLocked(j)
      /\ jobs[j] \in Row(Owners)
      /\ jobs[j].status = "dead"
  BY LockedPending DEF RetryDead, Retryable, IndInv, TypeOK
<1>2. Retried(jobs[j]) \in Row(Owners)
  BY <1>1 DEF Retried, Row, Instant, Status
<1>3. /\ Retried(jobs[j]).status = "pending"
      /\ Retried(jobs[j]).locked_by = NULL
      /\ Retried(jobs[j]).locked_until = "null"
  BY <1>1 DEF Retried, Row
<1>4. QuietRow(j)
  BY <1>1, <1>2, <1>3 DEF QuietRow, RowConsistent
<1> QED
  BY <1>4, RowStep DEF RetryDead, IndInv, TypeOK

LEMMA DeletedQuiet ==
  ASSUME IndInv, NEW j \in Job, Deletable(jobs[j]), jobs'[j] = Deleted
  PROVE  QuietRow(j)
<1>1. ~RowLocked(j) /\ jobs[j].status = "dead"
  BY LockedPending DEF Deletable
<1> QED
  BY <1>1 DEF QuietRow, RowConsistent, Deleted, BlankRow, Row, Instant, NoRow

LEMMA DeleteInv ==
  ASSUME IndInv, (\E j \in Job : DeleteDead(j)) \/ DeleteAllDead
  PROVE  IndInv'
<1>1. \A j \in Job : jobs'[j] = jobs[j] \/ (Deletable(jobs[j]) /\ jobs'[j] = Deleted)
  BY DEF DeleteDead, DeleteAllDead, IndInv, TypeOK
<1>2. jobs' = [j \in Job |-> jobs'[j]] /\ UNCHANGED <<phase, pool, pools, worker, evicted>>
  BY DEF DeleteDead, DeleteAllDead, IndInv, TypeOK
<1>3. \A j \in Job : QuietRow(j)
  BY <1>1, SameRow, DeletedQuiet
<1>4. \A v \in Worker : QuietGoroutine(v)
  BY <1>2, SameGoroutine
<1>5. /\ worker' = [v \in Worker |-> worker'[v]]
      /\ phase' \in [Server -> Phase]
      /\ \A s \in Server : Up(s)' <=> Up(s)
  BY <1>2 DEF IndInv, TypeOK, Up
<1> QED
  BY <1>2, <1>3, <1>4, <1>5, QuietStep

-----------------------------------------------------------------------------
(* The steps that give, end or move leases.                                *)

LEMMA ClaimSelectInv ==
  ASSUME IndInv, NEW w \in Worker, NEW j \in Job, ClaimSelect(w, j)
  PROVE  IndInv'
<1>1. /\ worker' = [worker EXCEPT ![w] = worker'[w]]
      /\ worker'[w] \in Goroutine
      /\ worker'[w].pc = "tx"
      /\ worker'[w].job = j
      /\ worker'[w].attempts = jobs[j].attempts
      /\ worker'[w].max_attempts = jobs[j].max_attempts
      /\ worker'[w].beat = worker[w].beat
  BY DEF ClaimSelect, IndInv, TypeOK, Goroutine, Row
<1>2. /\ UNCHANGED <<jobs, phase, pool, pools, evicted>>
      /\ worker[w].pc = "idle"
      /\ phase[ServerOf(w)] = "serving"
      /\ Claimable(jobs[j])
      /\ ~RowLocked(j)
  BY DEF ClaimSelect
<1>3. worker[w].beat = "off" /\ w \notin evicted /\ j # NULL
  BY <1>2, ConstantsOK DEF IndInv, GoroutineConsistent
<1>4. \A v \in Worker : v # w => worker'[v] = worker[v]
  BY <1>1 DEF IndInv, TypeOK
<1>5. \A v \in Worker : Owner(v)' = Owner(v)
  BY <1>2 DEF Owner, ServerOf
<1>6. \A v \in Worker : worker'[v].pc \in {"run", "result"} => v # w
  BY <1>1
<1>7. TypeOK'
  BY <1>1, <1>2 DEF IndInv, TypeOK
<1>8. TokensUnique' /\ \A i \in Job : RowConsistent(jobs[i])'
  BY <1>2 DEF IndInv, TokensUnique, Up
<1>9. \A v \in Worker : GoroutineConsistent(v)'
  BY <1>1, <1>2, <1>3, <1>4 DEF IndInv, GoroutineConsistent, Up, ServerOf
<1>10. ClaimIsolated'
  BY <1>1, <1>2, <1>4 DEF IndInv, ClaimIsolated, Claimable, RowLocked
<1>11. LeaseHeld' /\ AtMostOneExecutor'
  BY <1>2, <1>4, <1>5, <1>6 DEF IndInv, LeaseHeld, AtMostOneExecutor, Executing, Renewable
<1>12. EvictedHasNoAuthority'
  BY <1>2, <1>3, <1>4, <1>5 DEF IndInv, TypeOK, EvictedHasNoAuthority, Holds, Renewable
<1>13. SnapshotFresh'
  BY <1>2, <1>4, <1>5, <1>6 DEF IndInv, SnapshotFresh, Holds, Renewable
<1> QED
  BY <1>7, <1>8, <1>9, <1>10, <1>11, <1>12, <1>13 DEF IndInv

LEMMA ClaimedType ==
  ASSUME NEW row \in Row(Owners), NEW owner \in Owners
  PROVE  Claimed(row, owner) \in Row(Owners)
<1>1. PICK n \in Nat : n = row.attempts + 1
  BY DEF Row
<1>2. Claimed(row, owner) =
        [row EXCEPT !.status = "running", !.locked_by = owner,
                    !.locked_until = "future", !.attempts = n]
  BY <1>1 DEF Claimed
<1> QED
  BY <1>2 DEF Row, Status, Instant

LEMMA StartedType ==
  ASSUME NEW g \in Goroutine, NEW ctx \in BOOLEAN
  PROVE  Started(g, ctx) \in Goroutine
<1>1. PICK n \in Nat : n = g.attempts + 1
  BY DEF Goroutine
<1>2. Started(g, ctx) =
        [g EXCEPT !.pc = "run", !.attempts = n, !.ctx = ctx, !.beat = "wait"]
  BY <1>1 DEF Started
<1> QED
  BY <1>2 DEF Goroutine

\* The claimed row.
LEMMA ClaimedRow ==
  ASSUME IndInv, NEW j \in Job, NEW w \in Worker, Claimable(jobs[j])
  PROVE  /\ Claimed(jobs[j], Owner(w)) \in Row(Owners)
         /\ RowConsistent(Claimed(jobs[j], Owner(w)))
         /\ Claimed(jobs[j], Owner(w)).locked_by = Owner(w)
         /\ Claimed(jobs[j], Owner(w)).status = "running"
         /\ Claimed(jobs[j], Owner(w)).attempts = jobs[j].attempts + 1
         /\ Claimed(jobs[j], Owner(w)).max_attempts = jobs[j].max_attempts
<1>1. jobs[j] \in Row(Owners) /\ Owner(w) \in Owners /\ Owner(w) # NULL
  BY OwnerType DEF IndInv, TypeOK
<1>2. Claimed(jobs[j], Owner(w)) \in Row(Owners)
  BY <1>1, ClaimedType
<1> QED
  BY <1>1, <1>2 DEF Claimed, Row, RowConsistent, Claimable

\* UPDATE and COMMIT, whether or not the worker learns of it.
LEMMA ClaimEndInv ==
  ASSUME IndInv, NEW w \in Worker, ClaimCommit(w) \/ ClaimCommitLost(w)
  PROVE  IndInv'
<1> DEFINE k == worker[w].job
<1>1. /\ worker[w].pc = "tx"
      /\ UNCHANGED <<phase, pool, pools, evicted>>
      /\ jobs' = [jobs EXCEPT ![k] = Claimed(jobs[k], Owner(w))]
  BY DEF ClaimCommit, ClaimCommitLost
<1>2. /\ k \in Job
      /\ k # NULL
      /\ Up(ServerOf(w))
      /\ w \notin evicted
      /\ Claimable(jobs[k])
      /\ worker[w].attempts = jobs[k].attempts
      /\ worker[w].max_attempts = jobs[k].max_attempts
  BY <1>1, BusyJob, ConstantsOK DEF IndInv, GoroutineConsistent, ClaimIsolated
<1>3. /\ worker' = [worker EXCEPT ![w] = worker'[w]]
      /\ worker'[w] \in Goroutine
      /\ \/ /\ worker'[w].pc = "run"
            /\ worker'[w].job = k
            /\ worker'[w].attempts = jobs[k].attempts + 1
            /\ worker'[w].max_attempts = jobs[k].max_attempts
         \/ /\ worker'[w].pc = "idle"
            /\ worker'[w].job = NULL
            /\ worker'[w].beat = "off"
  <2>1. worker \in [Worker -> Goroutine]
    BY DEF IndInv, TypeOK
  <2>2. CASE ClaimCommit(w)
    <3>1. worker' = [worker EXCEPT ![w] = Started(worker[w], phase[ServerOf(w)] # "aborting")]
      BY <2>2 DEF ClaimCommit
    <3>2. Started(worker[w], phase[ServerOf(w)] # "aborting") \in Goroutine
      BY <2>1, StartedType
    <3> QED
      BY <1>2, <2>1, <3>1, <3>2 DEF Started, Goroutine
  <2>3. CASE ClaimCommitLost(w)
    BY <2>1, <2>3, RestType DEF ClaimCommitLost, AtRest
  <2> QED
    BY <2>2, <2>3
<1>4. \A v \in Worker : v # w => worker'[v] = worker[v]
  BY <1>3 DEF IndInv, TypeOK
<1>5. \A v \in Worker : Owner(v)' = Owner(v)
  BY <1>1 DEF Owner, ServerOf
<1>6. /\ \A i \in Job : i # k => jobs'[i] = jobs[i]
      /\ jobs'[k] \in Row(Owners)
      /\ RowConsistent(jobs'[k])
      /\ jobs'[k].locked_by = Owner(w)
      /\ jobs'[k].status = "running"
      /\ jobs'[k].attempts = jobs[k].attempts + 1
      /\ jobs'[k].max_attempts = jobs[k].max_attempts
  BY <1>1, <1>2, ClaimedRow DEF IndInv, TypeOK
<1>7. \A v \in Worker : Executing(v, k) => v \in evicted
  BY <1>2 DEF IndInv, LeaseHeld, Claimable, Renewable
<1>8. \A v \in Worker : (v # w /\ worker[v].job = k) => ~Renewable(jobs'[k], Owner(v))
  BY <1>2, <1>6, BusyJob, OwnerUnique DEF IndInv, Renewable, GoroutineConsistent
<1>9. TypeOK'
  BY <1>1, <1>3, <1>6 DEF IndInv, TypeOK
<1>10. \A i \in Job : RowConsistent(jobs[i])'
  BY <1>6 DEF IndInv, RowConsistent
<1>11. TokensUnique'
  <2>1. ASSUME NEW i \in Slot, NEW n \in 0..MaxPool, jobs'[k].locked_by = <<i, n>>
        PROVE  n <= pools
    BY <1>6, <2>1, WorkerParts DEF Owner, IndInv, TokensUnique
  <2> QED
    BY <1>1, <1>6, <2>1 DEF IndInv, TokensUnique, Up
<1>12. \A v \in Worker : GoroutineConsistent(v)'
  BY <1>1, <1>2, <1>3, <1>4 DEF IndInv, GoroutineConsistent, Up, ServerOf
<1>13. \A v \in Worker : worker'[v].pc = "tx" => v # w /\ worker[v].job # k /\ worker[v].job \in Job
  BY <1>1, <1>3, <1>4, BusyJob DEF IndInv, ClaimIsolated
<1>14. ClaimIsolated'
  BY <1>4, <1>6, <1>13 DEF IndInv, ClaimIsolated, Claimable
<1>15. LeaseHeld'
  BY <1>1, <1>3, <1>4, <1>5, <1>6, <1>7 DEF IndInv, LeaseHeld, Executing, Renewable
<1>16. AtMostOneExecutor'
  BY <1>1, <1>3, <1>4, <1>7 DEF IndInv, AtMostOneExecutor, Executing
<1>17. EvictedHasNoAuthority'
  <2> SUFFICES ASSUME NEW v \in evicted', Holds(v)' PROVE FALSE
    BY DEF EvictedHasNoAuthority
  <2>1. v \in Worker /\ v \in evicted /\ v # w
    BY <1>1, <1>2 DEF IndInv, TypeOK
  <2>2. worker'[v] = worker[v] /\ worker[v].job \in Job
    BY <1>4, <2>1, BusyJob DEF IndInv, GoroutineConsistent
  <2>3. Renewable(jobs'[worker[v].job], Owner(v))
    BY <1>5, <2>1, <2>2 DEF Holds, Renewable
  <2>4. worker[v].job # k
    BY <1>8, <2>1, <2>3
  <2> QED
    BY <1>6, <2>1, <2>2, <2>3, <2>4 DEF IndInv, EvictedHasNoAuthority, Holds, TypeOK, Goroutine
<1>18. SnapshotFresh'
  <2> SUFFICES ASSUME NEW v \in Worker, worker'[v].pc \in {"run", "result"}, Holds(v)'
               PROVE  /\ worker'[v].attempts = jobs'[worker'[v].job].attempts
                      /\ worker'[v].max_attempts = jobs'[worker'[v].job].max_attempts
    BY DEF SnapshotFresh
  <2>1. CASE v = w
    BY <1>3, <1>6, <2>1
  <2>2. CASE v # w
    <3>1. worker'[v] = worker[v] /\ worker[v].job \in Job
      BY <1>4, <2>2, BusyJob
    <3>2. Renewable(jobs'[worker[v].job], Owner(v))
      BY <1>5, <3>1 DEF Holds, Renewable
    <3>3. worker[v].job # k
      BY <1>8, <2>2, <3>2
    <3> QED
      BY <1>6, <3>1, <3>2, <3>3 DEF IndInv, SnapshotFresh, Holds
  <2> QED
    BY <2>1, <2>2
<1> QED
  BY <1>9, <1>10, <1>11, <1>12, <1>14, <1>15, <1>16, <1>17, <1>18 DEF IndInv

LEMMA SucceededRow ==
  ASSUME NEW row \in Row(Owners), RowConsistent(row), row.status = "running"
  PROVE  /\ Succeeded(row) \in Row(Owners)
         /\ RowConsistent(Succeeded(row))
         /\ Succeeded(row).status = "success"
         /\ Succeeded(row).locked_by = row.locked_by
  BY DEF Succeeded, Row, Status, RowConsistent

LEMMA FailedRow ==
  ASSUME NEW row \in Row(Owners), NEW attempts \in Nat, NEW max \in Nat,
         NEW delay \in {"past", "future"}
  PROVE  /\ Failed(row, attempts, max, delay) \in Row(Owners)
         /\ RowConsistent(Failed(row, attempts, max, delay))
         /\ Failed(row, attempts, max, delay).status \in {"dead", "pending"}
         /\ Failed(row, attempts, max, delay).locked_by = NULL
<1>1. CASE attempts >= max
  <2>1. Failed(row, attempts, max, delay) =
          [row EXCEPT !.status = "dead", !.run_after = "null",
                      !.locked_by = NULL, !.locked_until = "null"]
    BY <1>1 DEF Failed
  <2> QED
    BY <2>1 DEF Row, Status, Instant, RowConsistent
<1>2. CASE ~(attempts >= max)
  <2>1. Failed(row, attempts, max, delay) =
          [row EXCEPT !.status = "pending", !.run_after = delay,
                      !.locked_by = NULL, !.locked_until = "null"]
    BY <1>2 DEF Failed
  <2> QED
    BY <2>1 DEF Row, Status, Instant, RowConsistent
<1> QED
  BY <1>1, <1>2

\* The holder of a lease is the one executor that was not evicted.
LEMMA HolderFacts ==
  ASSUME IndInv, NEW w \in Worker, worker[w].pc = "result", Holds(w)
  PROVE  /\ w \notin evicted
         /\ worker[w].job \in Job
         /\ ~RowLocked(worker[w].job)
         /\ \A v \in Worker : v # w /\ Executing(v, worker[w].job) => v \in evicted
<1>1. w \notin evicted /\ worker[w].job \in Job
  BY BusyJob DEF IndInv, EvictedHasNoAuthority
<1>2. ~RowLocked(worker[w].job)
  BY <1>1, LockedPending DEF Holds, Renewable
<1>3. Executing(w, worker[w].job)
  BY DEF Executing
<1> QED
  BY <1>1, <1>2, <1>3 DEF IndInv, AtMostOneExecutor

\* The result is stored: the lease ends and the worker loops.
LEMMA VerdictInv ==
  ASSUME IndInv, NEW w \in Worker,
         RecordSuccess(w) \/ \E delay \in {"past", "future"} : RecordFailure(w, delay)
  PROVE  IndInv'
<1> DEFINE k == worker[w].job
<1>1. Loop(w)
  BY DEF RecordSuccess, RecordFailure
<1>2. worker[w].pc = "result" /\ k \in Job /\ k # NULL
  BY <1>1, BusyJob, ConstantsOK DEF Loop
<1>3. /\ jobs[k] \in Row(Owners)
      /\ RowConsistent(jobs[k])
      /\ worker[w] \in Goroutine
      /\ Owner(w) # NULL
  BY <1>2, OwnerType DEF IndInv, TypeOK
<1>4. Holds(w)
  BY <1>2, <1>3 DEF RecordSuccess, RecordFailure, Succeedable, Failable, Holds, Renewable,
                    RowConsistent
<1>5. /\ jobs' = [jobs EXCEPT ![k] = jobs'[k]]
      /\ jobs'[k] \in Row(Owners)
      /\ RowConsistent(jobs'[k])
      /\ jobs'[k].status \in {"success", "dead", "pending"}
      /\ jobs'[k].locked_by = jobs[k].locked_by \/ jobs'[k].locked_by = NULL
  <2>1. CASE RecordSuccess(w)
    <3>1. jobs' = [jobs EXCEPT ![k] = Succeeded(jobs[k])]
      BY <2>1 DEF RecordSuccess
    <3>2. jobs'[k] = Succeeded(jobs[k])
      BY <1>2, <3>1 DEF IndInv, TypeOK
    <3>3. jobs[k].status = "running"
      BY <1>4 DEF Holds, Renewable
    <3>4. /\ Succeeded(jobs[k]) \in Row(Owners)
          /\ RowConsistent(Succeeded(jobs[k]))
          /\ Succeeded(jobs[k]).status = "success"
          /\ Succeeded(jobs[k]).locked_by = jobs[k].locked_by
      BY <1>3, <3>3, SucceededRow
    <3>5. jobs' = [jobs EXCEPT ![k] = jobs'[k]]
      BY <3>1, <3>2
    <3> QED
      BY <3>2, <3>4, <3>5
  <2>2. CASE \E delay \in {"past", "future"} : RecordFailure(w, delay)
    <3>1. PICK delay \in {"past", "future"} : RecordFailure(w, delay)
      BY <2>2
    <3> DEFINE r == Failed(jobs[k], worker[w].attempts, worker[w].max_attempts, delay)
    <3>2. jobs' = [jobs EXCEPT ![k] = r]
      BY <3>1 DEF RecordFailure
    <3>3. worker[w].attempts \in Nat /\ worker[w].max_attempts \in Nat
      BY <1>3 DEF Goroutine
    <3>4. /\ r \in Row(Owners)
          /\ RowConsistent(r)
          /\ r.status \in {"dead", "pending"}
          /\ r.locked_by = NULL
      BY <1>3, <3>3, FailedRow, ZenonT(40)
    <3> HIDE DEF r
    <3>5. jobs'[k] = r
      BY <1>2, <3>2 DEF IndInv, TypeOK
    <3>6. jobs' = [jobs EXCEPT ![k] = jobs'[k]]
      BY <3>2, <3>5
    <3> QED
      BY <3>4, <3>5, <3>6
  <2> QED
    BY <2>1, <2>2
<1>6. /\ worker' = [worker EXCEPT ![w] = AtRest("idle")]
      /\ evicted' = evicted
      /\ UNCHANGED <<phase, pool, pools>>
  BY <1>1, <1>2, <1>4, HolderFacts, LoopRests DEF Loop
<1>7. /\ worker'[w].pc = "idle"
      /\ worker'[w].job = NULL
      /\ worker'[w].beat = "off"
      /\ \A v \in Worker : v # w => worker'[v] = worker[v]
  BY <1>6 DEF AtRest, IndInv, TypeOK
<1>8. \A j \in Job : j # k => jobs'[j] = jobs[j]
  BY <1>5 DEF IndInv, TypeOK
<1>9. \A v \in Worker : Owner(v)' = Owner(v)
  BY <1>6 DEF Owner, ServerOf
<1>10. \A v \in Worker : v # w /\ Executing(v, k) => v \in evicted
  BY <1>2, <1>4, HolderFacts
<1>11. TypeOK'
  BY <1>5, <1>6, RestType DEF IndInv, TypeOK
<1>12. \A j \in Job : RowConsistent(jobs[j])'
  BY <1>5, <1>8 DEF IndInv, RowConsistent
<1>13. TokensUnique'
  <2>1. \A i \in Slot, n \in 0..MaxPool : <<i, n>> # NULL
    BY ConstantsOK
  <2> QED
    BY <1>2, <1>5, <1>6, <1>8, <2>1, ZenonT(40) DEF IndInv, TokensUnique, Up
<1>14. \A v \in Worker : GoroutineConsistent(v)'
  BY <1>2, <1>4, <1>6, <1>7, BusyJob, HolderFacts DEF IndInv, GoroutineConsistent, Up, ServerOf
<1>15. ClaimIsolated'
  <2>1. \A v \in Worker : worker'[v].pc = "tx" =>
          v # w /\ worker[v].job # k /\ worker[v].job \in Job
    BY <1>2, <1>4, <1>7, BusyJob, HolderFacts DEF RowLocked
  <2> QED
    BY <1>7, <1>8, <2>1 DEF IndInv, ClaimIsolated, Claimable
<1>16. LeaseHeld'
  BY <1>6, <1>7, <1>8, <1>9, <1>10 DEF IndInv, LeaseHeld, Executing, Renewable
<1>17. AtMostOneExecutor'
  BY <1>6, <1>7 DEF IndInv, AtMostOneExecutor, Executing
<1>18. \A v \in Worker : (worker'[v].pc \in {"run", "result"} /\ Holds(v)') =>
         v # w /\ Holds(v) /\ worker[v].job \in Job /\ worker[v].job # k
  BY <1>5, <1>7, <1>8, <1>9, BusyJob DEF Holds, Renewable
<1>19. SnapshotFresh'
  BY <1>7, <1>8, <1>18 DEF IndInv, SnapshotFresh
<1>20. EvictedHasNoAuthority'
  BY <1>6, <1>14, <1>18 DEF IndInv, TypeOK, EvictedHasNoAuthority, GoroutineConsistent
<1> QED
  BY <1>11, <1>12, <1>13, <1>14, <1>15, <1>16, <1>17, <1>19, <1>20 DEF IndInv

\* The sweep ends expired leases, and whoever runs such a job is evicted.
LEMMA ReapInv ==
  ASSUME IndInv, Reap
  PROVE  IndInv'
<1>1. /\ UNCHANGED <<phase, pool, pools, worker>>
      /\ evicted' = evicted \cup
           {w \in Worker : \E j \in Job : Executing(w, j) /\ Reapable(jobs[j])}
      /\ jobs' = [j \in Job |-> IF Reapable(jobs[j]) THEN Reaped(jobs[j]) ELSE jobs[j]]
  BY DEF Reap
<1>2. \A j \in Job :
        /\ jobs'[j] \in Row(Owners)
        /\ RowConsistent(jobs'[j])
        /\ \/ jobs'[j] = jobs[j] /\ ~Reapable(jobs[j])
           \/ /\ Reapable(jobs[j])
              /\ jobs'[j].status = "pending"
              /\ jobs'[j].locked_by = NULL
  <2> SUFFICES ASSUME NEW j \in Job
               PROVE  /\ jobs'[j] \in Row(Owners)
                      /\ RowConsistent(jobs'[j])
                      /\ \/ jobs'[j] = jobs[j] /\ ~Reapable(jobs[j])
                         \/ /\ Reapable(jobs[j])
                            /\ jobs'[j].status = "pending"
                            /\ jobs'[j].locked_by = NULL
    OBVIOUS
  <2>1. jobs[j] \in Row(Owners) /\ RowConsistent(jobs[j])
    BY DEF IndInv, TypeOK
  <2>2. CASE ~Reapable(jobs[j])
    BY <1>1, <2>1, <2>2
  <2>3. CASE Reapable(jobs[j])
    <3>1. jobs'[j] = Reaped(jobs[j])
      BY <1>1, <2>3
    <3> QED
      BY <2>1, <2>3, <3>1 DEF Row, Reaped, Reapable, RowConsistent, Status, Instant
  <2> QED
    BY <2>2, <2>3
<1>3. \A v \in Worker : Owner(v)' = Owner(v)
  BY <1>1 DEF Owner, ServerOf
<1>4. \A v \in Worker, j \in Job : Executing(v, j)' <=> Executing(v, j)
  BY <1>1 DEF Executing
<1>5. \A v \in Worker : (worker'[v].pc \in {"run", "result"} /\ Holds(v)') =>
        /\ Holds(v)
        /\ v \in evicted' => v \in evicted
        /\ jobs'[worker[v].job] = jobs[worker[v].job]
  <2> SUFFICES ASSUME NEW v \in Worker, worker[v].pc \in {"run", "result"}, Holds(v)'
               PROVE  /\ Holds(v)
                      /\ v \in evicted' => v \in evicted
                      /\ jobs'[worker[v].job] = jobs[worker[v].job]
    BY <1>1
  <2>1. worker[v].job \in Job /\ Renewable(jobs'[worker[v].job], Owner(v))
    BY <1>1, <1>3, BusyJob DEF Holds, Renewable
  <2>2. jobs'[worker[v].job] = jobs[worker[v].job] /\ ~Reapable(jobs[worker[v].job])
    BY <1>2, <2>1 DEF Renewable
  <2>3. \A j \in Job : Executing(v, j) => j = worker[v].job
    BY DEF Executing
  <2> QED
    BY <1>1, <1>3, <2>1, <2>2, <2>3 DEF Holds, Renewable
<1>6. TypeOK'
  BY <1>1, <1>2 DEF IndInv, TypeOK
<1>7. \A j \in Job : RowConsistent(jobs[j])'
  BY <1>2 DEF RowConsistent
<1>8. TokensUnique'
  <2>1. \A i \in Slot, n \in 0..MaxPool : <<i, n>> # NULL
    BY ConstantsOK
  <2> QED
    BY <1>1, <1>2, <2>1 DEF IndInv, TokensUnique, Up
<1>9. \A v \in Worker : GoroutineConsistent(v)'
  BY <1>1 DEF IndInv, GoroutineConsistent, Up, ServerOf, Executing
<1>10. ClaimIsolated'
  <2>1. \A v \in Worker : worker[v].pc = "tx" =>
          jobs'[worker[v].job] = jobs[worker[v].job]
    BY <1>2, BusyJob DEF IndInv, ClaimIsolated, Claimable, Reapable
  <2> QED
    BY <1>1, <2>1 DEF IndInv, ClaimIsolated, Claimable
<1>11. LeaseHeld'
  BY <1>1, <1>2, <1>3, <1>4 DEF IndInv, LeaseHeld, Renewable
<1>12. AtMostOneExecutor'
  BY <1>1, <1>4 DEF IndInv, AtMostOneExecutor
<1>13. SnapshotFresh'
  BY <1>1, <1>5 DEF IndInv, SnapshotFresh
<1>14. EvictedHasNoAuthority'
  <2> SUFFICES ASSUME NEW v \in evicted', Holds(v)' PROVE FALSE
    BY DEF EvictedHasNoAuthority
  <2>1. v \in Worker /\ worker'[v].pc \in {"run", "result"}
    BY <1>6, <1>9 DEF TypeOK, GoroutineConsistent
  <2> QED
    BY <1>5, <2>1 DEF IndInv, EvictedHasNoAuthority
<1> QED
  BY <1>6, <1>7, <1>8, <1>9, <1>10, <1>11, <1>12, <1>13, <1>14 DEF IndInv

-----------------------------------------------------------------------------
(* The steps of a process.                                                 *)

LEMMA DrainInv ==
  ASSUME IndInv, NEW s \in Server, Signal(s) \/ DrainDeadline(s)
  PROVE  IndInv'
<1>1. /\ UNCHANGED <<jobs, pool, pools, evicted>>
      /\ phase[s] \in {"serving", "draining"}
      /\ \/ phase' = [phase EXCEPT ![s] = "draining"]
         \/ phase' = [phase EXCEPT ![s] = "aborting"]
  BY DEF Signal, DrainDeadline
<1>2. phase' \in [Server -> Phase] /\ \A t \in Server : Up(t)' <=> Up(t)
  BY <1>1 DEF IndInv, TypeOK, Phase, Up
<1>3. /\ worker' = [v \in Worker |-> worker'[v]]
      /\ \A v \in Worker : \/ worker'[v] = worker[v]
                           \/ worker'[v] = [worker[v] EXCEPT !.ctx = FALSE]
  BY DEF Signal, DrainDeadline, IndInv, TypeOK
<1>4. \A v \in Worker : QuietGoroutine(v)
  <2> SUFFICES ASSUME NEW v \in Worker PROVE QuietGoroutine(v)
    OBVIOUS
  <2>1. worker[v] \in Goroutine
    BY DEF IndInv, TypeOK
  <2>2. CASE worker'[v] = worker[v]
    BY <1>1, <2>2, SameGoroutine
  <2>3. CASE worker'[v] = [worker[v] EXCEPT !.ctx = FALSE]
    BY <1>1, <2>1, <2>3 DEF QuietGoroutine, Goroutine
  <2> QED
    BY <1>3, <2>2, <2>3
<1>5. \A j \in Job : QuietRow(j)
  BY <1>1, SameRow
<1>6. jobs' = [j \in Job |-> jobs'[j]] /\ evicted' \subseteq evicted
  BY <1>1 DEF IndInv, TypeOK
<1> QED
  BY <1>1, <1>2, <1>3, <1>4, <1>5, <1>6, QuietStep

\* A new pool gets a number no row and no other pool has.
LEMMA StartInv ==
  ASSUME IndInv, NEW s \in Server, Start(s)
  PROVE  IndInv'
<1>1. /\ UNCHANGED <<jobs, evicted>>
      /\ ~Up(s)
      /\ pools < MaxPool
      /\ pools' = pools + 1
      /\ phase' = [phase EXCEPT ![s] = "serving"]
      /\ pool' = [pool EXCEPT ![s] = pools + 1]
      /\ worker' = [w \in Worker |-> IF w \in WorkersOf(s) THEN AtRest("idle") ELSE worker[w]]
  BY DEF Start
<1>2. \A w \in Worker : ServerOf(w) = s => worker[w].pc = "stopped" /\ w \notin evicted
  BY <1>1 DEF IndInv, GoroutineConsistent
<1>3. \A w \in Worker :
        /\ ServerOf(w) = s => worker'[w] = AtRest("idle")
        /\ ServerOf(w) # s => worker'[w] = worker[w] /\ Owner(w)' = Owner(w)
  BY <1>1, WorkersOfMembers, WorkerParts DEF Owner, ServerOf, IndInv, TypeOK
<1>4. AtRest("idle").pc = "idle" /\ AtRest("idle").job = NULL /\ AtRest("idle").beat = "off"
  BY DEF AtRest
<1>5. \A w \in Worker : worker'[w].pc \notin {"idle"} =>
        worker'[w] = worker[w] /\ Owner(w)' = Owner(w)
  BY <1>3, <1>4
<1>6. /\ pools' \in 0..MaxPool
      /\ pool' \in [Server -> 0..MaxPool]
      /\ phase' \in [Server -> Phase]
  BY <1>1, ConstantsOK DEF IndInv, TypeOK, Phase
<1>7. TypeOK'
  BY <1>1, <1>6, RestType DEF IndInv, TypeOK
<1>8. \A j \in Job : RowConsistent(jobs[j])'
  BY <1>1 DEF IndInv, RowConsistent
<1>9. TokensUnique'
  <2>1. \A t \in Server : /\ pool'[t] <= pools'
                          /\ t # s => pool'[t] = pool[t] /\ (Up(t)' <=> Up(t))
                          /\ t # s => pool'[t] < pools'
                          /\ t = s => pool'[t] = pools'
    BY <1>1, ConstantsOK DEF IndInv, TypeOK, TokensUnique, Up
  <2>2. \A t, u \in Server : (t # u /\ Up(t)' /\ Up(u)') => pool'[t] # pool'[u]
    BY <2>1, <1>6 DEF IndInv, TokensUnique
  <2>3. \A j \in Job, i \in Slot, n \in 0..MaxPool :
          jobs'[j].locked_by = <<i, n>> => n <= pools'
    BY <1>1, <1>6 DEF IndInv, TypeOK, TokensUnique
  <2> QED
    BY <2>1, <2>2, <2>3 DEF TokensUnique, Up
<1>10. \A w \in Worker : GoroutineConsistent(w)'
  <2> SUFFICES ASSUME NEW w \in Worker PROVE GoroutineConsistent(w)'
    OBVIOUS
  <2>1. CASE ServerOf(w) = s
    BY <1>1, <1>2, <1>3, <1>4, <2>1 DEF GoroutineConsistent, Up, ServerOf, IndInv, TypeOK
  <2>2. CASE ServerOf(w) # s
    BY <1>1, <1>3, <2>2, WorkerParts DEF GoroutineConsistent, Up, ServerOf, IndInv, TypeOK
  <2> QED
    BY <2>1, <2>2
<1>11. ClaimIsolated'
  BY <1>1, <1>5 DEF IndInv, ClaimIsolated, Claimable
<1>12. LeaseHeld' /\ AtMostOneExecutor'
  BY <1>1, <1>5 DEF IndInv, LeaseHeld, AtMostOneExecutor, Executing, Renewable
<1>13. EvictedHasNoAuthority'
  <2> SUFFICES ASSUME NEW w \in evicted', Holds(w)' PROVE FALSE
    BY DEF EvictedHasNoAuthority
  <2>1. w \in Worker /\ w \in evicted /\ worker'[w] = worker[w] /\ Owner(w)' = Owner(w)
    BY <1>1, <1>2, <1>3 DEF IndInv, TypeOK
  <2> QED
    BY <1>1, <2>1 DEF IndInv, EvictedHasNoAuthority, Holds, Renewable
<1>14. SnapshotFresh'
  BY <1>1, <1>5 DEF IndInv, SnapshotFresh, Holds, Renewable
<1> QED
  BY <1>7, <1>8, <1>9, <1>10, <1>11, <1>12, <1>13, <1>14 DEF IndInv

\* A process that ends takes its goroutines along and leaves the table.
LEMMA EndInv ==
  ASSUME IndInv, NEW s \in Server, Exit(s) \/ Crash(s)
  PROVE  IndInv'
<1>1. /\ UNCHANGED <<jobs, pool, pools>>
      /\ phase' = [phase EXCEPT ![s] = "down"]
  BY DEF Exit, Crash
<1>2. \A w \in Worker :
        \/ worker'[w] = worker[w] /\ (w \in evicted' <=> w \in evicted)
        \/ worker'[w] = AtRest("stopped") /\ w \notin evicted'
  BY DEF Exit, Crash, IndInv, TypeOK
<1>3. \A w \in Worker : ServerOf(w) = s => worker'[w].pc = "stopped" /\ w \notin evicted'
  BY WorkersOfMembers DEF Exit, Crash, AtRest, IndInv, GoroutineConsistent
<1>4. AtRest("stopped").pc = "stopped" /\ AtRest("stopped").job = NULL
        /\ AtRest("stopped").beat = "off"
  BY DEF AtRest
<1>5. \A w \in Worker : Owner(w)' = Owner(w)
  BY <1>1 DEF Owner, ServerOf
<1>6. \A w \in Worker : worker'[w].pc # "stopped" =>
        worker'[w] = worker[w] /\ (w \in evicted' <=> w \in evicted)
  BY <1>2, <1>4
<1>7. evicted' \subseteq evicted
  BY DEF Exit, Crash
<1>8. TypeOK'
  <2>1. worker' \in [Worker -> Goroutine]
    BY RestType DEF Exit, Crash, IndInv, TypeOK
  <2> QED
    BY <1>1, <1>7, <2>1 DEF IndInv, TypeOK, Phase
<1>9. \A j \in Job : RowConsistent(jobs[j])'
  BY <1>1 DEF IndInv, RowConsistent
<1>10. \A t \in Server : Up(t)' => Up(t)
  BY <1>1 DEF IndInv, TypeOK, Up
<1>11. TokensUnique'
  BY <1>1, <1>10 DEF IndInv, TokensUnique, Up
<1>12. \A w \in Worker : GoroutineConsistent(w)'
  <2> SUFFICES ASSUME NEW w \in Worker PROVE GoroutineConsistent(w)'
    OBVIOUS
  <2>1. ~Up(ServerOf(w))' => ~Up(ServerOf(w)) \/ ServerOf(w) = s
    BY <1>1, WorkerParts DEF Up, ServerOf, IndInv, TypeOK
  <2>2. ~Up(ServerOf(w))' => worker'[w].pc = "stopped"
    BY <1>2, <1>3, <1>4, <2>1 DEF IndInv, GoroutineConsistent
  <2> QED
    BY <1>2, <1>4, <2>2 DEF IndInv, GoroutineConsistent, ServerOf
<1>13. ClaimIsolated'
  BY <1>1, <1>6 DEF IndInv, ClaimIsolated, Claimable
<1>14. LeaseHeld' /\ AtMostOneExecutor'
  BY <1>1, <1>5, <1>6 DEF IndInv, LeaseHeld, AtMostOneExecutor, Executing, Renewable
<1>15. EvictedHasNoAuthority'
  <2> SUFFICES ASSUME NEW w \in evicted', Holds(w)' PROVE FALSE
    BY DEF EvictedHasNoAuthority
  <2>1. w \in Worker /\ w \in evicted /\ worker'[w] = worker[w]
    BY <1>2, <1>7 DEF IndInv, TypeOK
  <2> QED
    BY <1>1, <1>5, <2>1 DEF IndInv, EvictedHasNoAuthority, Holds, Renewable
<1>16. SnapshotFresh'
  BY <1>1, <1>5, <1>6 DEF IndInv, SnapshotFresh, Holds, Renewable
<1> QED
  BY <1>8, <1>9, <1>11, <1>12, <1>13, <1>14, <1>15, <1>16 DEF IndInv

-----------------------------------------------------------------------------
(* The theorems.                                                           *)

LEMMA NextInv == IndInv /\ [Next]_vars => IndInv'
<1> SUFFICES ASSUME IndInv, [Next]_vars PROVE IndInv'
  OBVIOUS
<1>1. ASSUME NEW w \in Worker, Goroutines(w) PROVE IndInv'
  BY <1>1, ClaimSelectInv, ClaimEndInv, ClaimRollbackInv, WorkerExitInv, HandlerReturnsInv,
     VerdictInv, RecordNothingInv, HeartbeatLocalInv, HeartbeatRenewInv
  DEF Goroutines, HandleResult
<1>2. ASSUME NEW j \in Job, Operator(j) \/ LeaseExpires(j) \/ BackoffElapses(j) PROVE IndInv'
  BY <1>2, EnqueueInv, CancelInv, RetryDeadInv, DeleteInv, LeaseExpiresInv, BackoffElapsesInv
  DEF Operator
<1>3. CASE Reap \/ DeleteAllDead
  BY <1>3, ReapInv, DeleteInv
<1>4. ASSUME NEW s \in Server, Process(s) PROVE IndInv'
  BY <1>4, StartInv, DrainInv, EndInv DEF Process
<1>5. CASE UNCHANGED vars
  <2>1. UNCHANGED <<jobs, phase, pool, pools, worker, evicted>>
    BY <1>5 DEF vars
  <2>2. /\ \A j \in Job : QuietRow(j)
        /\ \A w \in Worker : QuietGoroutine(w)
    BY <2>1, SameRow, SameGoroutine
  <2>3. /\ jobs' = [j \in Job |-> jobs'[j]]
        /\ worker' = [v \in Worker |-> worker'[v]]
        /\ phase' \in [Server -> Phase]
        /\ \A s \in Server : Up(s)' <=> Up(s)
    BY <2>1 DEF IndInv, TypeOK, Up
  <2> QED
    BY <2>1, <2>2, <2>3, QuietStep
<1> QED
  BY <1>1, <1>2, <1>3, <1>4, <1>5 DEF Next

\* The inductive invariant holds in every reachable state, however many jobs,
\* processes, goroutines, attempts and restarts there are.
THEOREM Invariance == Spec => []IndInv
  BY InitInv, NextInv, PTL DEF Spec

\* Every variable keeps its type.
THEOREM TypeCorrect == Spec => []TypeOK
<1>1. IndInv => TypeOK
  BY DEF IndInv
<1> QED
  BY <1>1, Invariance, PTL

\* Two executors of one job: the lease of one of them was reaped.
THEOREM MutualExclusion == Spec => []AtMostOneExecutor
<1>1. IndInv => AtMostOneExecutor
  BY DEF IndInv
<1> QED
  BY <1>1, Invariance, PTL

\* A worker whose lease was reaped never passes the fence again.
THEOREM FencingIsEffective == Spec => []EvictedHasNoAuthority
<1>1. IndInv => EvictedHasNoAuthority
  BY DEF IndInv
<1> QED
  BY <1>1, Invariance, PTL

\* A holder's copy of attempts and budget is the row's.
THEOREM SnapshotsAreFresh == Spec => []SnapshotFresh
<1>1. IndInv => SnapshotFresh
  BY DEF IndInv
<1> QED
  BY <1>1, Invariance, PTL

-----------------------------------------------------------------------------
(* What a step may do to the table, and nothing else: the same for every   *)
(* actor.  A failure is decided by the row's own attempts and budget.      *)

TableStep ==
  \/ jobs' = jobs
  \/ \E j \in Job, max \in 1..MaxAttempts :
       jobs[j].status = "unused" /\ jobs' = [jobs EXCEPT ![j] = Inserted(max)]
  \/ \E j \in Job, w \in Worker :
       Claimable(jobs[j]) /\ jobs' = [jobs EXCEPT ![j] = Claimed(jobs[j], Owner(w))]
  \/ \E j \in Job :
       \/ jobs[j].status = "running" /\ jobs' = [jobs EXCEPT ![j] = Renewed(jobs[j])]
       \/ LeaseExpires(j)
       \/ BackoffElapses(j)
       \/ jobs[j].status = "running" /\ jobs' = [jobs EXCEPT ![j] = Succeeded(jobs[j])]
       \/ \E delay \in {"past", "future"} :
            /\ jobs[j].status = "running"
            /\ jobs' = [jobs EXCEPT ![j] =
                 Failed(jobs[j], jobs[j].attempts, jobs[j].max_attempts, delay)]
       \/ Cancelable(jobs[j]) /\ jobs' = [jobs EXCEPT ![j] = Canceled(jobs[j])]
       \/ Retryable(jobs[j]) /\ jobs' = [jobs EXCEPT ![j] = Retried(jobs[j])]
       \/ Deletable(jobs[j]) /\ jobs' = [jobs EXCEPT ![j] = Deleted]
  \/ jobs' = [j \in Job |-> IF Reapable(jobs[j]) THEN Reaped(jobs[j]) ELSE jobs[j]]
  \/ jobs' = [j \in Job |-> IF Deletable(jobs[j]) THEN Deleted ELSE jobs[j]]

LEMMA TableSteps == IndInv /\ [Next]_vars => TableStep
<1> SUFFICES ASSUME IndInv, [Next]_vars PROVE TableStep
  OBVIOUS
<1>1. ASSUME NEW w \in Worker, Goroutines(w) PROVE TableStep
  <2>1. CASE \/ \E j \in Job : ClaimSelect(w, j)
             \/ ClaimRollback(w) \/ WorkerExit(w) \/ RecordNothing(w)
             \/ \E failed \in BOOLEAN : HandlerReturns(w, failed)
             \/ HeartbeatTick(w) \/ HeartbeatRefused(w) \/ HeartbeatExit(w)
    <3>1. jobs' = jobs
      BY <2>1 DEF ClaimSelect, ClaimRollback, WorkerExit, RecordNothing, HandlerReturns,
                  HeartbeatTick, HeartbeatRefused, HeartbeatExit
    <3> QED
      BY <3>1 DEF TableStep
  <2>2. CASE ClaimCommit(w) \/ ClaimCommitLost(w)
    <3>1. /\ worker[w].pc = "tx"
          /\ jobs' = [jobs EXCEPT ![worker[w].job] = Claimed(jobs[worker[w].job], Owner(w))]
      BY <2>2 DEF ClaimCommit, ClaimCommitLost
    <3>2. worker[w].job \in Job /\ Claimable(jobs[worker[w].job])
      BY <3>1, BusyJob DEF IndInv, ClaimIsolated
    <3> QED
      BY <3>1, <3>2 DEF TableStep
  <2>3. CASE HeartbeatRenewed(w) \/ HeartbeatRenewLost(w)
    <3>1. /\ worker[w].beat = "renew"
          /\ jobs[worker[w].job].status = "running"
          /\ jobs' = [jobs EXCEPT ![worker[w].job] = Renewed(jobs[worker[w].job])]
      BY <2>3 DEF HeartbeatRenewed, HeartbeatRenewLost, Renewable
    <3>2. worker[w].job \in Job
      BY <3>1, BusyJob DEF IndInv, GoroutineConsistent
    <3> QED
      BY <3>1, <3>2 DEF TableStep
  <2>4. CASE RecordSuccess(w)
    <3>1. /\ worker[w].pc = "result"
          /\ jobs[worker[w].job].status = "running"
          /\ jobs' = [jobs EXCEPT ![worker[w].job] = Succeeded(jobs[worker[w].job])]
      BY <2>4 DEF RecordSuccess, Loop, Succeedable
    <3>2. worker[w].job \in Job
      BY <3>1, BusyJob
    <3> QED
      BY <3>1, <3>2 DEF TableStep
  <2>5. ASSUME NEW delay \in {"past", "future"}, RecordFailure(w, delay) PROVE TableStep
    <3>1. /\ worker[w].pc = "result"
          /\ Failable(jobs[worker[w].job], Owner(w))
          /\ jobs' = [jobs EXCEPT ![worker[w].job] =
               Failed(jobs[worker[w].job], worker[w].attempts, worker[w].max_attempts, delay)]
      BY <2>5 DEF RecordFailure, Loop
    <3>2. worker[w].job \in Job
      BY <3>1, BusyJob
    <3>3. Holds(w)
      BY <3>1, <3>2, OwnerType, ConstantsOK
      DEF Failable, Holds, Renewable, IndInv, RowConsistent
    <3>4. /\ worker[w].attempts = jobs[worker[w].job].attempts
          /\ worker[w].max_attempts = jobs[worker[w].job].max_attempts
          /\ jobs[worker[w].job].status = "running"
      BY <3>1, <3>3 DEF IndInv, SnapshotFresh, Holds, Renewable
    <3> QED
      BY <3>1, <3>2, <3>4 DEF TableStep
  <2> QED
    BY <1>1, <2>1, <2>2, <2>3, <2>4, <2>5 DEF Goroutines, HandleResult
<1>2. ASSUME NEW j \in Job, Operator(j) \/ LeaseExpires(j) \/ BackoffElapses(j) PROVE TableStep
  BY <1>2 DEF Operator, Enqueue, Cancel, RetryDead, DeleteDead, TableStep
<1>3. CASE Reap \/ DeleteAllDead
  BY <1>3 DEF Reap, DeleteAllDead, TableStep
<1>4. ASSUME NEW s \in Server, Process(s) PROVE TableStep
  <2>1. jobs' = jobs
    BY <1>4 DEF Process, Start, Signal, DrainDeadline, Exit, Crash
  <2> QED
    BY <2>1 DEF TableStep
<1>5. CASE UNCHANGED vars
  BY <1>5 DEF vars, TableStep
<1> QED
  BY <1>1, <1>2, <1>3, <1>4, <1>5 DEF Next

\* The same, seen from one row.
RowMove(j) ==
  \/ jobs'[j] = jobs[j]
  \/ jobs[j].status = "unused" /\ \E max \in 1..MaxAttempts : jobs'[j] = Inserted(max)
  \/ Claimable(jobs[j]) /\ \E w \in Worker : jobs'[j] = Claimed(jobs[j], Owner(w))
  \/ jobs[j].status = "running" /\ jobs'[j] = Renewed(jobs[j])
  \/ jobs[j].status = "running" /\ jobs'[j] = [jobs[j] EXCEPT !.locked_until = "past"]
  \/ jobs[j].run_after = "future" /\ jobs'[j] = [jobs[j] EXCEPT !.run_after = "past"]
  \/ jobs[j].status = "running" /\ jobs'[j] = Succeeded(jobs[j])
  \/ /\ jobs[j].status = "running"
     /\ \E delay \in {"past", "future"} :
          jobs'[j] = Failed(jobs[j], jobs[j].attempts, jobs[j].max_attempts, delay)
  \/ Cancelable(jobs[j]) /\ jobs'[j] = Canceled(jobs[j])
  \/ Retryable(jobs[j]) /\ jobs'[j] = Retried(jobs[j])
  \/ Reapable(jobs[j]) /\ jobs'[j] = Reaped(jobs[j])
  \/ Deletable(jobs[j]) /\ jobs'[j] = Deleted

LEMMA RowMoves ==
  ASSUME jobs \in [Job -> Row(Owners)], TableStep, NEW j \in Job
  PROVE  RowMove(j)
  BY DEF TableStep, RowMove, LeaseExpires, BackoffElapses

\* Finished, canceled and deleted jobs stay as they are.
THEOREM FinalityOfTerminalJobs == Spec => TerminalIsFinal
<1>1. IndInv /\ [Next]_vars =>
        \A j \in Job : jobs[j].status \in {"success", "canceled", "deleted"} => jobs'[j] = jobs[j]
  <2> SUFFICES ASSUME IndInv, TableStep, NEW j \in Job,
                      jobs[j].status \in {"success", "canceled", "deleted"}
               PROVE  jobs'[j] = jobs[j]
    BY TableSteps
  <2>1. jobs \in [Job -> Row(Owners)] /\ RowConsistent(jobs[j])
    BY DEF IndInv, TypeOK
  <2> QED
    BY <2>1 DEF TableStep, Claimable, LeaseExpires, BackoffElapses, Cancelable, Retryable,
                Deletable, Reapable, RowConsistent
<1> QED
  BY <1>1, Invariance, PTL DEF Spec, TerminalIsFinal

\* Death follows from the row's own budget, and so does the return to the
\* queue, but for the reaper's.
THEOREM DeathByBudget == Spec => BudgetDecidesDeath
<1>1. IndInv /\ [Next]_vars => \A j \in Job :
        /\ (jobs[j].status = "running" /\ jobs'[j].status = "dead")
             => jobs[j].attempts >= jobs[j].max_attempts
        /\ (jobs[j].status = "running" /\ jobs'[j].status = "pending")
             => \/ jobs[j].attempts < jobs[j].max_attempts
                \/ jobs[j].locked_until = "past"
  <2> SUFFICES ASSUME IndInv, TableStep, NEW j \in Job, jobs[j].status = "running"
               PROVE  /\ jobs'[j].status = "dead" => jobs[j].attempts >= jobs[j].max_attempts
                      /\ jobs'[j].status = "pending"
                           => \/ jobs[j].attempts < jobs[j].max_attempts
                              \/ jobs[j].locked_until = "past"
    BY TableSteps
  <2>1. jobs[j] \in Row(Owners) /\ RowMove(j)
    BY RowMoves DEF IndInv, TypeOK
  <2>2. CASE \E delay \in {"past", "future"} :
               jobs'[j] = Failed(jobs[j], jobs[j].attempts, jobs[j].max_attempts, delay)
    <3>1. jobs[j].attempts \in Nat /\ jobs[j].max_attempts \in Nat
      BY <2>1 DEF Row
    <3>2. \/ jobs[j].attempts >= jobs[j].max_attempts
          \/ jobs[j].attempts < jobs[j].max_attempts /\ ~(jobs[j].attempts >= jobs[j].max_attempts)
      BY <3>1
    <3>3. jobs'[j].status = IF jobs[j].attempts >= jobs[j].max_attempts THEN "dead" ELSE "pending"
      BY <2>1, <2>2 DEF Failed, Row
    <3> QED
      BY <3>2, <3>3
  <2>3. CASE Reapable(jobs[j]) /\ jobs'[j] = Reaped(jobs[j])
    BY <2>1, <2>3 DEF Reapable, Reaped, Row
  <2>4. CASE \/ jobs'[j] = jobs[j]
             \/ jobs'[j] = Renewed(jobs[j])
             \/ jobs'[j] = [jobs[j] EXCEPT !.locked_until = "past"]
             \/ jobs'[j] = [jobs[j] EXCEPT !.run_after = "past"]
             \/ jobs'[j] = Succeeded(jobs[j])
             \/ jobs'[j] = Canceled(jobs[j])
    <3>1. jobs'[j].status \in {"running", "success", "canceled"}
      BY <2>1, <2>4 DEF Renewed, Succeeded, Canceled, Row
    <3> QED
      BY <3>1
  <2> QED
    BY <2>1, <2>2, <2>3, <2>4 DEF RowMove, Claimable, Retryable, Deletable
<1> QED
  BY <1>1, Invariance, PTL DEF Spec, BudgetDecidesDeath

\* An unexpired lease ends by an operator's cancellation or by the hand of its
\* holder, who is then done with the job.
LEMMA EndedByHolder ==
  ASSUME IndInv, [Next]_vars, NEW j \in Job,
         jobs[j].status = "running", jobs[j].locked_until = "future",
         jobs'[j].status \notin {"running", "canceled"}
  PROVE  \E v \in Worker : Holds(v) /\ worker[v].job = j /\ worker[v].pc = "result"
                             /\ worker'[v].pc = "idle"
<1>1. jobs \in [Job -> Row(Owners)] /\ jobs[j] \in Row(Owners)
  BY DEF IndInv, TypeOK
<1>2. ASSUME NEW v \in Worker, Goroutines(v)
      PROVE  Holds(v) /\ worker[v].job = j /\ worker[v].pc = "result" /\ worker'[v].pc = "idle"
  <2>1. ~(ClaimCommit(v) \/ ClaimCommitLost(v))
    <3>1. SUFFICES ASSUME ClaimCommit(v) \/ ClaimCommitLost(v) PROVE FALSE
      OBVIOUS
    <3>2. worker[v].pc = "tx" /\ worker[v].job # j
      BY <3>1, LockedPending DEF ClaimCommit, ClaimCommitLost, IndInv, ClaimIsolated, Claimable
    <3> QED
      BY <1>1, <3>1, <3>2 DEF ClaimCommit, ClaimCommitLost
  <2>2. ~(HeartbeatRenewed(v) \/ HeartbeatRenewLost(v))
    BY <1>1 DEF HeartbeatRenewed, HeartbeatRenewLost, Renewed, Row
  <2>3. ~(\/ \E i \in Job : ClaimSelect(v, i)
          \/ ClaimRollback(v) \/ WorkerExit(v) \/ RecordNothing(v)
          \/ \E failed \in BOOLEAN : HandlerReturns(v, failed)
          \/ HeartbeatTick(v) \/ HeartbeatRefused(v) \/ HeartbeatExit(v))
    BY DEF ClaimSelect, ClaimRollback, WorkerExit, RecordNothing, HandlerReturns,
           HeartbeatTick, HeartbeatRefused, HeartbeatExit
  <2>4. RecordSuccess(v) \/ \E delay \in {"past", "future"} : RecordFailure(v, delay)
    BY <1>2, <2>1, <2>2, <2>3 DEF Goroutines, HandleResult
  <2>5. Loop(v) /\ worker[v].job = j
    BY <1>1, <2>4 DEF RecordSuccess, RecordFailure
  <2>6. jobs[j].locked_by = Owner(v)
    BY <2>4, <2>5 DEF RecordSuccess, RecordFailure, Succeedable, Failable
  <2>7. worker'[v].pc = "idle"
    BY <2>5, LoopRests DEF AtRest, IndInv, TypeOK
  <2>8. j # NULL
    BY ConstantsOK
  <2> QED
    BY <2>5, <2>6, <2>7, <2>8 DEF Holds, Renewable, Loop
<1>3. ASSUME NEW i \in Job, Operator(i) \/ LeaseExpires(i) \/ BackoffElapses(i)
      PROVE  FALSE
  <2>1. CASE i # j
    <3>1. jobs'[j] = jobs[j]
      BY <1>1, <1>3, <2>1 DEF Operator, Enqueue, Cancel, RetryDead, DeleteDead, LeaseExpires,
                              BackoffElapses
    <3> QED
      BY <3>1
  <2>2. CASE i = j
    <3>1. ~(\E max \in 1..MaxAttempts : Enqueue(j, max)) /\ ~RetryDead(j) /\ ~DeleteDead(j)
      BY DEF Enqueue, RetryDead, Retryable, DeleteDead, Deletable
    <3>2. ~Cancel(j)
      BY <1>1 DEF Cancel, Canceled, Row
    <3>3. ~LeaseExpires(j) /\ ~BackoffElapses(j)
      BY <1>1 DEF LeaseExpires, BackoffElapses, Row
    <3> QED
      BY <1>3, <2>2, <3>1, <3>2, <3>3 DEF Operator
  <2> QED
    BY <2>1, <2>2
<1>4. ~(Reap \/ DeleteAllDead)
  BY <1>1 DEF Reap, Reapable, DeleteAllDead, Deletable
<1>5. ~(\E s \in Server : Process(s))
  BY DEF Process, Start, Signal, DrainDeadline, Exit, Crash
<1>6. ~UNCHANGED vars
  BY DEF vars
<1> QED
  BY <1>2, <1>3, <1>4, <1>5, <1>6 DEF Next

\* While it runs a job, a worker keeps it, and its token.
LEMMA ExecutorStays ==
  ASSUME IndInv, [Next]_vars, NEW w \in Worker,
         worker[w].pc \in {"run", "result"}, worker'[w].pc \in {"run", "result"}
  PROVE  worker'[w].job = worker[w].job /\ Owner(w)' = Owner(w)
<1>1. worker \in [Worker -> Goroutine] /\ worker[w] \in Goroutine
  BY DEF IndInv, TypeOK
<1>2. ASSUME NEW v \in Worker, Goroutines(v)
      PROVE  worker'[w].job = worker[w].job /\ Owner(w)' = Owner(w)
  <2>1. pool' = pool
    BY <1>2 DEF Goroutines, HandleResult, ClaimSelect, ClaimCommit, ClaimCommitLost,
       ClaimRollback, WorkerExit, HandlerReturns, Loop, RecordSuccess, RecordFailure,
       RecordNothing, HeartbeatTick, HeartbeatRenewed, HeartbeatRefused, HeartbeatRenewLost,
       HeartbeatExit
  <2>2. CASE v # w
    <3>1. worker'[w] = worker[w]
      BY <1>1, <1>2, <2>2 DEF Goroutines, HandleResult, ClaimSelect, ClaimCommit,
         ClaimCommitLost, ClaimRollback, WorkerExit, HandlerReturns, Loop, RecordSuccess,
         RecordFailure, RecordNothing, HeartbeatTick, HeartbeatRenewed, HeartbeatRefused,
         HeartbeatRenewLost, HeartbeatExit
    <3> QED
      BY <2>1, <3>1 DEF Owner, ServerOf
  <2>3. CASE v = w
    <3>1. ~(\E j \in Job : ClaimSelect(w, j)) /\ ~ClaimCommit(w) /\ ~ClaimCommitLost(w)
            /\ ~ClaimRollback(w) /\ ~WorkerExit(w)
      BY DEF ClaimSelect, ClaimCommit, ClaimCommitLost, ClaimRollback, WorkerExit
    <3>2. ~Loop(w)
      BY <1>1, LoopRests DEF AtRest
    <3>3. \/ \E failed \in BOOLEAN : HandlerReturns(w, failed)
          \/ HeartbeatTick(w) \/ HeartbeatRenewed(w) \/ HeartbeatRefused(w)
          \/ HeartbeatRenewLost(w) \/ HeartbeatExit(w)
      BY <1>2, <2>3, <3>1, <3>2
      DEF Goroutines, HandleResult, RecordSuccess, RecordFailure, RecordNothing
    <3>4. ASSUME \E failed \in BOOLEAN : HandlerReturns(w, failed)
          PROVE  worker'[w].job = worker[w].job
      BY <1>1, <3>4 DEF HandlerReturns, Goroutine
    <3>5. ASSUME HeartbeatTick(w) \/ HeartbeatRenewed(w)
          PROVE  worker'[w].job = worker[w].job
      BY <1>1, <3>5 DEF HeartbeatTick, HeartbeatRenewed, Goroutine
    <3>6. ASSUME HeartbeatRefused(w) \/ HeartbeatRenewLost(w) \/ HeartbeatExit(w)
          PROVE  worker'[w].job = worker[w].job
      BY <1>1, <3>6 DEF HeartbeatRefused, HeartbeatRenewLost, HeartbeatExit, Goroutine
    <3>7. worker'[w].job = worker[w].job
      BY <3>3, <3>4, <3>5, <3>6
    <3> QED
      BY <2>1, <3>7 DEF Owner, ServerOf
  <2> QED
    BY <2>2, <2>3
<1>3. ASSUME NEW s \in Server, Process(s)
      PROVE  worker'[w].job = worker[w].job /\ Owner(w)' = Owner(w)
  <2>1. CASE Start(s)
    <3>1. ServerOf(w) # s
      BY <2>1, BusyJob DEF Start
    <3> QED
      BY <1>1, <2>1, <3>1, WorkersOfMembers, WorkerParts
      DEF Start, Owner, ServerOf, IndInv, TypeOK
  <2>2. CASE Signal(s) \/ DrainDeadline(s) \/ Exit(s) \/ Crash(s)
    BY <1>1, <2>2 DEF Signal, DrainDeadline, Exit, Crash, AtRest, Owner, ServerOf, Goroutine
  <2> QED
    BY <1>3, <2>1, <2>2 DEF Process
<1>4. CASE worker' = worker /\ pool' = pool
  BY <1>4 DEF Owner, ServerOf
<1>5. ASSUME NEW j \in Job, Operator(j) \/ LeaseExpires(j) \/ BackoffElapses(j)
      PROVE  worker' = worker /\ pool' = pool
  BY <1>5 DEF Operator, Enqueue, Cancel, RetryDead, DeleteDead, LeaseExpires, BackoffElapses
<1> QED
  BY <1>2, <1>3, <1>4, <1>5 DEF Next, Reap, DeleteAllDead, vars

\* A live lease is lost to nobody but an operator who cancels the job.
THEOREM LeasesAreSafe == Spec => LeaseNotStolen
<1>1. ASSUME IndInv, [Next]_vars, NEW w \in Worker,
             worker[w].pc \in {"run", "result"}, Holds(w),
             jobs[worker[w].job].locked_until = "future",
             worker'[w].pc \in {"run", "result"}
      PROVE  Holds(w)' \/ jobs'[worker[w].job].status = "canceled"
  <2> DEFINE k == worker[w].job
  <2>1. /\ k \in Job
        /\ jobs \in [Job -> Row(Owners)]
        /\ jobs[k] \in Row(Owners)
        /\ Up(ServerOf(w))
    BY <1>1, BusyJob DEF IndInv, TypeOK
  <2>2. worker'[w].job = k /\ Owner(w)' = Owner(w)
    BY <1>1, ExecutorStays
  <2>3. jobs[k].status = "running" /\ jobs[k].locked_by = Owner(w)
    BY <1>1 DEF Holds, Renewable
  <2>4. jobs'[k].status \in {"running", "canceled"}
    <3> SUFFICES ASSUME jobs'[k].status \notin {"running", "canceled"} PROVE FALSE
      OBVIOUS
    <3>1. PICK v \in Worker : Holds(v) /\ worker[v].job = k /\ worker[v].pc = "result"
                                /\ worker'[v].pc = "idle"
      BY <1>1, <2>1, <2>3, EndedByHolder
    <3>2. Owner(v) = Owner(w) /\ Up(ServerOf(v))
      BY <1>1, <2>3, <3>1, BusyJob DEF Holds, Renewable
    <3>3. v = w
      BY <1>1, <2>1, <3>2, OwnerUnique DEF IndInv
    <3> QED
      BY <1>1, <3>1, <3>3
  <2>5. jobs'[k].status = "running" => jobs'[k].locked_by = jobs[k].locked_by
    <3>1. RowMove(k)
      BY <1>1, <2>1, TableSteps, RowMoves
    <3>2. RowConsistent(jobs[k])
      BY <1>1, <2>1 DEF IndInv
    <3>3. \/ jobs'[k] = jobs[k]
          \/ jobs'[k] = Renewed(jobs[k])
          \/ jobs'[k] = [jobs[k] EXCEPT !.locked_until = "past"]
          \/ jobs'[k] = Succeeded(jobs[k])
          \/ jobs'[k].status # "running"
      <4>1. ASSUME NEW delay \in {"past", "future"},
                   jobs'[k] = Failed(jobs[k], jobs[k].attempts, jobs[k].max_attempts, delay)
            PROVE  jobs'[k].status # "running"
        BY <2>1, <4>1 DEF Failed, Row
      <4>2. jobs'[k] = Canceled(jobs[k]) => jobs'[k].status # "running"
        BY <2>1 DEF Canceled, Row
      <4> HIDE DEF k
      <4> QED
        BY <2>3, <3>1, <3>2, <4>1, <4>2, <1>1
        DEF RowMove, Claimable, Retryable, Reapable, Deletable, RowConsistent, k
    <3> QED
      BY <2>1, <3>3 DEF Renewed, Succeeded, Row
  <2> QED
    BY <1>1, <2>1, <2>2, <2>3, <2>4, <2>5, ConstantsOK DEF Holds, Renewable
<1>2. IndInv /\ [Next]_vars =>
        \A w \in Worker :
          (/\ worker[w].pc \in {"run", "result"}
           /\ Holds(w)
           /\ jobs[worker[w].job].locked_until = "future"
           /\ worker'[w].pc \in {"run", "result"})
          => \/ Holds(w)'
             \/ jobs'[worker[w].job].status = "canceled"
  BY <1>1
<1> QED
  BY <1>2, Invariance, PTL DEF Spec, LeaseNotStolen
=============================================================================
