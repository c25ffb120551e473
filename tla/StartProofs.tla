----------------------------- MODULE StartProofs -----------------------------
(***************************************************************************)
(* Any number of instances start side by side without colliding, whatever  *)
(* they are configured with, and however many of them die over it.         *)
(***************************************************************************)
EXTENDS ServerStart, FiniteSetTheorems, FunctionTheorems, TLAPS

Migrating(i) == phase[i] \in {"create", "insert", "made", "kept"}

\* The advisory lock: who migrates holds it.
LockHeld == \A i \in Instance : Migrating(i) => locker = i

\* What a migration has found out about the table stays true.
TableKnown ==
  \A i \in Instance :
    /\ phase[i] \in {"insert", "made"} => ~table
    /\ phase[i] \in {"kept", "on"} => table

\* Who runs has loaded a configuration; who does not has no goroutines.
Loaded ==
  \A i \in Instance :
    /\ phase[i] # "down" => ~LoadFails(env)
    /\ phase[i] # "on" => up[i] = {}

IInv == TypeOK /\ LockHeld /\ TableKnown /\ Loaded /\ MigrationsDontCollide

LEMMA InitInv == Init => IInv
<1> SUFFICES ASSUME Init PROVE IInv
  OBVIOUS
<1>1. table \in BOOLEAN /\ ~table
  BY Zenon DEF Init
<1>2. /\ phase \in [Instance -> Phase]
      /\ up \in [Instance -> SUBSET {"reaper", "http"}]
      /\ work \in [Instance -> {"idle", "claimed", "beating"}]
      /\ cause \in [Instance -> {"none", "kill", "fatal", "panic", "duplicate"}]
  BY DEF Init, Phase
<1>3. job \in Job /\ faults \in 0..FaultLimit
  BY StartConstantsOK DEF Init, Job
<1>4. TypeOK
  BY <1>1, <1>2, <1>3 DEF Init, TypeOK
<1>5. \A i \in Instance : phase[i] = "down" /\ up[i] = {} /\ cause[i] = "none"
  BY DEF Init
<1> QED
  BY <1>4, <1>5 DEF IInv, LockHeld, Migrating, TableKnown, Loaded, MigrationsDontCollide

\* The end of a process, whatever it does to the table it was making.
LEMMA DyingKeeps ==
  ASSUME IInv, NEW i \in Instance, NEW why \in {"kill", "fatal", "panic"},
         Dies(i, why), faults' \in 0..FaultLimit, table' \in BOOLEAN,
         table => table', table' => table \/ phase[i] = "made"
  PROVE  IInv'
<1>1. /\ env' = env /\ phase' = [phase EXCEPT ![i] = "down"]
      /\ up' = [up EXCEPT ![i] = {}] /\ cause' = [cause EXCEPT ![i] = why]
      /\ locker' = IF locker = i THEN Orphan ELSE locker
  BY DEF Dies
<1>2. TypeOK'
  <2>1. job' \in Job
    BY DEF IInv, TypeOK, Job, Dies
  <2>2. work' \in [Instance -> {"idle", "claimed", "beating"}]
    BY DEF IInv, TypeOK, Dies
  <2> QED
    BY <1>1, <2>1, <2>2 DEF IInv, TypeOK, Phase
<1>3. \A j \in Instance : /\ j # i => phase'[j] = phase[j] /\ up'[j] = up[j] /\ cause'[j] = cause[j]
                          /\ phase'[i] = "down" /\ up'[i] = {} /\ cause'[i] = why
  BY <1>1 DEF IInv, TypeOK
<1>4. LockHeld'
  BY <1>1, <1>3 DEF IInv, LockHeld, Migrating
<1>5. TableKnown'
  <2>1. \A j \in Instance : j # i /\ phase[j] \in {"insert", "made"} => phase[i] # "made"
    BY DEF IInv, LockHeld, Migrating
  <2> QED
    BY <1>3, <2>1 DEF IInv, TableKnown
<1>6. Loaded' /\ MigrationsDontCollide'
  BY <1>1, <1>3 DEF IInv, Loaded, MigrationsDontCollide
<1> QED
  BY <1>2, <1>4, <1>5, <1>6 DEF IInv

\* A step that starts, migrates or ends nothing.
LEMMA RunningKeeps ==
  ASSUME IInv, TypeOK', UNCHANGED <<env, phase, cause, table, locker>>,
         \A i \in Instance : phase[i] # "on" => up'[i] = {}
  PROVE  IInv'
BY DEF IInv, LockHeld, Migrating, TableKnown, Loaded, MigrationsDontCollide

\* A step of main: only its own phase changes.
LEMMA MovesType ==
  ASSUME IInv, NEW i \in Instance, NEW from, NEW to \in Phase, Goes(i, from, to)
  PROVE  /\ phase' \in [Instance -> Phase]
         /\ phase[i] = from /\ phase'[i] = to
         /\ \A j \in Instance : j # i => phase'[j] = phase[j]
         /\ UNCHANGED <<env, up, work, cause, job, faults>>
BY DEF IInv, TypeOK, Goes

LEMMA MainKeeps == ASSUME IInv, NEW i \in Instance, Main(i) PROVE IInv'
<1> USE DEF Phase
<1>1. CASE Start(i)
  <2>1. CASE ~LoadFails(env) /\ Goes(i, "down", "ping") /\ UNCHANGED <<table, locker>>
    <3>1. /\ phase' \in [Instance -> Phase] /\ phase[i] = "down" /\ phase'[i] = "ping"
          /\ \A j \in Instance : j # i => phase'[j] = phase[j]
          /\ UNCHANGED <<env, up, work, cause, job, faults>>
      BY <2>1, MovesType
    <3> QED
      BY <2>1, <3>1 DEF IInv, TypeOK, LockHeld, Migrating, TableKnown, Loaded, MigrationsDontCollide
  <2>2. CASE Dies(i, "fatal") /\ UNCHANGED <<table, faults>>
    BY <2>2, DyingKeeps DEF IInv, TypeOK
  <2> QED
    BY <1>1, <2>1, <2>2 DEF Start
<1>2. CASE OpenDB(i)
  <2>1. /\ phase' \in [Instance -> Phase] /\ phase[i] = "ping" /\ phase'[i] = "lock"
        /\ \A j \in Instance : j # i => phase'[j] = phase[j]
        /\ UNCHANGED <<env, up, work, cause, job, faults>>
    BY <1>2, MovesType DEF OpenDB
  <2> QED
    BY <1>2, <2>1 DEF OpenDB, IInv, TypeOK, LockHeld, Migrating, TableKnown, Loaded, MigrationsDontCollide
<1>3. CASE TakesLock(i)
  <2>1. /\ phase' \in [Instance -> Phase] /\ phase[i] = "lock" /\ phase'[i] = "create"
        /\ \A j \in Instance : j # i => phase'[j] = phase[j]
        /\ UNCHANGED <<env, up, work, cause, job, faults>>
    BY <1>3, MovesType DEF TakesLock
  <2>2. \A j \in Instance : ~Migrating(j)
    BY <1>3, StartConstantsOK DEF TakesLock, IInv, LockHeld
  <2> QED
    BY <1>3, <2>1, <2>2 DEF TakesLock, IInv, TypeOK, LockHeld, Migrating, TableKnown, Loaded, MigrationsDontCollide
<1>4. CASE LooksForTable(i)
  <2> DEFINE to == IF table THEN "kept" ELSE "insert"
  <2>1. /\ phase' \in [Instance -> Phase] /\ phase[i] = "create" /\ phase'[i] = to
        /\ \A j \in Instance : j # i => phase'[j] = phase[j]
        /\ UNCHANGED <<env, up, work, cause, job, faults>>
    BY <1>4, MovesType DEF LooksForTable
  <2> QED
    BY <1>4, <2>1 DEF LooksForTable, IInv, TypeOK, LockHeld, Migrating, TableKnown, Loaded, MigrationsDontCollide
<1>5. CASE EntersTable(i)
  <2>1. ~table
    BY <1>5 DEF EntersTable, IInv, TableKnown
  <2>2. Goes(i, "insert", "made") /\ UNCHANGED <<table, locker>>
    BY <1>5, <2>1 DEF EntersTable
  <2>3. /\ phase' \in [Instance -> Phase] /\ phase[i] = "insert" /\ phase'[i] = "made"
        /\ \A j \in Instance : j # i => phase'[j] = phase[j]
        /\ UNCHANGED <<env, up, work, cause, job, faults>>
    BY <2>2, MovesType
  <2> QED
    BY <2>1, <2>2, <2>3 DEF IInv, TypeOK, LockHeld, Migrating, TableKnown, Loaded, MigrationsDontCollide
<1>6. CASE Commits(i)
  <2>1. PICK p \in {"made", "kept"} : Goes(i, p, "on")
    BY <1>6 DEF Commits
  <2>2. /\ phase' \in [Instance -> Phase] /\ phase[i] = p /\ phase'[i] = "on"
        /\ \A j \in Instance : j # i => phase'[j] = phase[j]
        /\ UNCHANGED <<env, up, work, cause, job, faults>>
    BY <2>1, MovesType
  <2>3. locker = i /\ \A j \in Instance : j # i => ~Migrating(j)
    BY <2>2 DEF IInv, LockHeld, Migrating
  <2>4. table' \in BOOLEAN /\ table' /\ locker' = NoOne
    <3>1. table \/ phase[i] = "made"
      BY <2>2 DEF IInv, TableKnown
    <3> QED
      BY <1>6, <2>3, <3>1, Zenon DEF Commits, Released
  <2> QED
    BY <2>2, <2>3, <2>4 DEF IInv, TypeOK, LockHeld, Migrating, TableKnown, Loaded, MigrationsDontCollide
<1> QED
  BY <1>1, <1>2, <1>3, <1>4, <1>5, <1>6 DEF Main

LEMMA GoroutineKeeps ==
  ASSUME IInv, NEW i \in Instance, ReaperStarts(i) \/ Listens(i) PROVE IInv'
<1>1. UNCHANGED <<table, faults>> /\ phase[i] = "on"
  BY DEF ReaperStarts, Listens
<1>2. ASSUME NEW why \in {"fatal", "panic"}, Dies(i, why) PROVE IInv'
  BY <1>1, <1>2, DyingKeeps DEF IInv, TypeOK
<1>3. ASSUME NEW g \in {"reaper", "http"}, up' = [up EXCEPT ![i] = @ \cup {g}],
             UNCHANGED <<env, phase, work, cause, locker, job>>
      PROVE  IInv'
  <2>1. up' \in [Instance -> SUBSET {"reaper", "http"}]
    BY <1>3 DEF IInv, TypeOK
  <2>2. \A j \in Instance : phase[j] # "on" => up'[j] = {}
    BY <1>1, <1>3 DEF IInv, TypeOK, Loaded
  <2> QED
    BY <1>1, <1>3, <2>1, <2>2, RunningKeeps DEF IInv, TypeOK
<1> QED
  BY <1>2, <1>3 DEF ReaperStarts, Listens

\* The budget a request gets is a number, and positive.
LEMMA BudgetType ==
  ASSUME IInv, NEW i \in Instance, NEW asked \in {-1, 0}, Enqueue(i, asked)
  PROVE  Budget(asked) \in Nat \ {0}
<1>1. phase[i] = "on" /\ ~LoadFails(env) /\ 1 <= Budget(asked)
  BY DEF IInv, Loaded, Enqueue
<1>2. cfg.MaxAttempts = EnvInt(env, "MAX_ATTEMPTS", 5)
  BY DEF cfg, Load
<1>3. env["MAX_ATTEMPTS"] \in Int \cup {Unset}
  <2>1. env["MAX_ATTEMPTS"] # Garbage
    BY <1>1 DEF LoadFails, Numbers
  <2>2. env \in [Key -> Int \cup {Unset, Garbage}] /\ "MAX_ATTEMPTS" \in Key
    BY StartConstantsOK DEF IInv, TypeOK, Key, Numbers
  <2> QED
    BY <2>1, <2>2
<1>4. cfg.MaxAttempts \in Int
  BY <1>2, <1>3 DEF EnvInt
<1> QED
  BY <1>1, <1>4 DEF Budget, MaxBudget

LEMMA JobKeeps ==
  ASSUME IInv, NEW i \in Instance,
         (\E asked \in {-1, 0} : Enqueue(i, asked)) \/ Claim(i) \/ Worker(i) \/ Reap(i) \/ ResultLost(i)
  PROVE  IInv'
<1>1. ASSUME NEW j \in Job, RowBecomes(j), work' \in [Instance -> {"idle", "claimed", "beating"}]
      PROVE  IInv'
  BY <1>1, RunningKeeps DEF RowBecomes, IInv, TypeOK, Loaded
<1>2. ASSUME Dies(i, "panic"), UNCHANGED <<table, faults>> PROVE IInv'
  BY <1>2, DyingKeeps DEF IInv, TypeOK
<1>3. job \in Job /\ work \in [Instance -> {"idle", "claimed", "beating"}]
  BY DEF IInv, TypeOK
<1>4. ASSUME NEW asked \in {-1, 0}, Enqueue(i, asked) PROVE IInv'
  <2> DEFINE j == [job EXCEPT !.status = "pending", !.budget = Budget(asked)]
  <2>1. j \in Job
    BY <1>3, <1>4, BudgetType DEF Job
  <2> QED
    BY <1>1, <1>3, <1>4, <2>1 DEF Enqueue, Stored
<1>5. CASE Claim(i)
  <2> DEFINE j == [job EXCEPT !.status = "running", !.attempts = @ + 1, !.owner = i]
  <2>1. job.attempts + 1 \in Nat
    BY <1>3, <1>5, StartConstantsOK DEF Job, Claim
  <2>2. j \in Job
    BY <1>3, <2>1 DEF Job
  <2>3. RowBecomes(j) /\ work' \in [Instance -> {"idle", "claimed", "beating"}]
    BY <1>3, <1>5 DEF Claim
  <2> QED
    BY <1>1, <2>2, <2>3
<1>6. CASE HeartbeatStarts(i)
  <2>1. CASE HeartbeatPanics(cfg)
    BY <1>2, <1>6, <2>1 DEF HeartbeatStarts
  <2>2. CASE ~HeartbeatPanics(cfg)
    BY <1>1, <1>3, <1>6, <2>2 DEF HeartbeatStarts
  <2> QED
    BY <2>1, <2>2
<1>7. CASE HandlerFails(i)
  <2>1. Failed(i) \in Job
    BY <1>3 DEF Job, Failed
  <2>2. CASE BackoffPanics(cfg, job.attempts)
    BY <1>2, <1>7, <2>2 DEF HandlerFails
  <2>3. CASE ~BackoffPanics(cfg, job.attempts)
    BY <1>1, <1>3, <1>7, <2>1, <2>3 DEF HandlerFails
  <2> QED
    BY <2>2, <2>3
<1>8. CASE Reap(i)
  <2> DEFINE j == [job EXCEPT !.status = "pending", !.owner = NoOne]
  <2>1. j \in Job
    BY <1>3 DEF Job
  <2> QED
    BY <1>1, <1>3, <1>8, <2>1 DEF Reap
<1>9. CASE ResultLost(i)
  <2>1. /\ job' \in Job /\ work' \in [Instance -> {"idle", "claimed", "beating"}]
        /\ faults' \in 0..FaultLimit
        /\ UNCHANGED <<env, phase, up, cause, table, locker>>
    BY <1>3, <1>9, StartConstantsOK DEF IInv, TypeOK, ResultLost, Fault, Job
  <2> QED
    BY <2>1, RunningKeeps DEF IInv, TypeOK, Loaded
<1> QED
  BY <1>4, <1>5, <1>6, <1>7, <1>8, <1>9 DEF Worker

LEMMA FaultKeeps ==
  ASSUME IInv, NEW i \in Instance, Killed(i) \/ StatementFails(i) PROVE IInv'
<1>1. faults' \in 0..FaultLimit
  BY StartConstantsOK DEF Killed, StatementFails, Fault, IInv, TypeOK
<1>2. CASE Killed(i)
  BY <1>1, <1>2, DyingKeeps DEF Killed, IInv, TypeOK
<1>3. CASE StatementFails(i)
  <2>1. CASE UNCHANGED table
    BY <1>1, <1>3, <2>1, DyingKeeps DEF StatementFails, IInv, TypeOK
  <2>2. CASE phase[i] = "made" /\ table' = TRUE
    <3>1. table' \in BOOLEAN /\ table'
      BY <2>2, Zenon
    <3>2. Dies(i, "fatal")
      BY <1>3 DEF StatementFails
    <3> QED
      BY <1>1, <2>2, <3>1, <3>2, DyingKeeps
  <2> QED
    BY <1>3, <2>1, <2>2 DEF StatementFails
<1> QED
  BY <1>2, <1>3

LEMMA StepInv == IInv /\ [Next]_vars => IInv'
<1> SUFFICES ASSUME IInv, [Next]_vars PROVE IInv'
  OBVIOUS
<1>1. CASE OrphanEnds
  <2>1. locker = Orphan /\ locker' = NoOne /\ UNCHANGED <<env, phase, up, work, cause, table, job, faults>>
    BY <1>1 DEF OrphanEnds
  <2>2. \A i \in Instance : ~Migrating(i)
    BY <2>1, StartConstantsOK DEF IInv, LockHeld
  <2> QED
    BY <2>1, <2>2 DEF IInv, TypeOK, LockHeld, Migrating, TableKnown, Loaded, MigrationsDontCollide
<1>2. CASE UNCHANGED vars
  BY <1>2 DEF vars, IInv, TypeOK, LockHeld, Migrating, TableKnown, Loaded, MigrationsDontCollide
<1> QED
  BY <1>1, <1>2, MainKeeps, GoroutineKeeps, JobKeeps, FaultKeeps DEF Next

\* The lock, the table and the phases of the instances agree, always.
THEOREM Invariance == Spec => []IInv
BY InitInv, StepInv, PTL DEF Spec

\* Every variable keeps its type.
THEOREM TypeCorrect == Spec => []TypeOK
<1>1. IInv => TypeOK
  BY DEF IInv
<1> QED
  BY <1>1, Invariance, PTL

\* No instance fails because another one creates the table.
THEOREM NoCollision == Spec => []MigrationsDontCollide
<1>1. IInv => MigrationsDontCollide
  BY DEF IInv
<1> QED
  BY <1>1, Invariance, PTL

\* Workers start only when the table is there.
THEOREM TableFirst == Spec => []ServesOnTable
<1>1. IInv => ServesOnTable
  BY DEF IInv, TableKnown, ServesOnTable
<1> QED
  BY <1>1, Invariance, PTL

-----------------------------------------------------------------------------
(* A sound configuration does not panic.                                   *)

\* 2^n counts the subsets of 1..n,
LEMMA SubsetsOfInterval ==
  ASSUME NEW n \in Nat
  PROVE  IsFiniteSet(SUBSET (1..n)) /\ Cardinality(SUBSET (1..n)) = 2 ^ n
<1>1. IsFiniteSet(1..n) /\ Cardinality(1..n) = n
  BY FS_Interval
<1> QED
  BY <1>1, FS_SUBSET

\* so it is a number and not zero.
LEMMA PowerPositive == ASSUME NEW n \in Nat PROVE 2 ^ n \in Nat \ {0}
<1> DEFINE S == SUBSET (1..n)
<1>1. IsFiniteSet(S) /\ Cardinality(S) = 2 ^ n
  BY SubsetsOfInterval
<1>2. {} \in S
  OBVIOUS
<1> HIDE DEF S
<1>3. Cardinality(S) \in Nat /\ Cardinality(S) # 0
  BY <1>1, <1>2, FS_CardinalityType, FS_EmptySet
<1> QED
  BY <1>1, <1>3

LEMMA PowerZero == 2 ^ 0 = 1
<1>1. SUBSET {} = {{}}
  OBVIOUS
<1> QED
  BY <1>1, FS_EmptySet, FS_SUBSET, FS_Singleton

\* The subsets of 1..n+1 are those of 1..n, once without n+1 and once with it.
LEMMA PowerDoubles == ASSUME NEW n \in Nat PROVE 2 ^ (n + 1) = 2 * 2 ^ n
<1> DEFINE A == SUBSET (1..n)
           B == {s \in SUBSET (1..(n + 1)) : n + 1 \in s}
           f == [s \in A |-> s \cup {n + 1}]
<1>1. IsFiniteSet(A) /\ Cardinality(A) = 2 ^ n
  BY SubsetsOfInterval
<1>2. Cardinality(SUBSET (1..(n + 1))) = 2 ^ (n + 1)
  BY SubsetsOfInterval
<1>3. IsFiniteSet(B) /\ Cardinality(B) = Cardinality(A)
  <2>1. f \in [A -> B]
    OBVIOUS
  <2>2. \A s, t \in A : f[s] = f[t] => s = t
    <3> SUFFICES ASSUME NEW s \in A, NEW t \in A, s \cup {n + 1} = t \cup {n + 1}
                 PROVE  s = t
      OBVIOUS
    <3>1. n + 1 \notin s /\ n + 1 \notin t
      OBVIOUS
    <3> QED
      BY <3>1
  <2>3. \A t \in B : \E s \in A : f[s] = t
    <3> SUFFICES ASSUME NEW t \in B PROVE \E s \in A : f[s] = t
      OBVIOUS
    <3>1. t \ {n + 1} \in A /\ (t \ {n + 1}) \cup {n + 1} = t
      OBVIOUS
    <3> QED
      BY <3>1
  <2> HIDE DEF A, B, f
  <2>4. f \in Bijection(A, B)
    BY <2>1, <2>2, <2>3, Fun_IsBij
  <2>5. ExistsBijection(A, B)
    BY <2>4 DEF ExistsBijection
  <2> QED
    BY <1>1, <2>5, FS_Bijection
<1>4. A \cup B = SUBSET (1..(n + 1)) /\ A \cap B = {}
  OBVIOUS
<1> HIDE DEF A, B
<1>5. Cardinality(A \cup B) = Cardinality(A) + Cardinality(B) - Cardinality(A \cap B)
  BY <1>1, <1>3, FS_Union
<1>6. Cardinality(A \cap B) = 0
  BY <1>4, FS_EmptySet
<1> DEFINE p == 2 ^ n
<1>7. p \in Nat
  BY PowerPositive
<1> HIDE DEF p
<1>8. Cardinality(A \cup B) = 2 * p
  BY <1>1, <1>3, <1>5, <1>6, <1>7 DEF p
<1> QED
  BY <1>2, <1>4, <1>8 DEF p

\* A number has at least as many subsets as members,
LEMMA PowerGrows == ASSUME NEW n \in Nat PROVE n <= 2 ^ n
<1> DEFINE A == 1..n
           B == SUBSET (1..n)
           f == [x \in A |-> {x}]
<1>1. IsFiniteSet(B) /\ Cardinality(B) = 2 ^ n
  BY SubsetsOfInterval
<1>2. f \in Injection(A, B)
  <2>1. f \in [A -> B]
    OBVIOUS
  <2>2. \A x, y \in A : f[x] = f[y] => x = y
    OBVIOUS
  <2> HIDE DEF A, B, f
  <2> QED
    BY <2>1, <2>2, Fun_IsInj
<1>3. Cardinality(A) = n
  BY FS_Interval
<1> HIDE DEF A, B, f
<1> QED
  BY <1>1, <1>2, <1>3, FS_Injection

\* so that the doubling reaches every cap.
LEMMA CapIsReached ==
  ASSUME NEW base \in Nat \ {0}, NEW cap \in Nat
  PROVE  base * 2 ^ cap >= cap
<1> DEFINE p == 2 ^ cap
<1>1. p \in Nat /\ cap <= p
  BY PowerPositive, PowerGrows
<1> HIDE DEF p
<1>2. base * p >= p
  <2>1. base * p = (base - 1) * p + p
    BY <1>1
  <2>2. \A a, b \in Nat : a * b \in Nat
    OBVIOUS
  <2>3. (base - 1) * p \in Nat
    BY <1>1, <2>2
  <2> DEFINE q == (base - 1) * p
  <2> HIDE DEF q
  <2> QED
    BY <1>1, <2>1, <2>3 DEF q
<1> QED
  BY <1>1, <1>2 DEF p

\* The bound of the backoff does not leave what rand.Int63n takes: it is at
\* least 1 and at most the cap, at every attempt, unless the cap itself is one
\* that no int64 holds once it was a float64.
LEMMA UpperInRange ==
  ASSUME NEW n \in Nat, NEW base \in Nat \ {0}, NEW cap \in Nat \ {0}
  PROVE  /\ cap < Word \div 2 - Edge => Upper(n, base, cap) \in 1..cap
         /\ Saturates => Upper(n, base, cap) \in 1..(Word \div 2 - 1)
<1> DEFINE p == 2 ^ n
<1>1. p \in Nat \ {0}
  BY PowerPositive
<1> HIDE DEF p
<1>2. base * p \in Nat \ {0}
  <2>1. \A a, b \in Nat \ {0} : a * b \in Nat \ {0}
    OBVIOUS
  <2> QED
    BY <1>1, <2>1
<1> DEFINE least == IF base * p > cap THEN cap ELSE base * p
<1>3. least \in 1..cap
  BY <1>2
<1>4. Upper(n, base, cap) = ToInt64(least)
  BY DEF Upper, p
<1> HIDE DEF least
<1> QED
  BY <1>3, <1>4, ConfigConstantsOK DEF ToInt64

\* FullJitterDelay's comment: "The first attempt (0) uses base delay; subsequent
\* attempts double the upper bound until cap."
THEOREM BackoffDoubles ==
  ASSUME NEW n \in Nat, NEW base \in Nat \ {0}, NEW cap \in Nat \ {0},
         cap < Word \div 2 - Edge
  PROVE  LET Capped(u) == IF u > cap THEN cap ELSE u
         IN  /\ Upper(0, base, cap) = Capped(base)
             /\ Upper(n + 1, base, cap) = Capped(2 * Upper(n, base, cap))
<1> DEFINE Capped(u) == IF u > cap THEN cap ELSE u
           p == 2 ^ n
<1> HIDE DEF p
<1>0. \A u \in Int : Capped(u) \in Int /\ ToInt64(Capped(u)) = Capped(u)
  BY ConfigConstantsOK DEF ToInt64
<1>1. Upper(0, base, cap) = Capped(base)
  BY <1>0, PowerZero DEF Upper
<1>2. Upper(n + 1, base, cap) = Capped(2 * Upper(n, base, cap))
  <2>1. p \in Nat \ {0} /\ 2 ^ (n + 1) = 2 * p
    BY PowerPositive, PowerDoubles DEF p
  <2>2. Upper(n + 1, base, cap) = Capped(base * (2 * p)) /\ Upper(n, base, cap) = Capped(base * p)
    <3>1. \A a, b \in Nat : a * b \in Int /\ a * (2 * b) \in Int
      OBVIOUS
    <3> QED
      BY <1>0, <2>1, <3>1 DEF Upper, p
  <2>3. \A a, b \in Nat \ {0} : a * (2 * b) = 2 * (a * b) /\ a * b \in Nat \ {0}
    OBVIOUS
  <2>4. base * (2 * p) = 2 * (base * p) /\ base * p \in Nat \ {0}
    BY <2>1, <2>3
  <2> DEFINE u == base * p
  <2> HIDE DEF u
  <2>5. Capped(2 * u) = Capped(2 * Capped(u))
    BY <2>4 DEF u
  <2> QED
    BY <2>2, <2>4, <2>5 DEF u
<1> QED
  BY <1>1, <1>2

\* Sound describes the configurations with which claims work and no goroutine
\* panics at any attempt, neither more nor fewer of them: Load could refuse all
\* others, and need refuse no more.
THEOREM SoundIsExact ==
  ASSUME NEW k, k.LeaseDuration \in Int, k.ReaperInterval \in Int,
         k.RetryBase \in Int, k.RetryCap \in Int
  PROVE  Sound(k) <=> /\ CanClaim(k)
                      /\ ~HeartbeatPanics(k) /\ ~ReaperPanics(k)
                      /\ \A n \in Nat : ~BackoffPanics(k, n)
<1>1. ~HeartbeatPanics(k) <=> k.LeaseDuration >= 3
  BY DEF HeartbeatPanics
<1>2. ~ReaperPanics(k) <=> k.ReaperInterval > 0
  BY DEF ReaperPanics
<1>3. ASSUME k.RetryBase > 0, k.RetryCap > 0, Saturates \/ k.RetryCap < Word \div 2 - Edge,
             NEW n \in Nat
      PROVE  ~BackoffPanics(k, n)
  <2>1. k.RetryBase \in Nat \ {0} /\ k.RetryCap \in Nat \ {0}
    BY <1>3
  <2>2. \A base, cap \in Nat \ {0} :
          Saturates \/ cap < Word \div 2 - Edge => ~(Upper(n, base, cap) <= 0)
    BY UpperInRange, ConfigConstantsOK
  <2>3. ~(Upper(n, k.RetryBase, k.RetryCap) <= 0)
    BY <1>3, <2>1, <2>2, Zenon
  <2> QED
    BY <2>3 DEF BackoffPanics
<1>4. ASSUME ~BackoffPanics(k, 0) PROVE k.RetryBase > 0 /\ k.RetryCap > 0
  BY <1>4, PowerZero, ConfigConstantsOK DEF BackoffPanics, Upper, ToInt64
<1>5. ASSUME k.RetryBase > 0, k.RetryCap > 0, ~Saturates, ~(k.RetryCap < Word \div 2 - Edge)
      PROVE  k.RetryCap \in Nat /\ BackoffPanics(k, k.RetryCap)
  <2> DEFINE cap == k.RetryCap
             upper == k.RetryBase * 2 ^ cap
  <2>1. cap \in Nat /\ k.RetryBase \in Nat \ {0}
    BY <1>5
  <2>2. upper \in Int /\ upper >= cap
    <3>1. \A a, b \in Nat : a * b \in Int
      OBVIOUS
    <3> QED
      BY <2>1, <3>1, PowerPositive, CapIsReached
  <2> HIDE DEF upper
  <2>3. (IF upper > cap THEN cap ELSE upper) = cap
    BY <2>1, <2>2
  <2>4. Upper(cap, k.RetryBase, cap) = ToInt64(cap)
    BY <2>3 DEF Upper, upper
  <2>5. ToInt64(cap) <= 0
    BY <1>5, ConfigConstantsOK DEF ToInt64
  <2> QED
    BY <2>1, <2>4, <2>5 DEF BackoffPanics
<1> QED
  BY <1>1, <1>2, <1>3, <1>4, <1>5 DEF Sound

\* What Load makes of a duration is a number.
LEMMA DurationType ==
  ASSUME NEW n \in Int, NEW unit \in Nat \ {0} PROVE Duration(n, unit) \in Int
<1>1. \A a, b \in Int : a * b \in Int
  OBVIOUS
<1>2. n * unit \in Int
  BY <1>1
<1>3. \A a \in Int : ((a + Word \div 2) % Word) - Word \div 2 \in Int
  BY ConfigConstantsOK
<1> QED
  BY <1>2, <1>3 DEF Duration

LEMMA LoadType ==
  ASSUME IInv, ~LoadFails(env)
  PROVE  /\ cfg.LeaseDuration \in Int /\ cfg.ReaperInterval \in Int
         /\ cfg.RetryBase \in Int /\ cfg.RetryCap \in Int
<1>1. \A key \in Numbers : env[key] \in Int \cup {Unset}
  BY StartConstantsOK DEF IInv, TypeOK, Key, LoadFails
<1>2. \A key \in Numbers, n \in Int : EnvInt(env, key, n) \in Int
  BY <1>1 DEF EnvInt
<1>3. \A n \in Int : Duration(n, Second) \in Int /\ Duration(n, Milli) \in Int
  BY DurationType, ConfigConstantsOK
<1>4. \A key \in Numbers, n \in Int :
        /\ Duration(EnvInt(env, key, n), Second) \in Int
        /\ Duration(EnvInt(env, key, n), Milli) \in Int
  BY <1>2, <1>3, Zenon
<1>5. /\ Duration(EnvInt(env, "LEASE_DURATION_SECONDS", 30), Second) \in Int
      /\ Duration(EnvInt(env, "REAPER_INTERVAL_SECONDS", 5), Second) \in Int
      /\ Duration(EnvInt(env, "RETRY_BASE_MS", 1000), Milli) \in Int
      /\ Duration(EnvInt(env, "RETRY_CAP_MS", 60000), Milli) \in Int
  BY <1>4 DEF Numbers
<1> QED
  BY <1>5 DEF cfg, Load

LEMMA NothingPanics ==
  ASSUME IInv, ~LoadFails(env), Sound(cfg)
  PROVE  /\ ~ReaperPanics(cfg) /\ ~HeartbeatPanics(cfg)
         /\ \A n \in Nat : ~BackoffPanics(cfg, n)
  BY LoadType, SoundIsExact

LEMMA StepContained == IInv /\ BadJobIsContained /\ [Next]_vars => BadJobIsContained'
<1> SUFFICES ASSUME IInv, BadJobIsContained, [Next]_vars PROVE BadJobIsContained'
  OBVIOUS
<1> DEFINE Ends(i) == \E why \in {"kill", "fatal", "duplicate", "panic"} :
                        Dies(i, why) /\ (why = "panic" => ~(~LoadFails(env) /\ Sound(cfg)))
<1>1. /\ env' = env
      /\ cause' = cause \/ \E i \in Instance : Ends(i)
  <2>1. CASE OrphanEnds \/ UNCHANGED vars
    BY <2>1 DEF OrphanEnds, vars
  <2>2. ASSUME NEW i \in Instance, Main(i)
        PROVE  env' = env /\ (cause' = cause \/ Ends(i))
    BY <2>2 DEF Main, Start, OpenDB, TakesLock, LooksForTable, EntersTable, Commits, Goes, Dies
  <2>3. ASSUME NEW i \in Instance, ReaperStarts(i) \/ Listens(i)
        PROVE  env' = env /\ (cause' = cause \/ Ends(i))
    BY <2>3, NothingPanics DEF ReaperStarts, Listens, Dies
  <2>4. ASSUME NEW i \in Instance,
               \/ \E asked \in {-1, 0} : Enqueue(i, asked)
               \/ Claim(i) \/ Reap(i) \/ ResultLost(i)
        PROVE  env' = env /\ cause' = cause
    BY <2>4 DEF Enqueue, Stored, Claim, Reap, ResultLost, RowBecomes
  <2>5. ASSUME NEW i \in Instance, Worker(i)
        PROVE  env' = env /\ (cause' = cause \/ Ends(i))
    <3>1. job.attempts \in Nat
      BY DEF IInv, TypeOK, Job
    <3> QED
      BY <2>5, <3>1, NothingPanics DEF Worker, HeartbeatStarts, HandlerFails, RowBecomes, Dies
  <2>6. ASSUME NEW i \in Instance, Killed(i) \/ StatementFails(i)
        PROVE  env' = env /\ Ends(i)
    BY <2>6 DEF Killed, StatementFails, Dies
  <2> HIDE DEF Ends
  <2> QED
    BY <2>1, <2>2, <2>3, <2>4, <2>5, <2>6 DEF Next
<1>2. cfg' = cfg /\ (LoadFails(env)' <=> LoadFails(env))
  BY <1>1 DEF cfg
<1> SUFFICES ASSUME ~LoadFails(env), Sound(cfg), NEW j \in Instance
             PROVE  cause'[j] # "panic"
  BY <1>2 DEF BadJobIsContained
<1>3. cause[j] # "panic"
  BY DEF BadJobIsContained
<1>4. CASE \E i \in Instance : Ends(i)
  BY <1>3, <1>4 DEF Dies, IInv, TypeOK
<1> QED
  BY <1>1, <1>3, <1>4

\* Pool's comment, "a single bad job never takes down the pool": with a sound
\* configuration no goroutine panics, at whatever attempt.
THEOREM Contained == Spec => []BadJobIsContained
<1>1. Init => BadJobIsContained
  BY DEF Init, BadJobIsContained
<1> QED
  BY <1>1, StepContained, Invariance, PTL DEF Spec
===============================================================================
