----------------------------- MODULE Configuration -----------------------------
(***************************************************************************)
(* config.Load and what its values do: the backoff's bound, the tickers.   *)
(*                                                                         *)
(* An environment gives each key an integer, Unset, or Garbage (a text     *)
(* that is no integer; an address nobody can listen on).  A Duration is an *)
(* integer of Word values, and so are the products Load makes: nothing is  *)
(* checked for its sign or for overflow.                                   *)
(***************************************************************************)
EXTENDS Integers

CONSTANTS Unset, Garbage,
          Milli, Second,  \* time.Millisecond, time.Second
          Word,           \* 2^64
          Edge,           \* an int64 this close to 2^63 is 2^63 as a float64: 512
          Saturates       \* int64() of 2^63 is the largest int64 (arm64), not the
                          \* smallest (amd64)

ASSUME ConfigConstantsOK ==
  /\ Milli \in Nat \ {0} /\ Second \in Nat \ {0}
  /\ Word \in Nat /\ Word >= 4 /\ Word % 2 = 0
  /\ Edge \in 0..(Word \div 2 - 1)
  /\ Saturates \in BOOLEAN

\* A product of int64 wraps around.
Duration(n, unit) == ((n * unit + Word \div 2) % Word) - Word \div 2

Numbers == {"WORKER_COUNT", "LEASE_DURATION_SECONDS", "SHUTDOWN_DRAIN_SECONDS",
            "REAPER_INTERVAL_SECONDS", "AGING_DIVISOR_SECONDS", "MAX_ATTEMPTS",
            "RETRY_BASE_MS", "RETRY_CAP_MS"}

Key == Numbers \cup {"DATABASE_URL", "LISTEN_ADDR"}

EnvInt(env, key, def) == IF env[key] = Unset THEN def ELSE env[key]

LoadFails(env) ==
  env["DATABASE_URL"] = Unset \/ \E key \in Numbers : env[key] = Garbage

Load(env) ==
  [WorkerCount    |-> EnvInt(env, "WORKER_COUNT", 4),
   LeaseDuration  |-> Duration(EnvInt(env, "LEASE_DURATION_SECONDS", 30), Second),
   ShutdownDrain  |-> Duration(EnvInt(env, "SHUTDOWN_DRAIN_SECONDS", 60), Second),
   ReaperInterval |-> Duration(EnvInt(env, "REAPER_INTERVAL_SECONDS", 5), Second),
   AgingDivisor   |-> EnvInt(env, "AGING_DIVISOR_SECONDS", 600),
   MaxAttempts    |-> EnvInt(env, "MAX_ATTEMPTS", 5),
   RetryBase      |-> Duration(EnvInt(env, "RETRY_BASE_MS", 1000), Milli),
   RetryCap       |-> Duration(EnvInt(env, "RETRY_CAP_MS", 60000), Milli)]

\* Fault: the bound is computed in int64, and capped after that.
UpperInWord(attempt, base, cap) ==
  LET upper == Duration(base, 2 ^ attempt) IN IF upper > cap THEN cap ELSE upper

\* int64() of a float64: one that was rounded up to 2^63 does not fit.  Other
\* roundings to 53 bits are left out: they change no sign.
ToInt64(x) ==
  IF x < Word \div 2 - Edge THEN x
  ELSE IF Saturates THEN Word \div 2 - 1 ELSE -(Word \div 2)

\* FullJitterDelay's bound; the delay is drawn from 0..Upper-1.
Upper(attempt, base, cap) ==
  LET upper == base * 2 ^ attempt IN ToInt64(IF upper > cap THEN cap ELSE upper)

\* rand.Int63n panics unless its argument is positive.
BackoffPanics(cfg, attempt) == Upper(attempt, cfg.RetryBase, cfg.RetryCap) <= 0

\* time.NewTicker panics unless its argument is positive.
HeartbeatPanics(cfg) == cfg.LeaseDuration \div 3 <= 0

ReaperPanics(cfg) == cfg.ReaperInterval <= 0

\* A claim that finds a job divides by the divisor; without workers none does.
CanClaim(cfg) == cfg.WorkerCount > 0 /\ cfg.AgingDivisor # 0

\* NewHandler: the budget of a request that names none, and the largest one.
MaxBudget(cfg) == IF cfg.MaxAttempts < 1 THEN 5 ELSE cfg.MaxAttempts

\* A configuration with which everything works.
Sound(cfg) ==
  /\ CanClaim(cfg)
  /\ cfg.LeaseDuration >= 3 /\ cfg.ReaperInterval > 0
  /\ cfg.RetryBase > 0 /\ cfg.RetryCap > 0
  /\ Saturates \/ cfg.RetryCap < Word \div 2 - Edge
================================================================================
