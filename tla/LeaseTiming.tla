------------------------------ MODULE LeaseTiming ------------------------------
(***************************************************************************)
(* How long a lease lasts, in numbers: one claim of one job, its heartbeat *)
(* with the ticker, its result, the reaper, and what is left behind when   *)
(* the claim ends badly.  LeaseQueue lets a lease expire at any moment and *)
(* is safe all the same; here is when it does not expire at all, and when  *)
(* at the latest an orphan comes back.                                     *)
(*                                                                         *)
(* Time is an integer.  It passes for everybody at once (Pass), and no     *)
(* further than the next deadline: a statement is answered in time, a      *)
(* ticker fires on time, a goroutine takes a tick that is there.  What a   *)
(* statement does, it does at any moment before it is answered.            *)
(***************************************************************************)
EXTENDS Integers

CONSTANTS Lease,     \* LEASE_DURATION_SECONDS
          Interval,  \* REAPER_INTERVAL_SECONDS
          Latency,   \* the longest a statement takes, with its wait for a connection
          ClaimTime  \* the longest from BEGIN in Claim to the start of the heartbeat

\* heartbeat's time.NewTicker(LeaseDuration / 3).
Period == Lease \div 3

\* A statement takes no longer than a heartbeat period, the reaper's no longer
\* than its interval, and a claim leaves time for two of them after the first
\* tick.  (With the default lease of 30 s: 10 s, and a claim no longer than 20 s
\* less two statements.)
ASSUME TimingOK ==
  /\ Lease \in Nat \ {0}
  /\ Interval \in Nat
  /\ Latency \in Nat \ {0}
  /\ ClaimTime \in Nat
  /\ Latency <= Period
  /\ Latency <= Interval
  /\ ClaimTime + Period + 2 * Latency <= Lease

\* Two sweeps that follow each other are no further apart: one is sent every
\* Interval, and takes effect within Latency.
SweepGap == Interval + Latency

VARIABLES pc,     \* the worker: "claim", "run", "result", "done", "gone"
          beat,   \* its heartbeat: "off", "wait", "sent", "answer"
          spent,  \* time since the statement of beat, or of pc, was sent
          tick,   \* time until the ticker fires
          full,   \* a tick waits in the ticker's channel
          row,    \* the job: "running", "pending", "over"
          lease,  \* locked_until - NOW()
          swept,  \* time since the last sweep
          lost    \* history: time since the worker was gone

vars == <<pc, beat, spent, tick, full, row, lease, swept, lost>>

\* NOW() is the time of BEGIN: the lease counts from there.  Nobody else can
\* take or sweep the row before COMMIT.
Init ==
  /\ pc = "claim"
  /\ beat = "off"
  /\ spent = 0
  /\ tick = 0
  /\ full = FALSE
  /\ row = "running"
  /\ lease = Lease
  /\ swept \in 0..SweepGap
  /\ lost = 0

-----------------------------------------------------------------------------

\* Fault: the heartbeat ticks once per lease.
StartsSlow ==
  /\ pc = "claim"
  /\ pc' = "run" /\ beat' = "wait" /\ tick' = Lease /\ spent' = 0
  /\ UNCHANGED <<full, row, lease, swept, lost>>

\* Claim returned; the heartbeat goroutine makes its ticker.
Starts ==
  /\ pc = "claim"
  /\ pc' = "run" /\ beat' = "wait" /\ tick' = Period /\ spent' = 0
  /\ UNCHANGED <<full, row, lease, swept, lost>>

TakesTick ==
  /\ beat = "wait" /\ pc = "run" /\ full
  /\ beat' = "sent" /\ full' = FALSE /\ spent' = 0
  /\ UNCHANGED <<pc, tick, row, lease, swept, lost>>

\* Fault: the lease is extended from where it ended.
RenewTakesEffectFromEnd ==
  /\ beat = "sent" /\ row = "running"
  /\ lease' = lease + Lease
  /\ beat' = IF pc = "gone" THEN "off" ELSE "answer"
  /\ UNCHANGED <<pc, spent, tick, full, row, swept, lost>>

\* Renew's UPDATE.  It may outlive the worker that sent it.
RenewTakesEffect ==
  /\ beat = "sent" /\ row = "running"
  /\ lease' = Lease
  /\ beat' = IF pc = "gone" THEN "off" ELSE "answer"
  /\ UNCHANGED <<pc, spent, tick, full, row, swept, lost>>

\* The answer, while the handler runs, and after jobCancel, when the UPDATE may
\* have been canceled before it did anything.  (Renew finds no row, or fails:
\* GivesUp.)
RenewAnswered ==
  /\ \/ beat = "answer"
     \/ beat = "sent" /\ pc = "result"
  /\ beat' = IF pc = "run" THEN "wait" ELSE "off"
  /\ spent' = 0
  /\ UNCHANGED <<pc, tick, full, row, lease, swept, lost>>

\* jobCancel; handleResult comes after the heartbeat's end.
HandlerReturns ==
  /\ pc = "run"
  /\ pc' = "result"
  /\ beat' = IF beat = "wait" THEN "off" ELSE beat
  /\ spent' = IF beat = "wait" THEN 0 ELSE spent
  /\ UNCHANGED <<tick, full, row, lease, swept, lost>>

\* MarkSuccess or MarkFailed.
ResultTakesEffect ==
  /\ pc = "result" /\ beat = "off"
  /\ pc' = "done"
  /\ row' = IF row = "running" THEN "over" ELSE row
  /\ UNCHANGED <<beat, spent, tick, full, lease, swept, lost>>

\* The process dies, Claim's COMMIT took effect but Claim failed, a renewal
\* fails, or the result is not stored: nobody renews the lease any more, but a
\* Renew that was sent may still take effect.  (A handler that ends after a
\* failed renewal may still store its result: then the row is over even sooner.)
GivesUp ==
  /\ pc \in {"claim", "run", "result"}
  /\ pc' = "gone"
  /\ beat' = IF beat = "sent" THEN "sent" ELSE "off"
  /\ UNCHANGED <<spent, tick, full, row, lease, swept, lost>>

\* The Renew of a dead worker never reached the database.
RenewLost ==
  /\ pc = "gone" /\ beat = "sent"
  /\ beat' = "off"
  /\ UNCHANGED <<pc, spent, tick, full, row, lease, swept, lost>>

\* locked_until < NOW().
Expired == lease < 0

\* A sweep of this process or another.
Reap ==
  /\ pc # "claim"
  /\ row' = IF row = "running" /\ Expired THEN "pending" ELSE row
  /\ swept' = 0
  /\ UNCHANGED <<pc, beat, spent, tick, full, lease, lost>>

-----------------------------------------------------------------------------
(* The passing of time.                                                    *)

\* Nothing is overdue.
MayPass ==
  /\ pc = "claim" => spent < ClaimTime
  /\ beat \in {"sent", "answer"} => spent < Latency
  /\ pc = "result" /\ beat = "off" => spent < Latency
  /\ ~(pc = "run" /\ beat = "wait" /\ full)
  /\ pc # "claim" => swept < SweepGap

\* A tick that nobody has taken yet is not followed by another.
Pass ==
  /\ MayPass
  /\ row = "running"
  /\ lease' = lease - 1
  /\ swept' = IF pc = "claim" /\ swept = SweepGap THEN swept ELSE swept + 1
  /\ lost' = IF pc = "gone" THEN lost + 1 ELSE lost
  /\ spent' = IF beat \in {"sent", "answer"} \/ pc \in {"claim", "result"}
              THEN spent + 1 ELSE spent
  /\ IF pc = "run"
     THEN /\ tick' = IF tick <= 1 THEN Period ELSE tick - 1
          /\ full' = (full \/ tick <= 1)
     ELSE UNCHANGED <<tick, full>>
  /\ UNCHANGED <<pc, beat, row>>

Next ==
  \/ Starts \/ TakesTick \/ RenewTakesEffect \/ RenewAnswered
  \/ HandlerReturns \/ ResultTakesEffect \/ GivesUp \/ RenewLost
  \/ Reap \/ Pass

Spec == Init /\ [][Next]_vars

-----------------------------------------------------------------------------

\* Every variable has its type.
TypeOK ==
  /\ pc \in {"claim", "run", "result", "done", "gone"}
  /\ beat \in {"off", "wait", "sent", "answer"}
  /\ spent \in Nat
  /\ tick \in Nat
  /\ full \in BOOLEAN
  /\ row \in {"running", "pending", "over"}
  /\ lease \in Int /\ lease <= Lease
  /\ swept \in 0..SweepGap
  /\ lost \in Nat

\* A worker that is only slow is never reaped, and its result is stored: from
\* the claim to the result the lease does not run out, however the ticks, the
\* renewals and the sweeps fall.
HealthyKeepsLease ==
  pc \in {"claim", "run", "result"} => row = "running" /\ lease >= 0

\* A job nobody looks after is pending again within a lease, a sweep interval
\* and two statements: the last renewal of the one who is gone, and the sweep.
OrphanBackInTime ==
  pc = "gone" /\ row = "running" => lost <= Lease + Latency + SweepGap
===============================================================================
