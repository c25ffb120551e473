----------------------------- MODULE TimingProofs -----------------------------
(***************************************************************************)
(* The leases of LeaseTiming last, and orphans come back, for every lease, *)
(* interval, latency and claim time that TimingOK allows.                  *)
(***************************************************************************)
EXTENDS LeaseTiming, TLAPS

\* The claim is as old as its lease.
Claiming ==
  pc = "claim" => /\ beat = "off" /\ ~full
                  /\ spent <= ClaimTime /\ lease = Lease - spent

\* Before a tick is taken, two statements' time is left after it.
Waits ==
  pc = "run" /\ beat = "wait" =>
    /\ tick \in 1..Period
    /\ IF full THEN lease >= 2 * Latency /\ tick = Period
               ELSE lease >= 2 * Latency + tick

\* The next tick is a period after the one that was taken.
Ticks ==
  pc = "run" /\ beat \in {"sent", "answer"} =>
    IF full THEN tick = Period /\ spent = Latency
            ELSE tick >= 1 /\ tick + spent = Period

\* While Renew is under way, one statement's time is left after its end.
Renews ==
  pc \in {"run", "result"} =>
    /\ beat = "sent" => spent <= Latency /\ lease >= 2 * Latency - spent
    /\ beat = "answer" => spent <= Latency /\ lease >= Lease - spent

\* The result comes in time.
Stores ==
  /\ pc = "run" => beat # "off"
  /\ pc = "result" => beat # "wait"
  /\ pc = "result" /\ beat = "off" => spent <= Latency /\ lease >= Latency - spent

\* Only a Renew that was under way can still extend the lease of the lost.
Orphaned ==
  /\ pc # "gone" => lost = 0
  /\ pc = "gone" => beat \in {"off", "sent"}
  /\ pc = "gone" /\ beat = "sent" => lost <= spent /\ spent <= Latency
  /\ pc = "gone" /\ row = "running" => lost + lease <= Lease + Latency

\* The last sweep was before the lease ran out, or it would have seen it.
Sweeps ==
  /\ pc \in {"claim", "run", "result"} => row = "running"
  /\ row = "running" /\ lease < 0 => swept >= -lease

IInv == TypeOK /\ Claiming /\ Waits /\ Ticks /\ Renews /\ Stores /\ Orphaned /\ Sweeps

LEMMA Constants ==
  /\ Lease \in Nat /\ Interval \in Nat /\ Latency \in Nat /\ ClaimTime \in Nat
  /\ Period \in Nat /\ SweepGap \in Nat
  /\ 1 <= Latency /\ Latency <= Period
  /\ ClaimTime + Period + 2 * Latency <= Lease
BY TimingOK DEF TimingOK, Period, SweepGap

LEMMA InitInv == Init => IInv
<1> SUFFICES ASSUME Init PROVE IInv
  OBVIOUS
<1> USE Constants DEF Init
<1>0. full \in BOOLEAN /\ ~full
  BY Zenon
<1>1. TypeOK
  BY <1>0 DEF TypeOK
<1>2. Claiming /\ Orphaned /\ Sweeps
  BY DEF Claiming, Orphaned, Sweeps
<1>3. Waits /\ Ticks /\ Renews /\ Stores
  BY DEF Waits, Ticks, Renews, Stores
<1> QED
  BY <1>1, <1>2, <1>3 DEF IInv

LEMMA StepInv == IInv /\ [Next]_vars => IInv'
<1> SUFFICES ASSUME IInv, [Next]_vars PROVE IInv'
  OBVIOUS
<1> USE Constants DEF IInv, TypeOK, Claiming, Waits, Ticks, Renews, Stores, Orphaned, Sweeps
<1>1. CASE Starts
  BY <1>1 DEF Starts
<1>2. CASE TakesTick
  <2>1. full' \in BOOLEAN /\ ~full'
    BY <1>2, Zenon DEF TakesTick
  <2>2. /\ beat = "wait" /\ pc = "run" /\ full
        /\ beat' = "sent" /\ spent' = 0
        /\ UNCHANGED <<pc, tick, row, lease, swept, lost>>
    BY <1>2, Zenon DEF TakesTick
  <2> QED
    BY <2>1, <2>2
<1>3. CASE RenewTakesEffect
  BY <1>3 DEF RenewTakesEffect
<1>4. CASE RenewAnswered
  BY <1>4 DEF RenewAnswered
<1>5. CASE HandlerReturns
  BY <1>5 DEF HandlerReturns
<1>6. CASE ResultTakesEffect
  BY <1>6 DEF ResultTakesEffect
<1>7. CASE GivesUp
  BY <1>7 DEF GivesUp
<1>8. CASE RenewLost
  BY <1>8 DEF RenewLost
<1>9. CASE Reap
  BY <1>9 DEF Reap, Expired
<1>10. CASE Pass
  <2>1. CASE pc = "claim"
    BY <1>10, <2>1 DEF Pass, MayPass
  <2>2. CASE pc = "run" /\ beat = "wait"
    <3>1. full' \in BOOLEAN /\ (full' <=> tick <= 1)
      BY <1>10, <2>2 DEF Pass, MayPass
    <3> QED
      BY <1>10, <2>2, <3>1 DEF Pass, MayPass
  <2>3. CASE pc = "run" /\ beat \in {"sent", "answer"}
    <3>1. full' \in BOOLEAN /\ (full' <=> full \/ tick <= 1)
      BY <1>10, <2>3 DEF Pass, MayPass
    <3> QED
      BY <1>10, <2>3, <3>1 DEF Pass, MayPass
  <2>4. CASE pc \in {"result", "done", "gone"}
    BY <1>10, <2>4 DEF Pass, MayPass
  <2> QED
    BY <2>1, <2>2, <2>3, <2>4
<1>11. CASE UNCHANGED vars
  BY <1>11 DEF vars
<1> QED
  BY <1>1, <1>2, <1>3, <1>4, <1>5, <1>6, <1>7, <1>8, <1>9, <1>10, <1>11 DEF Next

\* The invariant of the clock, the ticker and the lease.
THEOREM Invariance == Spec => []IInv
BY InitInv, StepInv, PTL DEF Spec

\* Every variable keeps its type, and no lease is longer than a lease.
THEOREM TypeCorrect == Spec => []TypeOK
<1>1. IInv => TypeOK
  BY DEF IInv
<1> QED
  BY <1>1, Invariance, PTL

\* A worker whose statements take no longer than a heartbeat period is never
\* taken for dead.
THEOREM LeasesLast == Spec => []HealthyKeepsLease
<1>1. IInv => HealthyKeepsLease
  BY Constants DEF IInv, TypeOK, Claiming, Waits, Ticks, Renews, Stores, Sweeps, HealthyKeepsLease
<1> QED
  BY <1>1, Invariance, PTL

\* Whoever is dead is found out within a lease, two statements and an interval.
THEOREM OrphansReturn == Spec => []OrphanBackInTime
<1>1. IInv => OrphanBackInTime
  BY Constants DEF IInv, TypeOK, Orphaned, Sweeps, OrphanBackInTime
<1> QED
  BY <1>1, Invariance, PTL
===============================================================================
