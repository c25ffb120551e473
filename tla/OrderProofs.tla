------------------------------ MODULE OrderProofs ------------------------------
(***************************************************************************)
(* ClaimOrder neither starves nor reorders, for any number of jobs and     *)
(* workers, any range of priorities, divisor and time.                     *)
(***************************************************************************)
EXTENDS ClaimOrder, TLAPS

\* What decides between two jobs at any time: their scores without the clock.
Rank(j) == row[j].priority * AgingDivisor - row[j].created

\* Who went first has the higher rank; neither row can get another.
PassedByRank ==
  \A k, j \in Job : <<k, j>> \in passed =>
    row[k].status # "none" /\ row[j].status # "none" /\ Rank(j) <= Rank(k)

IInv == TypeOK /\ PassedByRank

LEMMA RankType == ASSUME TypeOK, NEW j \in Job PROVE Rank(j) \in Int
<1>1. row[j].priority \in Int /\ row[j].created \in Int /\ AgingDivisor \in Int
  BY OrderConstantsOK DEF TypeOK, Row, Time
<1>2. \A a, b \in Int : a * b \in Int
  OBVIOUS
<1> QED
  BY <1>1, <1>2 DEF Rank

\* An action that neither inserts nor claims keeps priorities, times and ranks.
LEMMA Kept ==
  ASSUME IInv, NEW j \in Job, NEW after \in Time,
         NEW status \in {"pending", "running", "dead", "over"},
         Becomes(j, status, after), UNCHANGED passed
  PROVE  row' \in [Job -> Row] /\ PassedByRank'
<1>1. row' \in [Job -> Row]
  BY DEF IInv, TypeOK, Row, Becomes
<1>2. \A k \in Job : /\ row'[k].priority = row[k].priority
                     /\ row'[k].created = row[k].created
                     /\ row[k].status # "none" => row'[k].status # "none"
  BY DEF IInv, TypeOK, Row, Becomes
<1>3. \A k \in Job : Rank(k)' = Rank(k)
  BY <1>2 DEF Rank
<1> QED
  BY <1>1, <1>2, <1>3 DEF IInv, PassedByRank

LEMMA InitInv == Init => IInv
<1> SUFFICES ASSUME Init PROVE IInv
  OBVIOUS
<1>1. TypeOK
  BY OrderConstantsOK DEF Init, TypeOK, Row, Time
<1> QED
  BY <1>1 DEF Init, IInv, PassedByRank

LEMMA StepInv == IInv /\ [Next]_vars => IInv'
<1> SUFFICES ASSUME IInv, [Next]_vars PROVE IInv'
  OBVIOUS
<1>1. TypeOK /\ PassedByRank /\ now \in Nat /\ now <= MaxTime /\ 0 \in Time
  BY OrderConstantsOK DEF IInv, TypeOK, Time
<1>2. CASE Tick
  <2>1. now' \in Time /\ UNCHANGED <<row, claim, passed>>
    BY <1>1, <1>2, OrderConstantsOK DEF Tick, Time
  <2> QED
    BY <1>1, <2>1 DEF IInv, TypeOK, PassedByRank, Rank
<1>3. ASSUME NEW j \in Job, NEW p \in 0..MaxPriority, NEW created \in 0..now,
             Enqueue(j, p, created)
      PROVE  IInv'
  <2>1. Priority(p) \in 1..MaxPriority /\ created \in Time
    BY <1>1, OrderConstantsOK DEF Priority, Time
  <2>2. TypeOK'
    BY <1>1, <1>3, <2>1 DEF TypeOK, Enqueue, Row
  <2>3. \A k \in Job : row[k].status # "none" => row'[k] = row[k]
    BY <1>1, <1>3 DEF Enqueue, TypeOK
  <2>4. \A k \in Job : row[k].status # "none" => Rank(k)' = Rank(k)
    BY <2>3 DEF Rank
  <2>5. PassedByRank'
    BY <1>1, <1>3, <2>3, <2>4 DEF PassedByRank, Enqueue
  <2> QED
    BY <2>2, <2>5 DEF IInv
<1>4. ASSUME NEW w \in Worker, NEW j \in Job, NEW t \in 0..now, ClaimSelect(w, j, t)
      PROVE  IInv'
  <2>1. \A k \in Waiting(t) : k \in Job /\ row[k].status # "none"
    BY DEF Waiting
  <2>2. TypeOK'
    BY <1>1, <1>4, <2>1 DEF TypeOK, ClaimSelect
  <2>3. ASSUME NEW k \in Waiting(t)
        PROVE  Rank(k) <= Rank(j)
    <3>1. Score(k, t) <= Score(j, t) /\ k \in Job
      BY <1>4, <2>1 DEF ClaimSelect
    <3>2. t \in Int /\ \A i \in Job : row[i].created \in Int /\ row[i].priority * AgingDivisor \in Int
      <4>1. \A i \in Job : row[i].created \in Int /\ row[i].priority \in Int
        BY <1>1, OrderConstantsOK DEF TypeOK, Row, Time
      <4>2. \A a, b \in Int : a * b \in Int
        OBVIOUS
      <4> QED
        BY <1>1, <4>1, <4>2, OrderConstantsOK
    <3>3. \A a, b, c, d \in Int : a + (t - b) <= c + (t - d) => a - b <= c - d
      BY <3>2
    <3> QED
      BY <3>1, <3>2, <3>3 DEF Score, Rank
  <2>4. PassedByRank'
    <3>1. \A k \in Job : row' = row /\ Rank(k)' = Rank(k)
      BY <1>4 DEF ClaimSelect, Rank
    <3>2. passed' = passed \cup {<<j, k>> : k \in Waiting(t) \ {j}}
      BY <1>4 DEF ClaimSelect
    <3>3. j \in Waiting(t)
      BY <1>4 DEF ClaimSelect
    <3> QED
      BY <1>1, <2>1, <2>3, <3>1, <3>2, <3>3 DEF PassedByRank
  <2> QED
    BY <2>2, <2>4 DEF IInv
<1>5. ASSUME NEW w \in Worker, ClaimEnds(w)
      PROVE  IInv'
  <2>1. claim[w] \in Job /\ claim' \in [Worker -> Job \cup {NoJob}] /\ UNCHANGED <<now, passed>>
    BY <1>1, <1>5 DEF ClaimEnds, TypeOK
  <2>2. row[claim[w]].after \in Time
    BY <1>1, <2>1 DEF TypeOK, Row
  <2>3. CASE Becomes(claim[w], "running", row[claim[w]].after)
    BY <1>1, <2>1, <2>2, <2>3, Kept DEF IInv, TypeOK
  <2>4. CASE UNCHANGED row
    BY <1>1, <2>1, <2>4 DEF IInv, TypeOK, PassedByRank, Rank
  <2> QED
    BY <1>5, <2>3, <2>4 DEF ClaimEnds
<1>6. ASSUME NEW j \in Job, ComesBack(j) \/ Ends(j) \/ RetryDead(j)
      PROVE  IInv'
  <2>1. UNCHANGED <<now, claim, passed>>
    BY <1>6 DEF ComesBack, Ends, RetryDead
  <2>2. row[j].after \in Time
    BY <1>1 DEF TypeOK, Row
  <2>3. PICK after \in Time, status \in {"pending", "dead", "over"} : Becomes(j, status, after)
    BY <1>1, <1>6, <2>2 DEF ComesBack, Ends, RetryDead
  <2> QED
    BY <1>1, <2>1, <2>3, Kept DEF IInv, TypeOK
<1>7. CASE UNCHANGED vars
  BY <1>1, <1>7 DEF vars, IInv, TypeOK, PassedByRank, Rank
<1> QED
  BY <1>2, <1>3, <1>4, <1>5, <1>6, <1>7 DEF Next

\* Whoever went first has the higher rank, at every time.
THEOREM Invariance == Spec => []IInv
  BY InitInv, StepInv, PTL DEF Spec

\* Every variable keeps its type.
THEOREM TypeCorrect == Spec => []TypeOK
<1>1. IInv => TypeOK
  BY DEF IInv
<1> QED
  BY <1>1, Invariance, PTL

\* Priorities that differ by at most the range are worth at most the range.
LEMMA WorthOfPriority ==
  ASSUME NEW a \in 1..MaxPriority, NEW b \in 1..MaxPriority
  PROVE  a * AgingDivisor - b * AgingDivisor <= (MaxPriority - 1) * AgingDivisor
<1>1. a \in Int /\ b \in Int /\ MaxPriority \in Int /\ AgingDivisor \in Int
  BY OrderConstantsOK
<1>2. a - b <= MaxPriority - 1
  BY <1>1
<1>3. \A x, y, d \in Int : x <= y /\ d >= 0 => x * d <= y * d
  OBVIOUS
<1>4. \A x, y, d \in Int : (x - y) * d = x * d - y * d
  OBVIOUS
<1>5. (a - b) * AgingDivisor <= (MaxPriority - 1) * AgingDivisor
  BY <1>1, <1>2, <1>3, OrderConstantsOK
<1> QED
  BY <1>1, <1>4, <1>5

\* Claim's ORDER BY starves no job, whatever is enqueued.
THEOREM NoStarvation == Spec => []AgedJobsGoFirst
<1>1. IInv => AgedJobsGoFirst
  <2> SUFFICES ASSUME IInv, NEW k \in Job, NEW j \in Job, <<k, j>> \in passed
               PROVE  row[k].created <= row[j].created + (MaxPriority - 1) * AgingDivisor
    BY DEF AgedJobsGoFirst
  <2>1. Rank(j) <= Rank(k)
    BY DEF IInv, PassedByRank
  <2>2. /\ row[k].priority \in 1..MaxPriority /\ row[j].priority \in 1..MaxPriority
        /\ row[k].created \in Int /\ row[j].created \in Int
    BY OrderConstantsOK DEF IInv, TypeOK, Row, Time
  <2>3. row[k].priority * AgingDivisor - row[j].priority * AgingDivisor
          <= (MaxPriority - 1) * AgingDivisor
    BY <2>2, WorthOfPriority
  <2>4. /\ row[k].priority * AgingDivisor \in Int /\ row[j].priority * AgingDivisor \in Int
        /\ (MaxPriority - 1) * AgingDivisor \in Int
    <3>1. \A x, y \in Int : x * y \in Int
      OBVIOUS
    <3> QED
      BY <2>2, <3>1, OrderConstantsOK
  <2>5. \A pk, pj, ck, cj, m \in Int : pj - cj <= pk - ck /\ pk - pj <= m => ck <= cj + m
    OBVIOUS
  <2> QED
    BY <2>1, <2>2, <2>3, <2>4, <2>5 DEF Rank
<1> QED
  BY <1>1, Invariance, PTL

\* Two jobs are never claimed once in this order and once in the other, unless
\* they rank the same.
THEOREM NoReordering == Spec => []OrderIsSettled
<1>1. IInv => OrderIsSettled
  <2> SUFFICES ASSUME IInv, NEW k \in Job, NEW j \in Job,
                      <<k, j>> \in passed, <<j, k>> \in passed
               PROVE  (row[k].priority - row[j].priority) * AgingDivisor
                        = row[k].created - row[j].created
    BY DEF OrderIsSettled
  <2>1. Rank(j) <= Rank(k) /\ Rank(k) <= Rank(j) /\ Rank(k) \in Int /\ Rank(j) \in Int
    BY RankType DEF IInv, PassedByRank
  <2>2. /\ row[k].priority \in Int /\ row[j].priority \in Int
        /\ row[k].created \in Int /\ row[j].created \in Int /\ AgingDivisor \in Int
    BY OrderConstantsOK DEF IInv, TypeOK, Row, Time
  <2>3. \A x, y, d \in Int : (x - y) * d = x * d - y * d /\ x * d \in Int
    OBVIOUS
  <2>4. Rank(k) = Rank(j)
    BY <2>1
  <2>5. row[k].priority * AgingDivisor - row[j].priority * AgingDivisor
          = row[k].created - row[j].created
    <3> DEFINE a == row[k].priority * AgingDivisor
               b == row[j].priority * AgingDivisor
    <3>1. a \in Int /\ b \in Int
      BY <2>2, <2>3
    <3>2. a - row[k].created = b - row[j].created
      BY <2>4 DEF Rank
    <3> HIDE DEF a, b
    <3>3. a - b = row[k].created - row[j].created
      BY <2>2, <3>1, <3>2
    <3> QED
      BY <3>3 DEF a, b
  <2> QED
    BY <2>2, <2>3, <2>5
<1> QED
  BY <1>1, Invariance, PTL
===============================================================================
