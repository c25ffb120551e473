----------------------------- MODULE LedgerProofs -----------------------------
(***************************************************************************)
(* JobLedger pages correctly, whatever the number of ids and the size of a *)
(* page: no gap, no repetition, full pages.                                *)
(*                                                                         *)
(* What a page holds is a matter of counting (Top), so the first part is   *)
(* about finite sets of numbers.  Where it needs induction it takes a      *)
(* minimal counterexample under strict inclusion, which is well-founded on *)
(* finite sets.                                                            *)
(***************************************************************************)
EXTENDS JobLedger, FiniteSetTheorems, SequenceTheorems, WellFoundedInduction, TLAPS

\* A non-empty finite set of numbers has a least element, Min.
LEMMA LeastElement ==
  ASSUME NEW S \in SUBSET Nat, IsFiniteSet(S), S # {}
  PROVE  \E x \in S : \A y \in S : x <= y
<1> DEFINE Bad == {U \in FiniteSubsetsOf(S) : U # {} /\ ~ \E x \in U : \A y \in U : x <= y}
<1>1. SUFFICES ASSUME Bad # {} PROVE FALSE
  <2>1. S \in FiniteSubsetsOf(S)
    BY DEF FiniteSubsetsOf
  <2> QED
    BY <1>1, <2>1
<1>2. PICK U \in Bad : \A V \in Bad : <<V, U>> \notin StrictSubsetOrdering(S)
  <2>1. Bad \subseteq FiniteSubsetsOf(S)
    OBVIOUS
  <2> HIDE DEF Bad
  <2> QED
    BY <1>1, <2>1, FS_StrictSubsetOrderingWellFounded, WFMin
<1>3. U \in SUBSET S /\ IsFiniteSet(U) /\ U # {}
  BY <1>2 DEF FiniteSubsetsOf
<1>4. PICK x \in U : TRUE
  BY <1>3
<1> DEFINE V == {y \in U : y < x}
<1>5. V \in SUBSET U /\ x \notin V /\ IsFiniteSet(V)
  BY <1>3, <1>4, FS_Subset
<1>6. <<V, U>> \in StrictSubsetOrdering(S)
  BY <1>3, <1>4, <1>5 DEF StrictSubsetOrdering
<1>7. V \notin Bad
  BY <1>2, <1>6
<1>8. CASE V = {}
  <2>1. \A y \in U : x <= y
    BY <1>3, <1>4, <1>8
  <2> QED
    BY <1>2, <1>4, <2>1
<1>9. CASE V # {}
  <2>1. PICK z \in V : \A y \in V : z <= y
    BY <1>3, <1>5, <1>7, <1>9 DEF FiniteSubsetsOf
  <2>2. \A y \in U : z <= y
    BY <1>3, <1>4, <2>1
  <2> QED
    BY <1>2, <2>1, <2>2
<1> QED
  BY <1>8, <1>9

LEMMA MinIsLeast ==
  ASSUME NEW S \in SUBSET Nat, IsFiniteSet(S), S # {}
  PROVE  Min(S) \in S /\ \A y \in S : Min(S) <= y
  BY LeastElement DEF Min

-----------------------------------------------------------------------------
(* Top(S, n): the n largest.                                               *)

LEMMA TopFinite ==
  ASSUME NEW S \in SUBSET Nat, IsFiniteSet(S), NEW n \in Nat
  PROVE  Top(S, n) \in SUBSET S /\ IsFiniteSet(Top(S, n))
  BY FS_Subset DEF Top

\* How many are above i is a number below the size of the set.
LEMMA AboveBound ==
  ASSUME NEW S \in SUBSET Nat, IsFiniteSet(S), NEW i \in S
  PROVE  /\ IsFiniteSet({k \in S : k > i})
         /\ Cardinality({k \in S : k > i}) \in Nat
         /\ Cardinality({k \in S : k > i}) < Cardinality(S)
<1> DEFINE A == {k \in S : k > i}
<1>1. A \in SUBSET S /\ i \notin A
  OBVIOUS
<1>2. IsFiniteSet(A) /\ Cardinality(A) <= Cardinality(S) /\ Cardinality(S) # Cardinality(A)
  BY <1>1, FS_Subset
<1>3. Cardinality(A) \in Nat /\ Cardinality(S) \in Nat
  BY <1>2, FS_CardinalityType
<1> QED
  BY <1>2, <1>3

\* What is larger than one of the n largest is one of them.
LEMMA TopUpward ==
  ASSUME NEW S \in SUBSET Nat, IsFiniteSet(S), NEW n \in Nat,
         NEW i \in S, NEW k \in Top(S, n), i >= k
  PROVE  i \in Top(S, n)
<1> DEFINE A(x) == {y \in S : y > x}
<1>1. k \in S /\ Cardinality(A(k)) < n
  BY DEF Top
<1>2. A(i) \in SUBSET A(k)
  <2>1. i \in Nat /\ k \in Nat
    BY <1>1
  <2>2. ASSUME NEW y \in S, y > i PROVE y > k
    <3>1. y \in Nat
      OBVIOUS
    <3> QED
      BY <2>1, <2>2, <3>1
  <2> QED
    BY <2>2
<1>3. IsFiniteSet(A(k)) /\ Cardinality(A(k)) \in Nat /\ Cardinality(A(i)) \in Nat
  BY <1>1, AboveBound
<1>4. Cardinality(A(i)) <= Cardinality(A(k))
  BY <1>2, <1>3, FS_Subset
<1>5. Cardinality(A(i)) < n
  BY <1>1, <1>3, <1>4
<1> QED
  BY <1>5 DEF Top

\* A set of at most n elements is its own n largest.
LEMMA TopAll ==
  ASSUME NEW S \in SUBSET Nat, IsFiniteSet(S), NEW n \in Nat, Cardinality(S) <= n
  PROVE  Top(S, n) = S
<1>1. Cardinality(S) \in Nat
  BY FS_CardinalityType
<1>2. \A i \in S : Cardinality({k \in S : k > i}) < n
  <2> TAKE i \in S
  <2>1. /\ Cardinality({k \in S : k > i}) \in Nat
        /\ Cardinality({k \in S : k > i}) < Cardinality(S)
    BY AboveBound
  <2> QED
    BY <1>1, <2>1
<1> QED
  BY <1>2 DEF Top

\* The n largest of a set of at least n elements are n.
LEMMA TopCount ==
  ASSUME NEW S \in SUBSET Nat, IsFiniteSet(S), NEW n \in Nat, n <= Cardinality(S)
  PROVE  Cardinality(Top(S, n)) = n
<1> DEFINE Bad == {U \in FiniteSubsetsOf(S) : n <= Cardinality(U) /\ Cardinality(Top(U, n)) # n}
<1>1. SUFFICES ASSUME Bad # {} PROVE FALSE
  <2>1. S \in FiniteSubsetsOf(S)
    BY DEF FiniteSubsetsOf
  <2> QED
    BY <1>1, <2>1
<1>2. PICK U \in Bad : \A V \in Bad : <<V, U>> \notin StrictSubsetOrdering(S)
  <2>1. Bad \subseteq FiniteSubsetsOf(S)
    OBVIOUS
  <2> HIDE DEF Bad
  <2> QED
    BY <1>1, <2>1, FS_StrictSubsetOrderingWellFounded, WFMin
<1>3. /\ U \in SUBSET S /\ U \in SUBSET Nat /\ IsFiniteSet(U)
      /\ n <= Cardinality(U) /\ Cardinality(Top(U, n)) # n
  BY <1>2 DEF FiniteSubsetsOf
<1>4. Cardinality(U) \in Nat
  BY <1>3, FS_CardinalityType
<1>5. Cardinality(U) # n
  BY <1>3, <1>4, TopAll
<1>6. U # {}
  BY <1>3, <1>5, FS_EmptySet
<1>7. PICK x \in U : \A y \in U : x <= y
  BY <1>3, <1>6, LeastElement
<1> DEFINE V == U \ {x}
<1>8. IsFiniteSet(V) /\ Cardinality(V) = Cardinality(U) - 1
  BY <1>3, <1>7, FS_RemoveElement
<1>9. V \in FiniteSubsetsOf(S) /\ <<V, U>> \in StrictSubsetOrdering(S)
  BY <1>3, <1>7, <1>8 DEF FiniteSubsetsOf, StrictSubsetOrdering
<1>10. Cardinality(Top(V, n)) = n
  <2>1. n <= Cardinality(V)
    BY <1>3, <1>4, <1>5, <1>8
  <2>2. V \notin Bad
    BY <1>2, <1>9
  <2> QED
    BY <1>9, <2>1, <2>2
<1>11. Top(U, n) = Top(V, n)
  <2>1. \A i \in V : {k \in U : k > i} = {k \in V : k > i}
    BY <1>3, <1>7
  <2>2. {k \in U : k > x} = V
    <3>1. ASSUME NEW k \in U PROVE k > x <=> k # x
      <4>1. k \in Nat /\ x \in Nat /\ x <= k
        BY <1>3, <1>7
      <4> QED
        BY <4>1
    <3> QED
      BY <3>1
  <2>3. ~(Cardinality({k \in U : k > x}) < n)
    BY <1>3, <1>4, <1>5, <1>8, <2>2
  <2> QED
    BY <2>1, <2>3 DEF Top
<1> QED
  BY <1>3, <1>10, <1>11

-----------------------------------------------------------------------------
(* The handler's answer.                                                   *)

LEMMA IdFinite == IsFiniteSet(Id) /\ Id \in SUBSET Nat
<1>1. IsFiniteSet(1..MaxId)
  BY LedgerConstantsOK, FS_Interval
<1> QED
  BY <1>1, LedgerConstantsOK DEF Id

\* What a page says of the cursor it was asked for with.
PageOK(c, p) ==
  /\ \A i \in p.ids : c = 0 \/ i < c
  /\ p.more => p.next \in p.ids /\ \A i \in p.ids : p.next <= i
  /\ ~p.more => p.next = 0
  /\ \A i \in p.kept :
       (c = 0 \/ i < c) /\ (p.more => i >= p.next) => i \in p.ids
  /\ Cardinality(p.ids) <= Limit
  /\ p.more => Cardinality(p.ids) = Limit

\* Asking for one row more than the page holds tells whether there are more,
\* and what is cut off is older than everything on the page.
LEMMA AnswerOK ==
  ASSUME NEW c \in Cursor
  PROVE  Answer(c) \in PageType /\ PageOK(c, Answer(c))
<1> DEFINE M == Matching(c)
           rows == ListJobs(c)
<1>1. M \in SUBSET Id /\ M \in SUBSET Nat /\ IsFiniteSet(M) /\ Cardinality(M) \in Nat
  <2>1. M \in SUBSET Id
    BY DEF Matching, Visible
  <2> QED
    BY <2>1, IdFinite, FS_Subset, FS_CardinalityType
<1>2. Limit \in Nat /\ Limit > 0 /\ Limit + 1 \in Nat
  BY LedgerConstantsOK
<1>3. /\ rows \in SUBSET M /\ rows \in SUBSET Nat /\ IsFiniteSet(rows)
      /\ Cardinality(rows) \in Nat
  BY <1>1, <1>2, TopFinite, FS_CardinalityType DEF ListJobs
<1> DEFINE page == OnPage(rows)
<1>4. /\ page \in SUBSET rows /\ page \in SUBSET Nat /\ IsFiniteSet(page)
      /\ Cardinality(page) \in Nat
  BY <1>2, <1>3, TopFinite, FS_CardinalityType DEF OnPage
<1>5. CASE HasMore(rows)
  <2>1. Cardinality(rows) > Limit
    BY <1>5 DEF HasMore
  <2>2. Cardinality(page) = Limit
    BY <1>2, <1>3, <2>1, TopCount DEF OnPage
  <2>3. page # {}
    BY <1>2, <2>2, FS_EmptySet
  <2>4. Min(page) \in page /\ \A i \in page : Min(page) <= i
    BY <1>4, <2>3, MinIsLeast
  <2>5. \A i \in M : i >= Min(page) => i \in page
    <3> SUFFICES ASSUME NEW i \in M, i >= Min(page)
                 PROVE  i \in page
      OBVIOUS
    <3>1. Min(page) \in Top(M, Limit + 1)
      BY <1>4, <2>4 DEF ListJobs
    <3>2. i \in rows
      BY <1>1, <1>2, <3>1, TopUpward DEF ListJobs
    <3>3. Min(page) \in Top(rows, Limit)
      BY <2>4 DEF OnPage
    <3> QED
      BY <1>2, <1>3, <3>2, <3>3, TopUpward DEF OnPage
  <2>6. Answer(c) = [ids |-> page, next |-> Min(page), more |-> TRUE, kept |-> Visible]
    BY <1>5 DEF Answer, NextCursor, HasMore
  <2>7. page \in SUBSET Id /\ Min(page) \in Cursor /\ Visible \in SUBSET Id
    BY <1>1, <1>3, <1>4, <2>4, LedgerConstantsOK DEF Visible, Id, Cursor
  <2>8. \A i \in page : c = 0 \/ i < c
    BY <1>3, <1>4 DEF Matching
  <2>9. \A i \in Visible : c = 0 \/ i < c => i \in M
    BY DEF Matching
  <2> HIDE DEF page, M, rows
  <2>10. Answer(c) \in PageType
    BY <2>6, <2>7 DEF PageType
  <2>11. PageOK(c, Answer(c))
    BY <1>2, <2>2, <2>4, <2>5, <2>6, <2>8, <2>9 DEF PageOK
  <2> QED
    BY <2>10, <2>11
<1>6. CASE ~HasMore(rows)
  <2>1. Cardinality(rows) <= Limit
    BY <1>2, <1>3, <1>6 DEF HasMore
  <2>2. page = rows
    BY <1>2, <1>3, <2>1, TopAll DEF OnPage
  <2>3. rows = M
    <3>1. CASE Cardinality(M) <= Limit + 1
      BY <1>1, <1>2, <3>1, TopAll DEF ListJobs
    <3>2. CASE Limit + 1 <= Cardinality(M)
      <4>1. Cardinality(rows) = Limit + 1
        BY <1>1, <1>2, <3>2, TopCount DEF ListJobs
      <4> QED
        BY <1>2, <2>1, <4>1
    <3> QED
      BY <1>1, <1>2, <3>1, <3>2
  <2>4. Answer(c) = [ids |-> page, next |-> 0, more |-> FALSE, kept |-> Visible]
    <3>1. HasMore(rows) = FALSE
      BY <1>6 DEF HasMore
    <3> HIDE DEF rows
    <3> QED
      BY <3>1 DEF Answer, NextCursor, rows
  <2>5. page \in SUBSET Id /\ 0 \in Cursor /\ Visible \in SUBSET Id
    BY <1>1, <1>3, <1>4, LedgerConstantsOK DEF Visible, Cursor
  <2>6. \A i \in page : c = 0 \/ i < c
    BY <1>3, <1>4 DEF Matching
  <2>7. \A i \in Visible : c = 0 \/ i < c => i \in page
    BY <2>2, <2>3 DEF Matching
  <2>8. Cardinality(page) <= Limit
    BY <2>1, <2>2
  <2> HIDE DEF page, M, rows
  <2>9. Answer(c) \in PageType
    BY <2>4, <2>5 DEF PageType
  <2>10. PageOK(c, Answer(c))
    BY <2>4, <2>6, <2>7, <2>8 DEF PageOK
  <2> QED
    BY <2>9, <2>10
<1> QED
  BY <1>5, <1>6

-----------------------------------------------------------------------------
(* Sequences.                                                              *)

LEMMA FunctionIsSequence ==
  ASSUME NEW S, NEW k \in Nat, NEW f \in [1..k -> S]
  PROVE  f \in Seq(S) /\ Len(f) = k
  OBVIOUS

\* All but the last.
LEMMA Butlast ==
  ASSUME NEW S, NEW s \in Seq(S), s # <<>>
  PROVE  /\ Len(s) \in Nat \ {0}
         /\ SubSeq(s, 1, Len(s) - 1) \in Seq(S)
         /\ Len(SubSeq(s, 1, Len(s) - 1)) = Len(s) - 1
         /\ \A n \in 1..(Len(s) - 1) : SubSeq(s, 1, Len(s) - 1)[n] = s[n]
<1>1. Len(s) \in Nat \ {0}
  BY EmptySeq
<1>2. \A i \in 1..(Len(s) - 1) : s[i] \in S
  BY <1>1, ElementOfSeq
<1>3. 1 \in Int /\ Len(s) - 1 \in Int
  BY <1>1
<1> DEFINE f == SubSeq(s, 1, Len(s) - 1)
           l == Len(s) - 1
<1>4. /\ f \in Seq(S)
      /\ Len(f) = IF 1 <= l THEN l - 1 + 1 ELSE 0
      /\ \A i \in 1..(l - 1 + 1) : f[i] = s[1 + i - 1]
  BY <1>2, <1>3, SubSeqProperties
<1>5. \A i \in 1..l : i \in 1..(l - 1 + 1) /\ 1 + i - 1 = i
  BY <1>1
<1>6. Len(f) = l
  <2>1. l \in Nat
    BY <1>1
  <2> HIDE DEF l, f
  <2> QED
    BY <1>4, <2>1
<1>7. \A i \in 1..l : f[i] = s[i]
  BY <1>4, <1>5
<1> QED
  BY <1>1, <1>4, <1>6, <1>7

-----------------------------------------------------------------------------
(* The inductive invariant.                                                *)

\* Each answer in the cache, and each page of the trail, was given for the
\* cursor it is kept under, and NEXT could leave the pages of the trail.
CacheOK == \A c \in Cursor : cache[c] = NoPage \/ PageOK(c, cache[c])

TrailOK ==
  \A n \in 1..Len(trail) : PageOK(history[n], trail[n]) /\ trail[n].next # 0

\* The cursor of the n-th page, the one on show included.
At(n) == IF n <= Len(history) THEN history[n] ELSE cursor

\* The way starts at the first page and each page continues the one before.
Linked ==
  /\ At(1) = 0
  /\ \A n \in 1..Len(trail) : At(n + 1) = trail[n].next

\* Each page ends below those before it.
Falling ==
  \A m, n \in 1..Len(trail) : m <= n => trail[n].next <= trail[m].next

\* Nothing is missing from the trail above the end of any of its pages.
Covered ==
  \A n \in 1..Len(trail), i \in Id :
    i >= trail[n].next /\ (\A m \in 1..n : i \in trail[m].kept)
      => \E m \in 1..n : i \in trail[m].ids

IInv == TypeOK /\ CacheOK /\ TrailOK /\ Linked /\ Falling /\ Covered

LEMMA InitInv == Init => IInv
<1> SUFFICES ASSUME Init PROVE IInv
  OBVIOUS
<1>1. Len(history) = 0 /\ Len(trail) = 0 /\ history \in Seq(Cursor) /\ trail \in Seq(PageType)
  BY EmptySeq DEF Init
<1>2. TypeOK
  BY <1>1, LedgerConstantsOK DEF Init, TypeOK, Cursor
<1>3. 1..Len(trail) = {}
  BY <1>1
<1>4. At(1) = 0
  BY <1>1 DEF Init, At
<1>5. CacheOK
  BY DEF Init, CacheOK
<1> QED
  BY <1>2, <1>3, <1>4, <1>5 DEF IInv, TrailOK, Linked, Falling, Covered

\* The page on show, if it is loaded and NEXT can leave it, continues the
\* trail: it ends below the last of it, and leaves nothing out.
LEMMA Continues ==
  ASSUME IInv, cache[cursor] # NoPage
  PROVE  LET page == cache[cursor]
         IN  /\ page \in PageType /\ PageOK(cursor, page)
             /\ \A n \in 1..Len(trail), i \in page.ids : i < trail[n].next
             /\ \A i \in Id :
                  /\ page.more => i >= page.next
                  /\ i \in page.kept
                  /\ \A m \in 1..Len(trail) : i \in trail[m].kept
                  => \/ i \in page.ids
                     \/ \E m \in 1..Len(trail) : i \in trail[m].ids
<1> DEFINE page == cache[cursor]
           L == Len(trail)
<1>1. page \in PageType /\ PageOK(cursor, page) /\ cursor \in Cursor
  BY DEF IInv, TypeOK, CacheOK
<1>2. L \in Nat /\ Len(history) = L
  BY LenProperties DEF IInv, TypeOK
<1>3. CASE L = 0
  <2>1. cursor = 0
    BY <1>2, <1>3 DEF IInv, Linked, At
  <2> QED
    BY <1>1, <1>3, <2>1 DEF PageOK
<1>4. CASE L # 0
  <2>1. L \in 1..L /\ cursor = trail[L].next
    BY <1>2, <1>4 DEF IInv, Linked, At
  <2>2. cursor # 0 /\ \A n \in 1..L : cursor <= trail[n].next
    BY <1>2, <2>1 DEF IInv, TrailOK, Falling
  <2>3. \A n \in 1..L : trail[n].next \in Nat
    <3>1. trail \in Seq(PageType)
      BY DEF IInv, TypeOK
    <3>2. \A n \in 1..L : trail[n] \in PageType
      BY <3>1, ElementOfSeq
    <3> QED
      BY <3>2, LedgerConstantsOK DEF PageType, Cursor
  <2>4. \A i \in page.ids : i \in Nat /\ i < cursor
    BY <1>1, <2>2, LedgerConstantsOK DEF PageOK, PageType, Id
  <2>5. \A n \in 1..L, i \in page.ids : i < trail[n].next
    BY <1>1, <2>2, <2>3, <2>4, LedgerConstantsOK DEF Cursor
  <2>6. ASSUME NEW i \in Id, page.more => i >= page.next, i \in page.kept,
               \A m \in 1..L : i \in trail[m].kept
        PROVE  i \in page.ids \/ \E m \in 1..L : i \in trail[m].ids
    <3>1. CASE i < cursor
      BY <1>1, <2>6, <3>1 DEF PageOK
    <3>2. CASE i >= cursor
      BY <2>1, <2>6, <3>2 DEF IInv, Covered
    <3> QED
      BY <1>1, <3>1, <3>2, LedgerConstantsOK DEF Id, Cursor
  <2> QED
    BY <1>1, <2>5, <2>6
<1> QED
  BY <1>3, <1>4

LEMMA StepInv == IInv /\ [Next]_vars => IInv'
<1> SUFFICES ASSUME IInv, [Next]_vars PROVE IInv'
  OBVIOUS
<1>1. /\ TypeOK /\ CacheOK /\ TrailOK /\ Linked /\ Falling /\ Covered
      /\ Len(trail) \in Nat /\ Len(history) = Len(trail)
      /\ \A n \in 1..Len(trail) : trail[n] \in PageType /\ history[n] \in Cursor
  <2>1. TypeOK /\ trail \in Seq(PageType) /\ history \in Seq(Cursor) /\ Len(history) = Len(trail)
    BY DEF IInv, TypeOK
  <2> QED
    BY <2>1, LenProperties, ElementOfSeq DEF IInv
<1>2. ASSUME NEW c \in Cursor, Fetched(c)
      PROVE  IInv'
  <2>1. TypeOK'
    BY <1>1, <1>2, AnswerOK DEF TypeOK, Fetched
  <2>2. CacheOK'
    BY <1>1, <1>2, AnswerOK DEF TypeOK, CacheOK, Fetched
  <2> QED
    BY <1>1, <1>2, <2>1, <2>2 DEF IInv, TrailOK, Linked, At, Falling, Covered, Fetched
<1>3. ASSUME NEW c \in Cursor, Evicted(c)
      PROVE  IInv'
  <2>1. TypeOK' /\ CacheOK'
    BY <1>1, <1>3 DEF TypeOK, CacheOK, Evicted
  <2> QED
    BY <1>1, <1>3, <2>1 DEF IInv, TrailOK, Linked, At, Falling, Covered, Evicted
<1>4. CASE goPrev
  <2> DEFINE l == Len(trail) - 1
  <2>1. history # <<>> /\ Len(history) # 0 /\ trail # <<>>
    BY <1>1, <1>4, EmptySeq DEF goPrev, TypeOK
  <2>2. /\ history' \in Seq(Cursor) /\ Len(history') = l /\ l \in Nat
        /\ \A n \in 1..l : history'[n] = history[n]
    BY <1>1, <1>4, <2>1, Butlast DEF goPrev, TypeOK
  <2>3. /\ trail' \in Seq(PageType) /\ Len(trail') = l
        /\ \A n \in 1..l : trail'[n] = trail[n]
    BY <1>1, <1>4, <2>1, Butlast DEF goPrev, TypeOK
  <2>4. cursor' = history[l + 1] /\ l + 1 \in 1..Len(trail) /\ 1..l \in SUBSET (1..Len(trail))
    BY <1>1, <1>4, <2>2 DEF goPrev
  <2>5. TypeOK'
    BY <1>1, <1>4, <2>2, <2>3, <2>4 DEF TypeOK, goPrev
  <2>6. CacheOK'
    BY <1>1, <1>4 DEF CacheOK, goPrev
  <2>7. TrailOK'
    BY <1>1, <2>2, <2>3, <2>4 DEF TrailOK
  <2>8. \A n \in 1..(l + 1) : At(n)' = At(n)
    BY <1>1, <2>2, <2>4 DEF At
  <2>9. Linked'
    <3>1. \A n \in 1..l : n + 1 \in 1..(l + 1)
      BY <2>2
    <3> HIDE DEF l
    <3> QED
      BY <1>1, <2>2, <2>3, <2>4, <2>8, <3>1 DEF Linked
  <2>10. Falling'
    BY <1>1, <2>3, <2>4 DEF Falling
  <2>11. Covered'
    <3>1. \A n \in 1..l : 1..n \in SUBSET (1..l)
      BY <2>2
    <3> QED
      BY <1>1, <2>3, <2>4, <3>1 DEF Covered
  <2> QED
    BY <2>5, <2>6, <2>7, <2>9, <2>10, <2>11 DEF IInv
<1>5. CASE changeStatus
  <2>1. /\ Len(history') = 0 /\ Len(trail') = 0 /\ cursor' = 0
        /\ history' \in Seq(Cursor) /\ trail' \in Seq(PageType)
    BY <1>5, EmptySeq DEF changeStatus
  <2>2. TypeOK'
    BY <1>1, <1>5, <2>1, LedgerConstantsOK DEF TypeOK, changeStatus, Cursor
  <2>3. CacheOK'
    BY <1>1, <1>5 DEF CacheOK, changeStatus
  <2>4. (1..Len(trail))' = {} /\ At(1)' = 0
    BY <2>1 DEF At
  <2> QED
    BY <2>2, <2>3, <2>4 DEF IInv, TrailOK, Linked, Falling, Covered
<1>6. CASE goNext
  <2> PICK L \in Nat : L = Len(trail)
    BY <1>1
  <2> DEFINE page == cache[cursor]
  <2>1. page # NoPage /\ page.next # 0
    BY <1>6 DEF goNext
  <2>2. /\ page \in PageType /\ PageOK(cursor, page)
        /\ \A n \in 1..L, i \in page.ids : i < trail[n].next
        /\ \A i \in Id :
             /\ page.more => i >= page.next
             /\ i \in page.kept
             /\ \A m \in 1..L : i \in trail[m].kept
             => \/ i \in page.ids
                \/ \E m \in 1..L : i \in trail[m].ids
    BY <2>1, Continues
  <2>3. page.more /\ page.next \in page.ids /\ page.next \in Cursor
    BY <2>1, <2>2 DEF PageOK, PageType
  <2>4. /\ trail' \in Seq(PageType) /\ Len(trail') = L + 1
        /\ \A n \in 1..L : trail'[n] = trail[n]
        /\ trail'[L + 1] = page
    BY <1>1, <1>6, <2>2, AppendProperties DEF goNext, TypeOK
  <2>5. /\ history' \in Seq(Cursor) /\ Len(history') = L + 1
        /\ \A n \in 1..L : history'[n] = history[n]
        /\ history'[L + 1] = cursor
    BY <1>1, <1>6, AppendProperties DEF goNext, TypeOK
  <2>6. cursor' = page.next /\ cache' = cache /\ row' = row
    BY <1>6 DEF goNext
  <2>7. 1..(L + 1) = (1..L) \cup {L + 1}
    BY <1>1
  <2> HIDE DEF page
  <2>8. TypeOK'
    BY <1>1, <2>3, <2>4, <2>5, <2>6 DEF TypeOK
  <2>9. CacheOK'
    BY <1>1, <2>6 DEF CacheOK
  <2>10. TrailOK'
    BY <1>1, <2>1, <2>2, <2>4, <2>5, <2>7 DEF TrailOK
  <2>11. Linked'
    <3>1. \A n \in 1..(L + 1) : At(n)' = At(n)
      BY <1>1, <2>5, <2>7 DEF At
    <3>2. At(L + 2)' = page.next
      BY <1>1, <2>5, <2>6 DEF At
    <3>3. \A n \in 1..L : n + 1 \in 1..(L + 1)
      BY <1>1
    <3>4. 1 \in 1..(L + 1) /\ L + 1 + 1 = L + 2
      BY <1>1
    <3>5. \A n \in 1..L : At(n + 1)' = trail'[n].next
      BY <1>1, <2>4, <3>1, <3>3 DEF Linked
    <3>6. At(L + 1 + 1)' = trail'[L + 1].next
      BY <2>4, <3>2, <3>4
    <3> QED
      BY <1>1, <2>4, <2>7, <3>1, <3>4, <3>5, <3>6 DEF Linked
  <2>12. Falling'
    <3>1. \A m \in 1..L : page.next <= trail[m].next
      BY <1>1, <2>2, <2>3, LedgerConstantsOK DEF PageType, Cursor
    <3>2. \A m \in 1..L : ~(L + 1 <= m)
      BY <1>1
    <3>3. page.next <= page.next
      BY <2>3, LedgerConstantsOK DEF Cursor
    <3> QED
      BY <1>1, <2>4, <2>7, <3>1, <3>2, <3>3 DEF Falling
  <2>13. Covered'
    <3>1. \A n \in 1..L : 1..n \in SUBSET (1..L)
      BY <1>1
    <3>2. \A n \in 1..L, i \in Id :
            i >= trail'[n].next /\ (\A m \in 1..n : i \in trail'[m].kept)
              => \E m \in 1..n : i \in trail'[m].ids
      BY <1>1, <2>4, <3>1 DEF Covered
    <3>3. \A i \in Id :
            i >= trail'[L + 1].next /\ (\A m \in 1..(L + 1) : i \in trail'[m].kept)
              => \E m \in 1..(L + 1) : i \in trail'[m].ids
      BY <2>2, <2>4, <2>7
    <3> QED
      BY <2>4, <2>7, <3>2, <3>3 DEF Covered, Id
  <2> QED
    BY <2>8, <2>9, <2>10, <2>11, <2>12, <2>13 DEF IInv
<1>7. ASSUME NEW i \in Id, NEW s \in {"none", "in", "out", "gone"}, Becomes(i, s)
      PROVE  IInv'
  <2>1. \A p \in PageType :
          /\ Forget(p, i) \in PageType
          /\ Forget(p, i).ids = p.ids /\ Forget(p, i).next = p.next
          /\ Forget(p, i).more = p.more /\ Forget(p, i).kept \in SUBSET p.kept
    BY DEF Forget, PageType
  <2>2. \A c \in Cursor, p \in PageType : PageOK(c, p) => PageOK(c, Forget(p, i))
    <3> HIDE DEF Forget
    <3> QED
      BY <2>1 DEF PageOK
  <2>3. /\ trail' = [n \in 1..Len(trail) |-> Forget(trail[n], i)]
        /\ cursor' = cursor /\ history' = history
    BY <1>7 DEF Becomes
  <2>4. /\ trail' \in Seq(PageType) /\ Len(trail') = Len(trail)
        /\ \A n \in 1..Len(trail) : trail'[n] = Forget(trail[n], i)
    <3>1. trail' \in [1..Len(trail) -> PageType]
      BY <1>1, <2>1, <2>3
    <3> QED
      BY <1>1, <2>3, <3>1, FunctionIsSequence
  <2>5. \A n \in 1..Len(trail) :
          /\ trail'[n].ids = trail[n].ids /\ trail'[n].next = trail[n].next
          /\ trail'[n].kept \in SUBSET trail[n].kept
    BY <1>1, <2>1, <2>4
  <2>6. TypeOK'
    <3>1. row' \in [Id -> {"none", "in", "out", "gone"}]
      BY <1>1, <1>7 DEF Becomes, TypeOK
    <3>2. cache' \in [Cursor -> PageType \cup {NoPage}]
      BY <1>1, <1>7, <2>1 DEF Becomes, TypeOK
    <3> QED
      BY <1>1, <2>3, <2>4, <3>1, <3>2 DEF TypeOK
  <2>7. CacheOK'
    BY <1>1, <1>7, <2>2 DEF Becomes, TypeOK, CacheOK
  <2>8. TrailOK'
    BY <1>1, <2>2, <2>3, <2>4, <2>5 DEF TrailOK
  <2>9. Linked'
    BY <1>1, <2>3, <2>4, <2>5 DEF Linked, At
  <2>10. Falling'
    BY <1>1, <2>4, <2>5 DEF Falling
  <2>11. Covered'
    <3>1. \A n \in 1..Len(trail) : 1..n \in SUBSET (1..Len(trail))
      BY <1>1
    <3>2. ASSUME NEW n \in 1..Len(trail), NEW j \in Id,
                 j >= trail'[n].next, \A m \in 1..n : j \in trail'[m].kept
          PROVE  \E m \in 1..n : j \in trail'[m].ids
      <4>1. j >= trail[n].next /\ \A m \in 1..n : j \in trail[m].kept
        BY <2>5, <3>1, <3>2
      <4>2. PICK m \in 1..n : j \in trail[m].ids
        BY <1>1, <4>1 DEF Covered
      <4> QED
        BY <2>5, <3>1, <4>2
    <3> QED
      BY <2>4, <3>2 DEF Covered, Id
  <2> QED
    BY <2>6, <2>7, <2>8, <2>9, <2>10, <2>11 DEF IInv
<1>8. ASSUME NEW i \in Id, Inserted(i) \/ Moves(i) \/ Deleted(i)
      PROVE  IInv'
  BY <1>7, <1>8 DEF Inserted, Moves, Deleted
<1>9. CASE UNCHANGED vars
  BY <1>9 DEF vars, IInv, TypeOK, CacheOK, TrailOK, Linked, At, Falling, Covered
<1> QED
  BY <1>2, <1>3, <1>4, <1>5, <1>6, <1>8, <1>9 DEF Next

-----------------------------------------------------------------------------
(* What follows.                                                           *)

THEOREM Invariance == Spec => []IInv
  BY InitInv, StepInv, PTL DEF Spec

\* Every variable keeps its type: what the operator can go back to and what is
\* remembered of those pages stay in step.
THEOREM TypeCorrect == Spec => []TypeOK
<1>1. IInv => TypeOK
  BY DEF IInv
<1> QED
  BY <1>1, Invariance, PTL

\* Every page NEXT can leave is full, no more and no less (listJobs).
THEOREM PagesFull == Spec => []FullPages
<1>1. IInv => FullPages
  BY DEF IInv, CacheOK, PageOK, FullPages
<1> QED
  BY <1>1, Invariance, PTL

\* The path is the trail, or the trail and the page on show.
LEMMA PathIs ==
  ASSUME IInv
  PROVE  /\ Len(trail) \in Nat
         /\ cache[cursor] = NoPage => Path = trail
         /\ cache[cursor] # NoPage =>
              /\ Len(Path) = Len(trail) + 1
              /\ 1..Len(Path) = (1..Len(trail)) \cup {Len(trail) + 1}
              /\ \A n \in 1..Len(trail) : Path[n] = trail[n]
              /\ Path[Len(trail) + 1] = cache[cursor]
<1>1. trail \in Seq(PageType) /\ Len(trail) \in Nat
  BY LenProperties DEF IInv, TypeOK
<1>2. ASSUME cache[cursor] # NoPage
      PROVE  cache[cursor] \in PageType /\ Path = Append(trail, cache[cursor])
  BY <1>2 DEF IInv, TypeOK, Path
<1> QED
  BY <1>1, <1>2, AppendProperties DEF Path

\* NEXT always leads to older jobs and no job is on two pages of the way
\* (goNext, whatever happens in between).
THEOREM PagesFallAway == Spec => []OnlyOlder
<1>1. IInv => OnlyOlder
  <2> SUFFICES ASSUME IInv,
                      NEW m \in 1..Len(Path), NEW n \in 1..Len(Path), m < n,
                      NEW i \in Path[m].ids, NEW k \in Path[n].ids
               PROVE  k < i
    BY DEF OnlyOlder
  <2>1. Len(trail) \in Nat
    BY PathIs
  <2>2. ASSUME NEW h \in 1..Len(trail)
        PROVE  /\ trail[h] \in PageType /\ PageOK(history[h], trail[h])
               /\ trail[h].next \in Nat /\ trail[h].next # 0
               /\ \A j \in trail[h].ids : j \in Nat /\ trail[h].next <= j
    <3>1. trail \in Seq(PageType) /\ PageOK(history[h], trail[h]) /\ trail[h].next # 0
      BY DEF IInv, TypeOK, TrailOK
    <3>2. trail[h] \in PageType
      BY <3>1, ElementOfSeq
    <3> QED
      BY <3>1, <3>2, LedgerConstantsOK DEF PageOK, PageType, Cursor, Id
  <2>3. ASSUME NEW h \in 2..Len(trail), NEW j \in trail[h].ids
        PROVE  j < trail[h - 1].next
    <3>1. h \in 1..Len(trail) /\ h - 1 \in 1..Len(trail) /\ h - 1 + 1 = h
      BY <2>1
    <3>2. history[h] = trail[h - 1].next
      <4>1. At(h) = trail[h - 1].next
        BY <3>1 DEF IInv, Linked
      <4> QED
        BY <3>1, <4>1 DEF IInv, TypeOK, At
    <3> QED
      BY <2>2, <3>1, <3>2 DEF PageOK
  <2>4. CASE n \in 1..Len(trail)
    <3>1. n \in 2..Len(trail) /\ n - 1 \in 1..Len(trail) /\ m \in 1..Len(trail) /\ m <= n - 1
      BY <2>1, <2>4, PathIs
    <3>2. Path[m] = trail[m] /\ Path[n] = trail[n]
      BY <2>4, <3>1, PathIs
    <3>3. k < trail[n - 1].next /\ trail[n - 1].next <= trail[m].next /\ trail[m].next <= i
      BY <2>2, <2>3, <3>1, <3>2 DEF IInv, Falling
    <3>4. k \in Nat /\ i \in Nat /\ trail[n - 1].next \in Nat /\ trail[m].next \in Nat
      BY <2>2, <2>4, <3>1, <3>2
    <3> QED
      BY <3>3, <3>4
  <2>5. CASE n \notin 1..Len(trail)
    <3>1. cache[cursor] # NoPage /\ n = Len(trail) + 1 /\ m \in 1..Len(trail)
      BY <2>1, <2>5, PathIs
    <3>2. Path[m] = trail[m] /\ Path[n] = cache[cursor]
      BY <3>1, PathIs
    <3>3. k < trail[m].next /\ k \in Id
      BY <3>1, <3>2, Continues DEF PageType
    <3> QED
      BY <2>2, <3>1, <3>2, <3>3, LedgerConstantsOK DEF Id
  <2> QED
    BY <2>4, <2>5
<1> QED
  BY <1>1, Invariance, PTL

\* Nothing falls between two pages: a job that matched all along is on one of
\* the pages the operator came past (ListJobs, listJobs and the pager).
THEOREM NothingMissed == Spec => []Gapless
<1>1. IInv => Gapless
  <2> SUFFICES ASSUME IInv, NEW i \in Id, Path # <<>>, i >= End,
                      \A n \in 1..Len(Path) : i \in Path[n].kept
               PROVE  \E n \in 1..Len(Path) : i \in Path[n].ids
    BY DEF Gapless
  <2>1. CASE cache[cursor] = NoPage
    <3>1. Path = trail /\ End = cursor /\ trail \in Seq(PageType)
      BY <2>1 DEF IInv, TypeOK, Path, End
    <3>2. Len(trail) \in 1..Len(trail)
      BY <3>1, EmptySeq
    <3>3. cursor = trail[Len(trail)].next
      BY <3>2, PathIs DEF IInv, TypeOK, Linked, At
    <3> QED
      BY <3>1, <3>2, <3>3 DEF IInv, Covered
  <2>2. CASE cache[cursor] # NoPage
    <3>1. cache[cursor].more => i >= cache[cursor].next
      BY <2>2 DEF End
    <3>2. i \in cache[cursor].kept /\ \A m \in 1..Len(trail) : i \in trail[m].kept
      BY <2>2, PathIs
    <3>3. i \in cache[cursor].ids \/ \E m \in 1..Len(trail) : i \in trail[m].ids
      BY <2>2, <3>1, <3>2, Continues
    <3> QED
      BY <2>2, <3>3, PathIs
  <2> QED
    BY <2>1, <2>2
<1> QED
  BY <1>1, Invariance, PTL
===============================================================================
