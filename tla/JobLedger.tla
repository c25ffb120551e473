------------------------------ MODULE JobLedger ------------------------------
(***************************************************************************)
(* An operator pages through the jobs on the dashboard while the table     *)
(* changes: ListJobs and the handler that cuts its answer into pages, and  *)
(* the cursor, the history and the cached pages of web/src/App.tsx.        *)
(*                                                                         *)
(* A row is "none" before its INSERT is visible (ids are handed out in     *)
(* order but their transactions commit in any), "in" when it has the       *)
(* status the ledger is filtered by, "out" when it has another, "gone"     *)
(* when it was deleted.  Cursor 0 is the first page.                       *)
(*                                                                         *)
(* A page is what the dashboard keeps of an answer; kept is history: the   *)
(* ids that have been "in" without a break since its SELECT.               *)
(***************************************************************************)
EXTENDS Naturals, Sequences, FiniteSets, FiniteSetsExt

CONSTANTS MaxId,  \* bound: ids are 1..MaxId
          Limit,  \* PAGE_SIZE
          NoPage

ASSUME LedgerConstantsOK ==
  /\ MaxId \in Nat
  /\ Limit \in Nat \ {0}

VARIABLES row,      \* [Id -> the row as the filter sees it]
          cache,    \* [cursor -> last answer for it, or NoPage]
          cursor,   \* the page on show
          history,  \* the cursors of the pages before it
          trail     \* history: those pages as they were when NEXT was pressed

vars == <<row, cache, cursor, history, trail>>

Id == 1..MaxId

Cursor == 0..MaxId

PageType ==
  [ids : SUBSET Id, next : Cursor, more : BOOLEAN, kept : SUBSET Id]

Init ==
  /\ row = [i \in Id |-> "none"]
  /\ cache = [c \in Cursor |-> NoPage]
  /\ cursor = 0
  /\ history = <<>>
  /\ trail = <<>>

-----------------------------------------------------------------------------
(* The store and the handler.                                              *)

Visible == {i \in Id : row[i] = "in"}

\* Fault: WHERE id <= cursor.
MatchingInclusive(c) == {i \in Visible : c = 0 \/ i <= c}

\* The rows the SELECT's WHERE leaves.
Matching(c) == {i \in Visible : c = 0 \/ i < c}

\* ORDER BY id DESC LIMIT n.
Top(S, n) == {i \in S : Cardinality({k \in S : k > i}) < n}

\* ListJobs asks for one row more than the page holds.
ListJobs(c) == Top(Matching(c), Limit + 1)

HasMore(rows) == Cardinality(rows) > Limit

\* Fault: the extra row is left on the page.
OnPageUncut(rows) == rows

OnPage(rows) == Top(rows, Limit)

\* Fault: the cursor is the extra row's id, which is on neither page.
NextCursorExtra(rows) == IF HasMore(rows) THEN Min(rows) ELSE 0

NextCursor(rows) == IF HasMore(rows) THEN Min(OnPage(rows)) ELSE 0

Answer(c) ==
  LET rows == ListJobs(c)
  IN  [ids |-> OnPage(rows), next |-> NextCursor(rows), more |-> HasMore(rows),
       kept |-> Visible]

-----------------------------------------------------------------------------
(* The dashboard.                                                          *)

\* The answer for a page on show, one that is fetched again every five seconds
\* or on REFRESH, or one that was on show when its request was sent.  (The
\* SELECT and the arrival are one step: nothing reads a page before it arrives,
\* and the table may change in any way right after the step.)
Fetched(c) ==
  /\ \/ c = cursor
     \/ \E n \in 1..Len(history) : c = history[n]
     \/ cache[c] # NoPage
  /\ cache' = [cache EXCEPT ![c] = Answer(c)]
  /\ UNCHANGED <<row, cursor, history, trail>>

\* The cache forgets a page that is not on show.
Evicted(c) ==
  /\ c # cursor
  /\ cache[c] # NoPage
  /\ cache' = [cache EXCEPT ![c] = NoPage]
  /\ UNCHANGED <<row, cursor, history, trail>>

\* Nothing happens while the page is loading or when it is the last.
goNext ==
  /\ cache[cursor] # NoPage
  /\ cache[cursor].next # 0
  /\ history' = Append(history, cursor)
  /\ trail' = Append(trail, cache[cursor])
  /\ cursor' = cache[cursor].next
  /\ UNCHANGED <<row, cache>>

\* Fault: the history keeps the page the operator went back to.
goPrevKeepingHistory ==
  /\ history # <<>>
  /\ cursor' = history[Len(history)]
  /\ trail' = SubSeq(trail, 1, Len(trail) - 1)
  /\ UNCHANGED <<row, cache, history>>

\* A cached page is on show at once, however old it is.
goPrev ==
  /\ history # <<>>
  /\ cursor' = history[Len(history)]
  /\ history' = SubSeq(history, 1, Len(history) - 1)
  /\ trail' = SubSeq(trail, 1, Len(trail) - 1)
  /\ UNCHANGED <<row, cache>>

\* To another filter and back to this one.
changeStatus ==
  /\ cursor' = 0
  /\ history' = <<>>
  /\ trail' = <<>>
  /\ UNCHANGED <<row, cache>>

-----------------------------------------------------------------------------
(* The queue, and other operators.                                         *)

Forget(page, i) == [page EXCEPT !.kept = @ \ {i}]

\* Row i becomes s; it is no longer kept by any page.
Becomes(i, s) ==
  /\ row' = [row EXCEPT ![i] = s]
  /\ cache' = [c \in Cursor |->
       IF cache[c] = NoPage THEN NoPage ELSE Forget(cache[c], i)]
  /\ trail' = [n \in 1..Len(trail) |-> Forget(trail[n], i)]
  /\ UNCHANGED <<cursor, history>>

Inserted(i) == row[i] = "none" /\ \E s \in {"in", "out"} : Becomes(i, s)

Moves(i) ==
  \/ row[i] = "in" /\ Becomes(i, "out")
  \/ row[i] = "out" /\ Becomes(i, "in")

Deleted(i) == row[i] \in {"in", "out"} /\ Becomes(i, "gone")

Next ==
  \/ \E c \in Cursor : Fetched(c) \/ Evicted(c)
  \/ goNext \/ goPrev \/ changeStatus
  \/ \E i \in Id : Inserted(i) \/ Moves(i) \/ Deleted(i)

Spec == Init /\ [][Next]_vars

-----------------------------------------------------------------------------

\* Every variable has its type.
TypeOK ==
  /\ row \in [Id -> {"none", "in", "out", "gone"}]
  /\ cache \in [Cursor -> PageType \cup {NoPage}]
  /\ cursor \in Cursor
  /\ history \in Seq(Cursor)
  /\ trail \in Seq(PageType)
  /\ Len(history) = Len(trail)

\* The pages the operator went through to the one on show, as they were then,
\* and that one if it is loaded.
Path ==
  IF cache[cursor] = NoPage THEN trail ELSE Append(trail, cache[cursor])

\* Where the path ends: what it should have shown is not below it.
End ==
  IF cache[cursor] = NoPage THEN cursor
  ELSE IF cache[cursor].more THEN cache[cursor].next ELSE 1

\* Nothing falls between two pages: a job that had the status from the oldest of
\* the SELECTs behind the pages until now has been on one of them, once the
\* operator has come past it, although jobs came, went and changed their status
\* and pages were fetched again or shown from the cache.
Gapless ==
  \A i \in Id :
    (Path # <<>> /\ i >= End /\ \A n \in 1..Len(Path) : i \in Path[n].kept)
      => \E n \in 1..Len(Path) : i \in Path[n].ids

\* No job is on two pages of the way, and NEXT always leads to older jobs:
\* paging ends however many jobs are enqueued meanwhile.
OnlyOlder ==
  \A m, n \in 1..Len(Path) : m < n =>
    \A i \in Path[m].ids, k \in Path[n].ids : k < i

\* A page the operator can leave by NEXT is full, no more and no less.
FullPages ==
  \A c \in Cursor :
    cache[c] # NoPage =>
      /\ Cardinality(cache[c].ids) <= Limit
      /\ cache[c].more => Cardinality(cache[c].ids) = Limit
=============================================================================
