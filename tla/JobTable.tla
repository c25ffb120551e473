------------------------------- MODULE JobTable -------------------------------
(***************************************************************************)
(* The Postgres table "jobs" and the SQL statements of internal/store.     *)
(*                                                                         *)
(* A statement is two operators on one row: its WHERE clause (a predicate) *)
(* and its SET clause (the row it leaves).  The modules that EXTEND this   *)
(* one decide who issues a statement, when, and what the caller does with  *)
(* the number of rows it affected.                                         *)
(*                                                                         *)
(* Time is kept to what the statements can tell apart.  A timestamp is     *)
(* "null", "past" (at or before NOW()) or "future" (after NOW()); the      *)
(* modules above let a "future" instant become "past" at any moment, so    *)
(* what holds holds whatever the durations are.                            *)
(*                                                                         *)
(* Left out of a row: type, payload, priority, created_at (they never      *)
(* change; the claim order they give is arbitrary here), last_error and    *)
(* updated_at (no statement reads them).                                   *)
(***************************************************************************)
EXTENDS Naturals

CONSTANTS Job,   \* the ids BIGSERIAL will hand out; an id is never reused
          NULL   \* SQL NULL, and Go's nil *Job

VARIABLE jobs    \* the table: one row per id, also for ids with no row

-----------------------------------------------------------------------------
(* Rows.                                                                   *)

Status == {"pending", "running", "success", "dead", "canceled"}

\* An id that is not yet inserted is "unused", one that was deleted "deleted".
NoRow == {"unused", "deleted"}

Instant == {"null", "past", "future"}

Row(Owners) ==
  [status       : Status \cup NoRow,
   attempts     : Nat,
   max_attempts : Nat,
   locked_by    : Owners \cup {NULL},
   locked_until : Instant,
   run_after    : Instant]

BlankRow(status) ==
  [status |-> status, attempts |-> 0, max_attempts |-> 0, locked_by |-> NULL,
   locked_until |-> "null", run_after |-> "null"]

-----------------------------------------------------------------------------
(* Enqueue: INSERT with the column defaults of the migration.              *)

Inserted(max) ==
  [BlankRow("pending") EXCEPT !.max_attempts = max]

-----------------------------------------------------------------------------
(* Claim: the SELECT's filter and the UPDATE that follows it by id alone.  *)

Claimable(row) ==
  /\ row.status = "pending"
  /\ row.run_after # "future"

Claimed(row, owner) ==
  [row EXCEPT !.status = "running", !.locked_by = owner,
              !.locked_until = "future", !.attempts = @ + 1]

-----------------------------------------------------------------------------
(* Renew: the heartbeat's extension of a lease, fenced by the owner token. *)
(* It does not ask whether the lease has run out: a late renewal revives a *)
(* lease no sweep has reclaimed yet.                                       *)

Renewable(row, owner) ==
  /\ row.locked_by = owner
  /\ row.status = "running"

Renewed(row) == [row EXCEPT !.locked_until = "future"]

-----------------------------------------------------------------------------
(* Reap: a swept row is pending again whatever its attempts are, and keeps *)
(* its run_after.                                                          *)

\* Fault: the sweep takes every running row, expired or not.
ReapableAnyLease(row) == row.status = "running"

Reapable(row) ==
  /\ row.status = "running"
  /\ row.locked_until = "past"

\* Fault: the sweep clears the lease and forgets the status.
ReapedStillRunning(row) ==
  [row EXCEPT !.locked_by = NULL, !.locked_until = "null"]

Reaped(row) ==
  [row EXCEPT !.status = "pending", !.locked_by = NULL, !.locked_until = "null"]

-----------------------------------------------------------------------------
(* MarkSuccess: the row keeps locked_by and locked_until.                  *)

\* Fault: the update is not fenced, any worker may finish a running row.
SucceedableUnfenced(row, owner) == row.status = "running"

Succeedable(row, owner) ==
  /\ row.locked_by = owner
  /\ row.status = "running"

Succeeded(row) == [row EXCEPT !.status = "success"]

-----------------------------------------------------------------------------
(* MarkFailed: the caller passes the attempts and the budget it read when  *)
(* it claimed the job; the statement does not read the row's own.  The     *)
(* backoff may already be over when the statement runs.                    *)

Failable(row, owner) ==
  /\ row.locked_by = owner
  /\ row.status \in {"running", "pending"}

\* Fault: a failed attempt leaves the row "failed" until its retry.
FailedAsFailed(row, attempts, max, delay) ==
  [row EXCEPT !.status = IF attempts >= max THEN "dead" ELSE "failed",
              !.run_after = IF attempts >= max THEN "null" ELSE delay,
              !.locked_by = NULL, !.locked_until = "null"]

\* Fault: one attempt too many, > instead of >=.
FailedOneMore(row, attempts, max, delay) ==
  [row EXCEPT !.status = IF attempts > max THEN "dead" ELSE "pending",
              !.run_after = IF attempts > max THEN "null" ELSE delay,
              !.locked_by = NULL, !.locked_until = "null"]

Failed(row, attempts, max, delay) ==
  LET exhausted == attempts >= max
  IN  [row EXCEPT !.status = IF exhausted THEN "dead" ELSE "pending",
                  !.run_after = IF exhausted THEN "null" ELSE delay,
                  !.locked_by = NULL, !.locked_until = "null"]

-----------------------------------------------------------------------------
(* Cancel, RetryDead, DeleteDead.                                          *)

\* Fault: a dead job can be canceled, or a finished one.
CancelableAny(row) == row.status \in Status

Cancelable(row) == row.status \in {"pending", "running"}

Canceled(row) ==
  [row EXCEPT !.status = "canceled", !.run_after = "null",
              !.locked_by = NULL, !.locked_until = "null"]

Retryable(row) == row.status = "dead"

Retried(row) ==
  [row EXCEPT !.status = "pending", !.attempts = 0, !.run_after = "null",
              !.locked_by = NULL, !.locked_until = "null"]

Deletable(row) == row.status = "dead"

Deleted == BlankRow("deleted")
=============================================================================
