----------------------------- MODULE OutboxRow -----------------------------
(***************************************************************************)
(* One row of domain_event_outbox and the SQL statements of                *)
(* pkg/outbox/repository.go, each as a function from a row to a row.       *)
(*                                                                         *)
(* A payload is identified by the revision that carries it: every upsert   *)
(* of the row's (stream, dedupe_key) replaces the payload and adds one to  *)
(* "revision", so the two never separate.  locked_at is an instant that    *)
(* the code only tests for equality, to recognise the claim that set it;   *)
(* it is a member of Token here, and NULL is NoToken.  A NULL              *)
(* locked_revision is 0, below every real revision.                        *)
(***************************************************************************)
EXTENDS Naturals

CONSTANTS Token, NoToken

ASSUME NoTokenAssumption == NoToken \notin Token

\* The five statuses of chk_domain_event_outbox_status, and a row that was
\* never inserted.
Status == {"absent", "pending", "processing", "completed", "failed", "dead_letter"}

Row == [status         : Status,
        revision       : Nat,
        attempts       : Nat,
        lockedAt       : Token \cup {NoToken},
        lockedRevision : Nat]

AbsentRow == [status         |-> "absent",
              revision       |-> 0,
              attempts       |-> 0,
              lockedAt       |-> NoToken,
              lockedRevision |-> 0]

\* upsertSQL: the new payload supersedes the old one in place.  A row that is
\* being processed keeps its status and its lease.
Upserted(r) ==
    IF r.status = "processing"
    THEN [r EXCEPT !.revision = @ + 1, !.attempts = 0]
    ELSE [r EXCEPT !.revision = @ + 1, !.attempts = 0, !.status = "pending",
                   !.lockedAt = NoToken, !.lockedRevision = 0]

\* Mutant of Claimable: a row whose worker died is never taken over.
ClaimableUnlocked(r) == r.status \in {"pending", "failed"}

\* The WHERE clause of claimSQL.  When the back-off of a failed row has
\* elapsed, and when a lock has outlived staleAfter, is left open.
Claimable(r) == r.status \in {"pending", "failed", "processing"}

\* Mutants of Claimed: the claimed revision is not recorded; the status stays.
ClaimedWithoutRevision(r, t) == [r EXCEPT !.status = "processing", !.lockedAt = t]
ClaimedStillPending(r, t) == [r EXCEPT !.lockedAt = t, !.lockedRevision = r.revision]

\* The SET clause of claimSQL.
Claimed(r, t) ==
    [r EXCEPT !.status = "processing", !.lockedAt = t, !.lockedRevision = r.revision]

\* The WHERE clause of the mark statements; no row matched is ErrJobLockLost.
HoldsLock(r, t) == r.status = "processing" /\ r.lockedAt = t

Superseded(r) == r.lockedRevision # r.revision

\* What every mark statement does with the lease ...
Released(r, status, attempts) ==
    [r EXCEPT !.status = status, !.attempts = attempts,
              !.lockedAt = NoToken, !.lockedRevision = 0]

\* ... and with a row whose payload was replaced while it was processed.
Rescheduled(r) == Released(r, "pending", 0)

\* Mutants of the four below: a superseded row is completed; a retry is not
\* counted.
MarkedDoneBlindly(r) == Released(r, "completed", r.attempts)
MarkedRetryUncounted(r) ==
    IF Superseded(r) THEN Rescheduled(r) ELSE Released(r, "failed", r.attempts)

MarkedDone(r) ==
    IF Superseded(r) THEN Rescheduled(r) ELSE Released(r, "completed", r.attempts)

MarkedRetry(r) ==
    IF Superseded(r) THEN Rescheduled(r) ELSE Released(r, "failed", r.attempts + 1)

MarkedDeadLetter(r) ==
    IF Superseded(r) THEN Rescheduled(r) ELSE Released(r, "dead_letter", r.attempts + 1)

MarkedAbandoned(r) == Released(r, "pending", r.attempts)

Requeued(r) == Released(r, "pending", 0)
=============================================================================
