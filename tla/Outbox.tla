------------------------------- MODULE Outbox -------------------------------
(***************************************************************************)
(* The transactional outbox of pkg/outbox: the rows of one stream and the  *)
(* polling workers that claim them in batches, call the consumer's handler *)
(* for one job after the other and record what came of it.                 *)
(*                                                                         *)
(* Workers are separate processes or goroutines: they meet only in the     *)
(* rows, and each database statement is one step.  A worker keeps its      *)
(* claimed jobs in memory, so a crash forgets them and only the rows say   *)
(* that they were claimed.                                                 *)
(***************************************************************************)
EXTENDS OutboxRow, FiniteSets

CONSTANTS
    Key,            \* the dedupe keys of the stream
    Worker,
    BatchSize,      \* WorkerConfig.BatchSize
    MaxAttempts,    \* WorkerConfig.MaxAttempts; 0 retries for ever
    NoJob,
    MaxRevision,    \* bound: payloads written per key
    MaxFaults,      \* bound: crashes, shutdowns and lost marks together
    MaxOverruns     \* bound: claims that take a lock from a live worker

\* A claimed job as the worker remembers it (outbox.Job): the payload and the
\* attempt count are those of the moment of the claim.
Job == [key : Key, rev : Nat, attempts : Nat, token : Token]

ASSUME ConstantsAssumption ==
    /\ BatchSize \in Nat
    /\ MaxAttempts \in Nat
    /\ MaxRevision \in Nat
    /\ MaxFaults \in Nat
    /\ MaxOverruns \in Nat
    /\ NoJob \notin Job

VARIABLES
    row,        \* Key -> Row, the table
    pc,         \* Worker -> where it is in RunPollingWorker and ProcessBatch
    batch,      \* Worker -> the claimed jobs it has not finished with
    current,    \* Worker -> the job it is handling, or NoJob
    cancelled,  \* Worker -> its context is cancelled
    handled,    \* history: Key -> revisions some handler call succeeded for
    failures,   \* history: Key -> failed handler calls for the current payload
    faults,     \* history: crashes, shutdowns and lost marks so far
    overruns    \* history: claims that took a lock from a live worker

vars == <<row, pc, batch, current, cancelled, handled, failures, faults, overruns>>
workerVars == <<pc, batch, current, cancelled>>

PC == {"down", "idle", "batch", "handling", "succeeded", "failed", "abandoning"}

Init ==
    /\ row = [k \in Key |-> AbsentRow]
    /\ pc = [w \in Worker |-> "idle"]
    /\ batch = [w \in Worker |-> {}]
    /\ current = [w \in Worker |-> NoJob]
    /\ cancelled = [w \in Worker |-> FALSE]
    /\ handled = [k \in Key |-> {}]
    /\ failures = [k \in Key |-> 0]
    /\ faults = 0
    /\ overruns = 0
-----------------------------------------------------------------------------
(* The producers and the operator.                                         *)

\* UpsertJobTx, for each of the keys one transaction of a producer upserts.
Upsert(S) ==
    /\ row' = [k \in Key |-> IF k \in S THEN Upserted(row[k]) ELSE row[k]]
    /\ failures' = [k \in Key |-> IF k \in S THEN 0 ELSE failures[k]]
    /\ UNCHANGED <<workerVars, handled, faults, overruns>>

Enqueue(k) == row[k].revision < MaxRevision /\ Upsert({k})

\* RequeueDeadLetterJob.
Requeue(k) ==
    /\ row[k].status = "dead_letter"
    /\ row' = [row EXCEPT ![k] = Requeued(@)]
    /\ failures' = [failures EXCEPT ![k] = 0]
    /\ UNCHANGED <<workerVars, handled, faults, overruns>>
-----------------------------------------------------------------------------
(* A worker's batch.                                                       *)

\* The instant of a new claim differs from every instant still in use.
Fresh(t) ==
    /\ \A k \in Key : row[k].lockedAt # t
    /\ \A w \in Worker : \A j \in batch[w] : j.token # t

JobOf(k, t) == [key |-> k, rev |-> row[k].revision, attempts |-> row[k].attempts, token |-> t]

\* Some worker still has the job for which the row is locked.
LiveHolder(k) ==
    \E w \in Worker : \E j \in batch[w] : j.key = k /\ HoldsLock(row[k], j.token)

\* ClaimJobs.  S is what ORDER BY available_at, LIMIT and SKIP LOCKED leave of
\* the claimable rows.  A lock may be stale although its holder is alive: the
\* jobs of a batch share one locked_at and are handled in turn, and nothing
\* bounds the handler calls by staleAfter.
Claim(w, S, t) ==
    /\ pc[w] = "idle"
    /\ ~cancelled[w]
    /\ S # {} /\ Cardinality(S) <= BatchSize
    /\ \A k \in S : Claimable(row[k])
    /\ Fresh(t)
    /\ overruns' = overruns + (IF \E k \in S : LiveHolder(k) THEN 1 ELSE 0)
    /\ overruns' <= MaxOverruns
    /\ row' = [k \in Key |-> IF k \in S THEN Claimed(row[k], t) ELSE row[k]]
    /\ batch' = [batch EXCEPT ![w] = {JobOf(k, t) : k \in S}]
    /\ pc' = [pc EXCEPT ![w] = "batch"]
    /\ UNCHANGED <<current, cancelled, handled, failures, faults>>

\* The next iteration of ProcessBatch's loop, in the order RETURNING gave the
\* rows, which PostgreSQL leaves open.
StartJob(w, j) ==
    /\ pc[w] = "batch"
    /\ ~cancelled[w]
    /\ j \in batch[w]
    /\ pc' = [pc EXCEPT ![w] = "handling"]
    /\ current' = [current EXCEPT ![w] = j]
    /\ UNCHANGED <<row, batch, cancelled, handled, failures, faults, overruns>>

HandlerSucceeds(w) ==
    /\ pc[w] = "handling"
    /\ pc' = [pc EXCEPT ![w] = "succeeded"]
    /\ handled' = [handled EXCEPT ![current[w].key] = @ \cup {current[w].rev}]
    /\ UNCHANGED <<row, batch, current, cancelled, failures, faults, overruns>>

\* processJobSafely: an error or a recovered panic.
HandlerFails(w) ==
    /\ pc[w] = "handling"
    /\ pc' = [pc EXCEPT ![w] = "failed"]
    /\ LET k == current[w].key
       IN failures' = IF current[w].rev = row[k].revision
                      THEN [failures EXCEPT ![k] = @ + 1]
                      ELSE failures
    /\ UNCHANGED <<row, batch, current, cancelled, handled, faults, overruns>>

\* The worker has finished with job j of its batch and goes on at "next".
Forget(w, j, next) ==
    /\ batch' = [batch EXCEPT ![w] = @ \ {j}]
    /\ pc' = [pc EXCEPT ![w] = IF batch[w] = {j} THEN "idle" ELSE next]
    /\ current' = [current EXCEPT ![w] = NoJob]

RowOf(j) == row[j.key]

\* A mark statement makes "marked" of the job's row, unless its lock was lost.
Mark(j, marked) ==
    row' = IF HoldsLock(row[j.key], j.token) THEN [row EXCEPT ![j.key] = marked] ELSE row

\* MarkJobDone; its context is detached from the worker's.
MarkJobDone(w) ==
    /\ pc[w] = "succeeded"
    /\ Mark(current[w], MarkedDone(RowOf(current[w])))
    /\ Forget(w, current[w], "batch")
    /\ UNCHANGED <<cancelled, handled, failures, faults, overruns>>

\* Mutant of ReachedMaxAttempts: one attempt too early.
ReachedMaxAttemptsEarly(j) == MaxAttempts > 0 /\ j.attempts + 2 >= MaxAttempts

\* The attempt count is the one the claim returned.
ReachedMaxAttempts(j) == MaxAttempts > 0 /\ j.attempts + 1 >= MaxAttempts

\* MarkJobFailure of a handler error.
MarkJobFailure(w) ==
    /\ pc[w] = "failed"
    /\ ~cancelled[w]
    /\ \/ /\ ReachedMaxAttempts(current[w])
          /\ Mark(current[w], MarkedDeadLetter(RowOf(current[w])))
       \/ /\ ~ReachedMaxAttempts(current[w])
          /\ Mark(current[w], MarkedRetry(RowOf(current[w])))
    /\ Forget(w, current[w], "batch")
    /\ UNCHANGED <<cancelled, handled, failures, faults, overruns>>

\* The mark statement fails (database error, FinalizeTimeout): ProcessBatch
\* logs it and goes on with the next job.
LoseMark(w) ==
    /\ pc[w] = "succeeded" \/ (pc[w] = "failed" /\ ~cancelled[w])
    /\ faults < MaxFaults
    /\ faults' = faults + 1
    /\ Forget(w, current[w], "batch")
    /\ UNCHANGED <<row, cancelled, handled, failures, overruns>>
-----------------------------------------------------------------------------
(* Shutdown, crash and restart.                                            *)

Shutdown(w) ==
    /\ pc[w] # "down"
    /\ ~cancelled[w]
    /\ faults < MaxFaults
    /\ faults' = faults + 1
    /\ cancelled' = [cancelled EXCEPT ![w] = TRUE]
    /\ UNCHANGED <<row, pc, batch, current, handled, failures, overruns>>

\* ctx.Err() # nil before a job or after a failed one: jobs[index:] is given
\* back.
AbandonBatch(w) ==
    /\ cancelled[w]
    /\ pc[w] \in {"batch", "failed"}
    /\ pc' = [pc EXCEPT ![w] = "abandoning"]
    /\ current' = [current EXCEPT ![w] = NoJob]
    /\ UNCHANGED <<row, batch, cancelled, handled, failures, faults, overruns>>

MarkJobAbandoned(w, j) ==
    /\ pc[w] = "abandoning"
    /\ j \in batch[w]
    /\ Mark(j, MarkedAbandoned(RowOf(j)))
    /\ Forget(w, j, "abandoning")
    /\ UNCHANGED <<cancelled, handled, failures, faults, overruns>>

LoseAbandon(w, j) ==
    /\ pc[w] = "abandoning"
    /\ j \in batch[w]
    /\ faults < MaxFaults
    /\ faults' = faults + 1
    /\ Forget(w, j, "abandoning")
    /\ UNCHANGED <<row, cancelled, handled, failures, overruns>>

\* RunPollingWorker returns.
Exit(w) ==
    /\ pc[w] = "idle"
    /\ cancelled[w]
    /\ pc' = [pc EXCEPT ![w] = "down"]
    /\ cancelled' = [cancelled EXCEPT ![w] = FALSE]
    /\ UNCHANGED <<row, batch, current, handled, failures, faults, overruns>>

Crash(w) ==
    /\ pc[w] # "down"
    /\ faults < MaxFaults
    /\ faults' = faults + 1
    /\ pc' = [pc EXCEPT ![w] = "down"]
    /\ batch' = [batch EXCEPT ![w] = {}]
    /\ current' = [current EXCEPT ![w] = NoJob]
    /\ cancelled' = [cancelled EXCEPT ![w] = FALSE]
    /\ UNCHANGED <<row, handled, failures, overruns>>

Start(w) ==
    /\ pc[w] = "down"
    /\ pc' = [pc EXCEPT ![w] = "idle"]
    /\ UNCHANGED <<row, batch, current, cancelled, handled, failures, faults, overruns>>
-----------------------------------------------------------------------------
Produce == \E k \in Key : Enqueue(k) \/ Requeue(k)

ClaimOf(k) == \E w \in Worker, S \in SUBSET Key, t \in Token : k \in S /\ Claim(w, S, t)

\* What a worker does on its own once it has a batch, is told to stop, or is
\* to be restarted.
Work(w) ==
    \/ HandlerSucceeds(w) \/ HandlerFails(w)
    \/ MarkJobDone(w) \/ MarkJobFailure(w)
    \/ AbandonBatch(w) \/ Exit(w) \/ Start(w)
    \/ \E j \in batch[w] : StartJob(w, j) \/ MarkJobAbandoned(w, j)

Disturb(w) ==
    \/ LoseMark(w) \/ Shutdown(w) \/ Crash(w)
    \/ \E j \in batch[w] : LoseAbandon(w, j)

Next ==
    \/ Produce
    \/ \E k \in Key : ClaimOf(k)
    \/ \E w \in Worker : Work(w) \/ Disturb(w)

Spec == Init /\ [][Next]_vars

\* The outbox as its streams use it: one transaction of a producer may upsert the
\* jobs of any number of keys.  Nothing bounds the payloads.
SharedNext == Next \/ \E S \in SUBSET Key : Upsert(S)

SharedSpec == Init /\ [][SharedNext]_vars

\* A worker goes on with its batch and is restarted after it stopped; a row
\* that stays claimable is claimed in the end, for ORDER BY available_at makes
\* it the oldest one.  Nobody has to enqueue or requeue, and nothing has to go
\* wrong.
Fairness ==
    /\ \A w \in Worker : WF_vars(Work(w))
    /\ \A k \in Key : SF_vars(ClaimOf(k))

FairSpec == Spec /\ Fairness
-----------------------------------------------------------------------------
TypeOK ==
    /\ row \in [Key -> Row]
    /\ pc \in [Worker -> PC]
    /\ batch \in [Worker -> SUBSET Job]
    /\ current \in [Worker -> Job \cup {NoJob}]
    /\ cancelled \in [Worker -> BOOLEAN]
    /\ handled \in [Key -> SUBSET Nat]
    /\ failures \in [Key -> Nat]
    /\ faults \in Nat
    /\ overruns \in Nat

\* A row is completed only if its latest payload has been handled: no upsert
\* that arrives while an older payload is claimed, failing or being taken over
\* is ever lost.
CompletedIsHandled ==
    \A k \in Key : row[k].status = "completed" => row[k].revision \in handled[k]

\* A row is given up only after MaxAttempts failed handler calls for the very
\* payload it holds, counted since that payload was written or requeued;
\* failures of older payloads, crashes and shutdowns do not count.
DeadLetterIsExhausted ==
    \A k \in Key : row[k].status = "dead_letter" =>
        MaxAttempts > 0 /\ failures[k] >= MaxAttempts

\* The retry budget counts what it should: never more attempts than the current
\* payload had failed handler calls, and of those only as many go uncounted as
\* workers were stopped, lost a mark or lost a lock.
RetryBudgetIsExact ==
    \A k \in Key :
        /\ row[k].attempts <= failures[k]
        /\ row[k].status \in {"pending", "failed", "dead_letter"} =>
               failures[k] <= row[k].attempts + faults + overruns

\* Two workers are inside the handler for the same key only after a lock was
\* taken from a live worker; in particular an upsert of a row being processed
\* does not start a second handler call beside the first.
HandlingIsExclusive ==
    overruns = 0 =>
        \A v, w \in Worker :
            pc[v] = "handling" /\ pc[w] = "handling" /\ current[v].key = current[w].key
                => v = w

-----------------------------------------------------------------------------
(* The inductive invariant behind them.                                    *)

\* A row starts to exist with its first payload.
RowsStartAtOne == \A k \in Key : row[k].status # "absent" => row[k].revision >= 1

\* A job remembers the row as it was claimed for as long as it holds its lock.
JobsMatchRows ==
    \A w \in Worker : \A j \in batch[w] :
        LET r == row[j.key]
        IN /\ 1 <= j.rev /\ j.rev <= r.revision
           /\ HoldsLock(r, j.token) => r.lockedRevision = j.rev
           /\ HoldsLock(r, j.token) /\ ~Superseded(r) => r.attempts = j.attempts

\* Two jobs for one key were claimed at different instants.
LocksAreDistinct ==
    \A v, w \in Worker : \A i \in batch[v], j \in batch[w] :
        i.key = j.key /\ i.token = j.token => v = w /\ i = j

\* Only a stale takeover parts a job from its lock.
LocksAreKept ==
    overruns = 0 =>
        \A w \in Worker : \A j \in batch[w] : HoldsLock(row[j.key], j.token)

\* What the worker knows of its handler call agrees with the history.
CurrentIsSound ==
    \A w \in Worker :
        /\ pc[w] \in {"idle", "down"} => batch[w] = {}
        /\ pc[w] \in {"handling", "succeeded", "failed"} => current[w] \in batch[w]
        /\ pc[w] = "succeeded" => current[w].rev \in handled[current[w].key]
        /\ LET j == current[w]
           IN pc[w] = "failed" /\ HoldsLock(row[j.key], j.token) /\ ~Superseded(row[j.key])
                  => j.attempts + 1 <= failures[j.key]

AttemptsAreFailures == \A k \in Key : row[k].attempts <= failures[k]

IInv ==
    /\ TypeOK
    /\ RowsStartAtOne
    /\ JobsMatchRows
    /\ LocksAreDistinct
    /\ LocksAreKept
    /\ CurrentIsSound
    /\ AttemptsAreFailures
    /\ CompletedIsHandled
    /\ DeadLetterIsExhausted
-----------------------------------------------------------------------------
(* The inductive invariant behind RetryBudgetIsExact.                      *)

\* One claim takes one job of a key.
OneJobPerKey == \A w \in Worker : \A i, j \in batch[w] : i.key = j.key => i = j

\* The lock of a row is that of its newest claim, so no job has a payload that
\* came after it; until the row is released, such a payload cannot fail.
NewestHoldsLock ==
    \A k \in Key : row[k].status = "processing" =>
        /\ row[k].lockedRevision <= row[k].revision
        /\ \A w \in Worker : \A j \in batch[w] : j.key = k => j.rev <= row[k].lockedRevision
        /\ Superseded(row[k]) => failures[k] = 0

\* Worker w may yet report a failed handler call for its job j.
CanStillFail(w, j) ==
    \/ pc[w] = "handling" /\ j = current[w]
    \/ /\ ~cancelled[w]
       /\ pc[w] = "batch" \/ (pc[w] \in {"handling", "succeeded", "failed"} /\ j # current[w])

\* The workers that may yet fail the row's payload without counting it, because
\* they lost the lock or are to stop.
Risk(k) ==
    {w \in Worker : \E j \in batch[w] :
        /\ j.key = k /\ j.rev = row[k].revision
        /\ CanStillFail(w, j)
        /\ ~HoldsLock(row[k], j.token) \/ cancelled[w]}

\* The worker that is about to count a failure of the row's payload.
Counting(k) ==
    {w \in Worker :
        /\ pc[w] = "failed" /\ ~cancelled[w]
        /\ current[w].key = k /\ current[w].rev = row[k].revision
        /\ HoldsLock(row[k], current[w].token)}

Owed(k) == IF Counting(k) = {} THEN 0 ELSE 1

\* Every failure is counted, is about to be, or was paid for by a fault or a
\* takeover; and the workers that may add an uncounted one were paid for already.
Paid(k) ==
    /\ IsFiniteSet(Risk(k))
    /\ Cardinality(Risk(k)) <= faults + overruns
    /\ failures[k] + Cardinality(Risk(k)) <= row[k].attempts + faults + overruns + Owed(k)

FailuresArePaid == \A k \in Key : Paid(k)

BudgetInv == IInv /\ OneJobPerKey /\ NewestHoldsLock /\ FailuresArePaid
-----------------------------------------------------------------------------
(* What the outbox promises its producers, as an abstract specification.   *)

Outcome(k) ==
    CASE row[k].status = "absent"      -> "none"
      [] row[k].status = "completed"   -> "done"
      [] row[k].status = "dead_letter" -> "dead"
      [] OTHER                         -> "open"

Abstract == INSTANCE AtLeastOnce WITH
    submitted <- [k \in Key |-> row[k].revision],
    outcome   <- [k \in Key |-> Outcome(k)]

\* Every step of the workers and producers is a step of the promise, or none.
ImplementsAtLeastOnce == Abstract!Spec

\* Once the faults are over, every row that is owed a handler call is completed
\* or given up.
EverythingSettles == Abstract!Settles
=============================================================================
