---------------------------- MODULE OutboxProofs ----------------------------
(***************************************************************************)
(* What is proved about the outbox, for any number of keys, workers and    *)
(* claim instants, any batch size and any attempt limit: the inductive     *)
(* invariant IInv, one lemma per action, and from it the safety properties *)
(* and the refinement of AtLeastOnce.                                      *)
(***************************************************************************)
EXTENDS Outbox, TLAPS

-----------------------------------------------------------------------------
(* The row operators.                                                      *)

\* An upsert adds one revision, resets the attempts and leaves a lease alone.
LEMMA UpsertedRow ==
  ASSUME NEW r \in Row
  PROVE  /\ Upserted(r) \in Row
         /\ Upserted(r).revision = r.revision + 1
         /\ Upserted(r).attempts = 0
         /\ r.status = "processing" => /\ Upserted(r).status = "processing"
                                       /\ Upserted(r).lockedAt = r.lockedAt
                                       /\ Upserted(r).lockedRevision = r.lockedRevision
         /\ r.status # "processing" => Upserted(r).status = "pending"
<1>0. r.revision + 1 \in Nat /\ 0 \in Nat /\ "pending" \in Status
  BY DEF Row, Status
<1>1. ASSUME r.status = "processing"
      PROVE  Upserted(r) = [r EXCEPT !.revision = r.revision + 1, !.attempts = 0]
  BY <1>1 DEF Upserted
<1>2. ASSUME r.status # "processing"
      PROVE  Upserted(r) = [r EXCEPT !.revision = r.revision + 1, !.attempts = 0,
                                     !.status = "pending", !.lockedAt = NoToken,
                                     !.lockedRevision = 0]
  BY <1>2 DEF Upserted
<1>3. Upserted(r) \in Row
  BY <1>0, <1>1, <1>2 DEF Row
<1>4. Upserted(r).revision = r.revision + 1 /\ Upserted(r).attempts = 0
  BY <1>0, <1>1, <1>2 DEF Row
<1>5. r.status # "processing" => Upserted(r).status = "pending"
  BY <1>2 DEF Row
<1>6. r.status = "processing" => /\ Upserted(r).status = "processing"
                                 /\ Upserted(r).lockedAt = r.lockedAt
                                 /\ Upserted(r).lockedRevision = r.lockedRevision
  BY <1>1 DEF Row
<1> QED
  BY <1>3, <1>4, <1>5, <1>6

\* A claim takes the lease at the revision the row has, and counts nothing.
LEMMA ClaimedRow ==
  ASSUME NEW r \in Row, NEW t \in Token
  PROVE  /\ Claimed(r, t) \in Row
         /\ Claimed(r, t).status = "processing"
         /\ Claimed(r, t).lockedAt = t
         /\ Claimed(r, t).lockedRevision = r.revision
         /\ Claimed(r, t).revision = r.revision
         /\ Claimed(r, t).attempts = r.attempts
BY DEF Claimed, Row, Status

\* A mark statement sets status and attempts and leaves the payload.
LEMMA ReleasedRow ==
  ASSUME NEW r \in Row, NEW status \in Status, NEW n \in Nat
  PROVE  /\ Released(r, status, n) \in Row
         /\ Released(r, status, n).status = status
         /\ Released(r, status, n).attempts = n
         /\ Released(r, status, n).revision = r.revision
BY DEF Released, Row, Status

\* The invariant holds before anything was enqueued.
LEMMA InitInv == Init => IInv
BY NoTokenAssumption, ConstantsAssumption
   DEF Init, IInv, TypeOK, RowsStartAtOne, JobsMatchRows, LocksAreDistinct, LocksAreKept,
       CurrentIsSound, AttemptsAreFailures, CompletedIsHandled, DeadLetterIsExhausted,
       AbsentRow, HoldsLock, Superseded, Row, Status, PC

\* New payloads, also those that supersede a payload in progress, keep it.
LEMMA UpsertInv ==
  ASSUME IInv, NEW S, Upsert(S)
  PROVE  IInv'
<1> USE NoTokenAssumption, ConstantsAssumption DEF IInv
<1>0. /\ row' = [k \in Key |-> IF k \in S THEN Upserted(row[k]) ELSE row[k]]
      /\ failures' = [k \in Key |-> IF k \in S THEN 0 ELSE failures[k]]
      /\ UNCHANGED <<pc, batch, current, cancelled, handled, faults, overruns>>
  BY DEF Upsert, workerVars
<1>r. row \in [Key -> Row]
  BY DEF TypeOK
<1>u. \A k \in Key : k \in S =>
         /\ row'[k] \in Row
         /\ row'[k].revision = row[k].revision + 1
         /\ row'[k].attempts = 0
         /\ row[k].status = "processing" => /\ row'[k].status = "processing"
                                            /\ row'[k].lockedAt = row[k].lockedAt
                                            /\ row'[k].lockedRevision = row[k].lockedRevision
         /\ row[k].status # "processing" => row'[k].status = "pending"
  BY <1>0, <1>r, UpsertedRow
<1>f. \A k \in Key : k \notin S => row'[k] = row[k] /\ failures'[k] = failures[k]
  BY <1>0, <1>r DEF TypeOK
<1>g. \A k \in Key : k \in S => failures'[k] = 0
  BY <1>0
<1>1. TypeOK'
  BY <1>0, <1>r, <1>u DEF TypeOK
<1>2. RowsStartAtOne'
  BY <1>0, <1>u, <1>f, <1>r DEF RowsStartAtOne, Row
<1>3. JobsMatchRows'
  BY <1>0, <1>u, <1>f, <1>r DEF TypeOK, JobsMatchRows, HoldsLock, Superseded, Row, Job
<1>4. LocksAreDistinct'
  BY <1>0 DEF LocksAreDistinct
<1>5. LocksAreKept'
  BY <1>0, <1>u, <1>f DEF TypeOK, LocksAreKept, HoldsLock, Job
<1>6. CurrentIsSound'
  <2>1. \A w \in Worker : pc[w] = "failed" =>
           LET j == current[w]
           IN HoldsLock(row'[j.key], j.token) /\ ~Superseded(row'[j.key])
                  => HoldsLock(row[j.key], j.token) /\ ~Superseded(row[j.key])
                     /\ failures'[j.key] = failures[j.key]
    BY <1>u, <1>f, <1>r DEF TypeOK, CurrentIsSound, JobsMatchRows, HoldsLock, Superseded, Row, Job
  <2> QED
    BY <1>0, <2>1 DEF CurrentIsSound
<1>7. AttemptsAreFailures'
  BY <1>u, <1>f, <1>g DEF TypeOK, AttemptsAreFailures
<1>8. CompletedIsHandled' /\ DeadLetterIsExhausted'
  BY <1>0, <1>u, <1>f DEF TypeOK, CompletedIsHandled, DeadLetterIsExhausted
<1> QED
  BY <1>1, <1>2, <1>3, <1>4, <1>5, <1>6, <1>7, <1>8

\* A claim keeps it, also one that takes rows from a worker still at work.
LEMMA ClaimInv ==
  ASSUME IInv, NEW w \in Worker, NEW S \in SUBSET Key, NEW t \in Token, Claim(w, S, t)
  PROVE  IInv'
<1> USE NoTokenAssumption, ConstantsAssumption DEF IInv
<1>0. /\ row' = [k \in Key |-> IF k \in S THEN Claimed(row[k], t) ELSE row[k]]
      /\ batch' = [batch EXCEPT ![w] = {JobOf(k, t) : k \in S}]
      /\ pc' = [pc EXCEPT ![w] = "batch"]
      /\ \A k \in S : Claimable(row[k])
      /\ Fresh(t)
      /\ UNCHANGED <<current, cancelled, handled, failures, faults>>
  BY DEF Claim
<1>r. row \in [Key -> Row]
  BY DEF TypeOK
<1>a. /\ overruns' \in Nat
      /\ overruns' = 0 => overruns = 0 /\ \A k \in S : ~LiveHolder(k)
  BY DEF Claim, TypeOK
<1>b. \A j \in batch'[w] : j.key \in S /\ j = JobOf(j.key, t)
  BY <1>0 DEF TypeOK, JobOf
<1>c. \A v \in Worker : v # w => batch'[v] = batch[v]
  BY <1>0 DEF TypeOK
<1>d. batch' \in [Worker -> SUBSET Job]
  <2>1. \A k \in S : JobOf(k, t) \in Job
    BY <1>r DEF JobOf, Job, Row
  <2> QED
    BY <2>1, <1>0 DEF TypeOK
<1>s. \A k \in S : /\ row'[k] \in Row
                   /\ row'[k].status = "processing"
                   /\ row'[k].lockedAt = t
                   /\ row'[k].lockedRevision = row[k].revision
                   /\ row'[k].revision = row[k].revision
                   /\ row'[k].attempts = row[k].attempts
                   /\ row[k].status \in {"pending", "failed", "processing"}
  BY <1>0, <1>r, ClaimedRow DEF Claimable
<1>f. \A k \in Key : k \notin S => row'[k] = row[k]
  BY <1>0
<1>1. TypeOK'
  BY <1>0, <1>a, <1>d, <1>r, <1>s, <1>f DEF TypeOK, PC
<1>2. RowsStartAtOne'
  BY <1>s, <1>f DEF RowsStartAtOne
<1>3. JobsMatchRows'
  <2> SUFFICES ASSUME NEW v \in Worker, NEW j \in batch'[v]
               PROVE  LET r == row'[j.key]
                      IN /\ 1 <= j.rev /\ j.rev <= r.revision
                         /\ HoldsLock(r, j.token) => r.lockedRevision = j.rev
                         /\ HoldsLock(r, j.token) /\ ~Superseded(r) => r.attempts = j.attempts
    BY DEF JobsMatchRows
  <2>1. CASE v = w
    <3>1. j.key \in S /\ j.rev = row[j.key].revision /\ j.attempts = row[j.key].attempts
      BY <2>1, <1>b DEF JobOf
    <3>2. row[j.key] \in Row
      BY <3>1, <1>r
    <3> QED
      BY <3>1, <3>2, <1>s DEF RowsStartAtOne, Row
  <2>2. CASE v # w
    <3>1. j \in batch[v] /\ j.token # t /\ j.key \in Key
      BY <2>2, <1>0, <1>c DEF TypeOK, Fresh, Job
    <3> QED
      BY <3>1, <1>s, <1>f DEF JobsMatchRows, HoldsLock, Superseded
  <2> QED
    BY <2>1, <2>2
<1>4. LocksAreDistinct'
  <2>1. \A j \in batch'[w] : j.token = t
    BY <1>b DEF JobOf
  <2>2. \A v \in Worker : \A j \in batch'[v] : v # w => j.token # t
    BY <1>0, <1>c DEF Fresh
  <2> QED
    BY <2>1, <2>2, <1>b, <1>c DEF LocksAreDistinct
<1>5. LocksAreKept'
  <2> SUFFICES ASSUME overruns' = 0, NEW v \in Worker, NEW j \in batch'[v]
               PROVE  HoldsLock(row'[j.key], j.token)
    BY DEF LocksAreKept
  <2>1. CASE v = w
    BY <2>1, <1>b, <1>s DEF HoldsLock, JobOf
  <2>2. CASE v # w
    <3>1. j \in batch[v] /\ HoldsLock(row[j.key], j.token)
      BY <2>2, <1>a, <1>c DEF LocksAreKept
    <3>2. j.key \notin S /\ j.key \in Key
      BY <3>1, <1>a DEF LiveHolder, TypeOK, Job
    <3> QED
      BY <3>1, <3>2, <1>f
  <2> QED
    BY <2>1, <2>2
<1>6. CurrentIsSound'
  <2> SUFFICES ASSUME NEW v \in Worker
               PROVE  /\ pc'[v] \in {"idle", "down"} => batch'[v] = {}
                      /\ pc'[v] \in {"handling", "succeeded", "failed"} => current'[v] \in batch'[v]
                      /\ pc'[v] = "succeeded" => current'[v].rev \in handled'[current'[v].key]
                      /\ LET j == current'[v]
                         IN pc'[v] = "failed" /\ HoldsLock(row'[j.key], j.token) /\ ~Superseded(row'[j.key])
                                => j.attempts + 1 <= failures'[j.key]
    BY DEF CurrentIsSound
  <2>1. CASE v = w
    BY <2>1, <1>0 DEF TypeOK
  <2>2. CASE v # w
    <3>1. pc'[v] = pc[v] /\ batch'[v] = batch[v] /\ current'[v] = current[v]
      BY <2>2, <1>0 DEF TypeOK
    <3>2. pc[v] = "failed" => current[v] \in batch[v] /\ current[v].key \in Key /\ current[v].token # t
      BY <1>0 DEF CurrentIsSound, Fresh, TypeOK, Job
    <3> QED
      BY <3>1, <3>2, <1>0, <1>s, <1>f DEF CurrentIsSound, HoldsLock, Superseded
  <2> QED
    BY <2>1, <2>2
<1>7. AttemptsAreFailures'
  BY <1>0, <1>s, <1>f DEF AttemptsAreFailures
<1>8. CompletedIsHandled' /\ DeadLetterIsExhausted'
  BY <1>0, <1>s, <1>f DEF CompletedIsHandled, DeadLetterIsExhausted
<1> QED
  BY <1>1, <1>2, <1>3, <1>4, <1>5, <1>6, <1>7, <1>8

\* Requeueing what was given up keeps it: no live job can hold that row.
LEMMA RequeueInv ==
  ASSUME IInv, NEW k \in Key, Requeue(k)
  PROVE  IInv'
<1> USE NoTokenAssumption, ConstantsAssumption DEF IInv
<1>0. /\ row' = [row EXCEPT ![k] = Requeued(row[k])]
      /\ row[k].status = "dead_letter"
      /\ failures' = [failures EXCEPT ![k] = 0]
      /\ UNCHANGED <<pc, batch, current, cancelled, handled, faults, overruns>>
  BY DEF Requeue, workerVars
<1>r. row \in [Key -> Row] /\ row[k] \in Row
  BY DEF TypeOK
<1>u. /\ row'[k] \in Row
      /\ row'[k].status = "pending"
      /\ row'[k].attempts = 0
      /\ row'[k].revision = row[k].revision
  <2>1. row'[k] = Released(row[k], "pending", 0)
    BY <1>0, <1>r DEF Requeued
  <2>2. "pending" \in Status /\ 0 \in Nat
    BY DEF Status
  <2> QED
    BY <2>1, <2>2, <1>r, ReleasedRow
<1>f. \A q \in Key : q # k => row'[q] = row[q]
  BY <1>0, <1>r
<1>1. TypeOK'
  BY <1>0, <1>r, <1>u DEF TypeOK
<1>2. RowsStartAtOne'
  BY <1>0, <1>u, <1>f DEF RowsStartAtOne
<1>3. JobsMatchRows'
  BY <1>0, <1>u, <1>f DEF TypeOK, JobsMatchRows, HoldsLock, Superseded, Job
<1>4. LocksAreDistinct'
  BY <1>0 DEF LocksAreDistinct
<1>5. LocksAreKept'
  BY <1>0, <1>u, <1>f DEF TypeOK, LocksAreKept, HoldsLock, Job
<1>6. CurrentIsSound'
  BY <1>0, <1>u, <1>f DEF TypeOK, CurrentIsSound, HoldsLock, Superseded, Job
<1>7. AttemptsAreFailures'
  BY <1>0, <1>u, <1>f DEF TypeOK, AttemptsAreFailures
<1>8. CompletedIsHandled' /\ DeadLetterIsExhausted'
  BY <1>0, <1>u, <1>f DEF TypeOK, CompletedIsHandled, DeadLetterIsExhausted
<1> QED
  BY <1>1, <1>2, <1>3, <1>4, <1>5, <1>6, <1>7, <1>8

(* Steps of a worker that touch neither the rows nor what it has claimed.  *)

\* Starting the handler on a claimed job keeps it.
LEMMA StartJobInv ==
  ASSUME IInv, NEW w \in Worker, NEW j \in batch[w], StartJob(w, j)
  PROVE  IInv'
<1> USE ConstantsAssumption DEF IInv
<1>0. /\ pc' = [pc EXCEPT ![w] = "handling"]
      /\ current' = [current EXCEPT ![w] = j]
      /\ UNCHANGED <<row, batch, cancelled, handled, failures, faults, overruns>>
  BY DEF StartJob
<1>1. TypeOK'
  BY <1>0 DEF TypeOK, PC
<1>2. RowsStartAtOne' /\ JobsMatchRows' /\ LocksAreDistinct' /\ LocksAreKept'
  BY <1>0 DEF RowsStartAtOne, JobsMatchRows, LocksAreDistinct, LocksAreKept
<1>3. AttemptsAreFailures' /\ CompletedIsHandled' /\ DeadLetterIsExhausted'
  BY <1>0 DEF AttemptsAreFailures, CompletedIsHandled, DeadLetterIsExhausted
<1>4. CurrentIsSound'
  BY <1>0 DEF CurrentIsSound, TypeOK
<1> QED
  BY <1>1, <1>2, <1>3, <1>4

\* A handler call that succeeds keeps it.
LEMMA HandlerSucceedsInv ==
  ASSUME IInv, NEW w \in Worker, HandlerSucceeds(w)
  PROVE  IInv'
<1> USE ConstantsAssumption DEF IInv
<1>0. /\ pc[w] = "handling"
      /\ pc' = [pc EXCEPT ![w] = "succeeded"]
      /\ handled' = [handled EXCEPT ![current[w].key] = @ \cup {current[w].rev}]
      /\ UNCHANGED <<row, batch, current, cancelled, failures, faults, overruns>>
  BY DEF HandlerSucceeds
<1>j. current[w] \in batch[w] /\ current[w].key \in Key /\ current[w].rev \in Nat
  BY <1>0 DEF CurrentIsSound, TypeOK, Job
<1>h. /\ current[w].rev \in handled'[current[w].key]
      /\ \A k \in Key : handled[k] \subseteq handled'[k]
  BY <1>0, <1>j DEF TypeOK
<1>1. TypeOK'
  BY <1>0, <1>j DEF TypeOK, PC
<1>2. RowsStartAtOne' /\ JobsMatchRows' /\ LocksAreDistinct' /\ LocksAreKept' /\ AttemptsAreFailures'
  BY <1>0 DEF RowsStartAtOne, JobsMatchRows, LocksAreDistinct, LocksAreKept, AttemptsAreFailures
<1>3. CurrentIsSound'
  <2>1. \A v \in Worker : v # w => pc'[v] = pc[v]
    BY <1>0 DEF TypeOK
  <2>2. pc'[w] = "succeeded"
    BY <1>0 DEF TypeOK
  <2>3. \A v \in Worker : pc[v] = "succeeded" => current[v].key \in Key
    BY DEF CurrentIsSound, TypeOK, Job
  <2> QED
    BY <2>1, <2>2, <2>3, <1>0, <1>j, <1>h DEF CurrentIsSound
<1>4. CompletedIsHandled' /\ DeadLetterIsExhausted'
  BY <1>0, <1>h DEF CompletedIsHandled, DeadLetterIsExhausted
<1> QED
  BY <1>1, <1>2, <1>3, <1>4

\* So does one that fails: it counts if its payload is still the latest.
LEMMA HandlerFailsInv ==
  ASSUME IInv, NEW w \in Worker, HandlerFails(w)
  PROVE  IInv'
<1> USE ConstantsAssumption DEF IInv
<1> DEFINE j == current[w]
<1>0. /\ pc[w] = "handling"
      /\ pc' = [pc EXCEPT ![w] = "failed"]
      /\ failures' = IF j.rev = row[j.key].revision
                     THEN [failures EXCEPT ![j.key] = @ + 1] ELSE failures
      /\ UNCHANGED <<row, batch, current, cancelled, handled, faults, overruns>>
  BY DEF HandlerFails
<1>j. j \in batch[w] /\ j \in Job /\ j.key \in Key /\ row[j.key] \in Row
  BY <1>0 DEF CurrentIsSound, TypeOK, Job
<1>f. /\ failures' \in [Key -> Nat]
      /\ \A k \in Key : failures[k] <= failures'[k]
      /\ j.rev = row[j.key].revision => failures'[j.key] = failures[j.key] + 1
  BY <1>0, <1>j DEF TypeOK
<1>1. TypeOK'
  BY <1>0, <1>f DEF TypeOK, PC
<1>2. RowsStartAtOne' /\ JobsMatchRows' /\ LocksAreDistinct' /\ LocksAreKept' /\ CompletedIsHandled'
  BY <1>0 DEF RowsStartAtOne, JobsMatchRows, LocksAreDistinct, LocksAreKept, CompletedIsHandled
<1>3. AttemptsAreFailures' /\ DeadLetterIsExhausted'
  BY <1>0, <1>f DEF AttemptsAreFailures, DeadLetterIsExhausted, TypeOK, Row
<1>4. CurrentIsSound'
  <2>1. \A v \in Worker : v # w => pc'[v] = pc[v]
    BY <1>0 DEF TypeOK
  <2>2. pc'[w] = "failed"
    BY <1>0 DEF TypeOK
  <2>3. \A v \in Worker : pc[v] = "failed" => current[v].key \in Key /\ current[v].attempts \in Nat
    BY DEF CurrentIsSound, TypeOK, Job
  <2>4. HoldsLock(row[j.key], j.token) /\ ~Superseded(row[j.key])
           => j.attempts + 1 <= failures'[j.key]
    BY <1>j, <1>f DEF JobsMatchRows, AttemptsAreFailures, Superseded, TypeOK, Job, Row
  <2> QED
    BY <2>1, <2>2, <2>3, <2>4, <1>0, <1>j, <1>f DEF CurrentIsSound, TypeOK
<1> QED
  BY <1>1, <1>2, <1>3, <1>4

-----------------------------------------------------------------------------
(* Steps of a worker that are done with some of its jobs.                  *)

\* Whatever becomes of a job a worker forgets: its row is left alone, or is
\* released to r2 if the worker still holds its lock.
LEMMA ForgetInv ==
  ASSUME IInv, NEW w \in Worker, NEW j \in batch[w], NEW r2 \in Row,
         NEW next \in {"batch", "abandoning"},
         Forget(w, j, next),
         UNCHANGED <<cancelled, handled, failures, overruns>>,
         faults' \in Nat,
         \/ row' = row
         \/ row' = [row EXCEPT ![j.key] = r2] /\ HoldsLock(row[j.key], j.token),
         r2.status \in {"pending", "failed", "completed", "dead_letter"},
         r2.revision = row[j.key].revision,
         r2.attempts <= failures[j.key],
         r2.status = "completed" => r2.revision \in handled[j.key],
         r2.status = "dead_letter" => MaxAttempts > 0 /\ failures[j.key] >= MaxAttempts
  PROVE  IInv'
<1> USE NoTokenAssumption, ConstantsAssumption DEF IInv
<1>0. /\ batch' = [batch EXCEPT ![w] = @ \ {j}]
      /\ pc' = [pc EXCEPT ![w] = IF batch[w] = {j} THEN "idle" ELSE next]
      /\ current' = [current EXCEPT ![w] = NoJob]
  BY DEF Forget
<1>j. j \in Job /\ j.key \in Key
  BY DEF TypeOK, Job
<1>b. /\ batch' \in [Worker -> SUBSET Job]
      /\ \A v \in Worker : batch'[v] \subseteq batch[v]
      /\ \A v \in Worker : v # w => batch'[v] = batch[v] /\ pc'[v] = pc[v] /\ current'[v] = current[v]
      /\ j \notin batch'[w]
      /\ pc'[w] \in {"idle", "batch", "abandoning"}
      /\ pc'[w] = "idle" => batch'[w] = {}
  BY <1>0 DEF TypeOK
<1>r. /\ row' \in [Key -> Row]
      /\ \A k \in Key : k # j.key => row'[k] = row[k]
      /\ \/ row'[j.key] = row[j.key]
         \/ row'[j.key] = r2 /\ HoldsLock(row[j.key], j.token)
  BY <1>j DEF TypeOK
<1>1. TypeOK'
  BY <1>0, <1>b, <1>r DEF TypeOK, PC
<1>2. RowsStartAtOne'
  BY <1>r, <1>j DEF RowsStartAtOne, HoldsLock
<1>3. JobsMatchRows'
  <2> SUFFICES ASSUME NEW v \in Worker, NEW i \in batch'[v]
               PROVE  LET r == row'[i.key]
                      IN /\ 1 <= i.rev /\ i.rev <= r.revision
                         /\ HoldsLock(r, i.token) => r.lockedRevision = i.rev
                         /\ HoldsLock(r, i.token) /\ ~Superseded(r) => r.attempts = i.attempts
    BY DEF JobsMatchRows
  <2>1. i \in batch[v] /\ i.key \in Key
    BY <1>b DEF TypeOK, Job
  <2> QED
    BY <2>1, <1>r DEF JobsMatchRows, HoldsLock, Superseded
<1>4. LocksAreDistinct'
  BY <1>b DEF LocksAreDistinct
<1>5. LocksAreKept'
  <2> SUFFICES ASSUME overruns' = 0, NEW v \in Worker, NEW i \in batch'[v]
               PROVE  HoldsLock(row'[i.key], i.token)
    BY DEF LocksAreKept
  <2>2. i \in batch[v] /\ i.key \in Key /\ HoldsLock(row[i.key], i.token)
    BY <1>b DEF LocksAreKept, TypeOK, Job
  <2>3. i.key = j.key => ~HoldsLock(row[j.key], j.token)
    <3>1. ~(v = w /\ i = j)
      BY <1>b
    <3> QED
      BY <3>1, <2>2 DEF LocksAreDistinct, HoldsLock
  <2> QED
    BY <2>2, <2>3, <1>r
<1>6. CurrentIsSound'
  <2> SUFFICES ASSUME NEW v \in Worker
               PROVE  /\ pc'[v] \in {"idle", "down"} => batch'[v] = {}
                      /\ pc'[v] \in {"handling", "succeeded", "failed"} => current'[v] \in batch'[v]
                      /\ pc'[v] = "succeeded" => current'[v].rev \in handled'[current'[v].key]
                      /\ LET i == current'[v]
                         IN pc'[v] = "failed" /\ HoldsLock(row'[i.key], i.token) /\ ~Superseded(row'[i.key])
                                => i.attempts + 1 <= failures'[i.key]
    BY DEF CurrentIsSound
  <2>1. CASE v = w
    BY <2>1, <1>b
  <2>2. CASE v # w
    <3>1. pc[v] = "failed" => current[v].key \in Key
      BY DEF CurrentIsSound, TypeOK, Job
    <3> QED
      BY <2>2, <3>1, <1>b, <1>r DEF CurrentIsSound, HoldsLock, Superseded
  <2> QED
    BY <2>1, <2>2
<1>7. AttemptsAreFailures'
  BY <1>r DEF AttemptsAreFailures
<1>8. CompletedIsHandled' /\ DeadLetterIsExhausted'
  BY <1>r DEF CompletedIsHandled, DeadLetterIsExhausted
<1> QED
  BY <1>1, <1>2, <1>3, <1>4, <1>5, <1>6, <1>7, <1>8

\* A worker that forgets a job and leaves its row alone keeps it.
LEMMA ForgetNothingInv ==
  ASSUME IInv, NEW w \in Worker, NEW j \in batch[w],
         NEW next \in {"batch", "abandoning"},
         Forget(w, j, next),
         UNCHANGED <<row, cancelled, handled, failures, overruns>>,
         faults' \in Nat
  PROVE  IInv'
<1> DEFINE r2 == Released(row[j.key], "pending", 0)
<1>1. j.key \in Key /\ row[j.key] \in Row /\ "pending" \in Status /\ 0 \in Nat
  BY DEF IInv, TypeOK, Job, Status
<1>2. r2 \in Row /\ r2.status = "pending" /\ r2.attempts = 0 /\ r2.revision = row[j.key].revision
  BY <1>1, ReleasedRow
<1>3. 0 <= failures[j.key]
  BY <1>1 DEF IInv, TypeOK
<1> HIDE DEF r2
<1> QED
  BY <1>1, <1>2, <1>3, ForgetInv

\* MarkJobDone keeps it: what it completes was handled, or it reschedules.
LEMMA MarkJobDoneInv ==
  ASSUME IInv, NEW w \in Worker, MarkJobDone(w)
  PROVE  IInv'
<1> DEFINE j == current[w]
           r == row[j.key]
           r2 == MarkedDone(r)
<1>1. /\ Mark(j, MarkedDone(RowOf(j)))
      /\ Forget(w, j, "batch")
      /\ UNCHANGED <<cancelled, handled, failures, faults, overruns>>
  BY DEF MarkJobDone
<1>2. j \in batch[w] /\ j \in Job /\ j.key \in Key /\ r \in Row /\ j.rev \in handled[j.key]
  BY DEF MarkJobDone, IInv, CurrentIsSound, TypeOK, Job
<1>3. CASE HoldsLock(r, j.token)
  <2>1. /\ r2 \in Row
        /\ r2.status \in {"pending", "completed"}
        /\ r2.revision = r.revision
        /\ r2.attempts <= failures[j.key]
        /\ r2.status = "completed" => ~Superseded(r)
    <3>1. CASE Superseded(r)
      <4>1. r2 = Released(r, "pending", 0) /\ "pending" \in Status /\ 0 \in Nat
        BY <3>1 DEF MarkedDone, Rescheduled, Status
      <4> QED
        BY <4>1, <1>2, ReleasedRow DEF IInv, TypeOK
    <3>2. CASE ~Superseded(r)
      <4>1. r2 = Released(r, "completed", r.attempts) /\ "completed" \in Status /\ r.attempts \in Nat
        BY <3>2, <1>2 DEF MarkedDone, Row, Status
      <4> QED
        BY <3>2, <4>1, <1>2, ReleasedRow DEF IInv, AttemptsAreFailures
    <3> QED
      BY <3>1, <3>2
  <2>2. r2.status = "completed" => r2.revision \in handled[j.key]
    BY <1>2, <1>3, <2>1 DEF IInv, JobsMatchRows, Superseded
  <2>3. row' = [row EXCEPT ![j.key] = r2]
    BY <1>1, <1>3 DEF Mark, RowOf
  <2> HIDE DEF r2
  <2> QED
    BY <1>1, <1>2, <1>3, <2>1, <2>2, <2>3, ForgetInv DEF IInv, TypeOK
<1>4. CASE ~HoldsLock(r, j.token)
  <2>1. row' = row
    BY <1>1, <1>4 DEF Mark
  <2> QED
    BY <1>1, <1>2, <2>1, ForgetNothingInv DEF IInv, TypeOK
<1> QED
  BY <1>3, <1>4

\* MarkJobFailure keeps it: what it counts or gives up has failed that often.
LEMMA MarkJobFailureInv ==
  ASSUME IInv, NEW w \in Worker, MarkJobFailure(w)
  PROVE  IInv'
<1> DEFINE j == current[w]
           r == row[j.key]
<1>1. /\ \/ ReachedMaxAttempts(j) /\ Mark(j, MarkedDeadLetter(RowOf(j)))
         \/ Mark(j, MarkedRetry(RowOf(j)))
      /\ Forget(w, j, "batch")
      /\ UNCHANGED <<cancelled, handled, failures, faults, overruns>>
  BY DEF MarkJobFailure
<1>2. /\ j \in batch[w] /\ j \in Job /\ j.key \in Key /\ r \in Row
      /\ HoldsLock(r, j.token) /\ ~Superseded(r) =>
             r.attempts = j.attempts /\ j.attempts + 1 <= failures[j.key]
  BY DEF MarkJobFailure, IInv, CurrentIsSound, JobsMatchRows, TypeOK, Job
<1>3. ASSUME HoldsLock(r, j.token), NEW s \in {"failed", "dead_letter"},
             NEW r2, r2 = IF Superseded(r) THEN Rescheduled(r) ELSE Released(r, s, r.attempts + 1)
      PROVE  /\ r2 \in Row
             /\ r2.status \in {"pending", s}
             /\ r2.revision = r.revision
             /\ r2.attempts <= failures[j.key]
             /\ r2.status = s => r.attempts = j.attempts /\ j.attempts + 1 <= failures[j.key]
  <2>1. CASE Superseded(r)
    <3>1. r2 = Released(r, "pending", 0) /\ "pending" \in Status /\ 0 \in Nat
      BY <1>3, <2>1 DEF Rescheduled, Status
    <3> QED
      BY <3>1, <1>2, ReleasedRow DEF IInv, TypeOK
  <2>2. CASE ~Superseded(r)
    <3>1. r2 = Released(r, s, r.attempts + 1) /\ s \in Status /\ r.attempts + 1 \in Nat
      BY <1>2, <1>3, <2>2 DEF Row, Status
    <3>2. r.attempts = j.attempts /\ j.attempts + 1 <= failures[j.key]
      BY <1>2, <1>3, <2>2
    <3>3. r.attempts + 1 <= failures[j.key]
      BY <3>2
    <3>4. /\ r2 \in Row /\ r2.status = s /\ r2.revision = r.revision
          /\ r2.attempts = r.attempts + 1
      BY <1>2, <3>1, ReleasedRow
    <3> QED
      BY <3>2, <3>3, <3>4
  <2> QED
    BY <2>1, <2>2
<1>4. CASE HoldsLock(r, j.token) /\ ReachedMaxAttempts(j) /\ Mark(j, MarkedDeadLetter(RowOf(j)))
  <2> DEFINE r2 == MarkedDeadLetter(r)
  <2>1. r2 = IF Superseded(r) THEN Rescheduled(r) ELSE Released(r, "dead_letter", r.attempts + 1)
    BY DEF MarkedDeadLetter
  <2>2. row' = [row EXCEPT ![j.key] = r2]
    BY <1>4 DEF Mark, RowOf
  <2> HIDE DEF r2
  <2>3. /\ r2 \in Row
        /\ r2.status \in {"pending", "dead_letter"}
        /\ r2.revision = r.revision
        /\ r2.attempts <= failures[j.key]
        /\ r2.status = "dead_letter" => j.attempts + 1 <= failures[j.key]
    BY <1>3, <1>4, <2>1
  <2>4. r2.status = "dead_letter" => MaxAttempts > 0 /\ failures[j.key] >= MaxAttempts
    BY <1>2, <1>4, <2>3, ConstantsAssumption DEF ReachedMaxAttempts, Job, IInv, TypeOK
  <2> QED
    BY <1>1, <1>2, <1>4, <2>2, <2>3, <2>4, ForgetInv DEF IInv, TypeOK
<1>5. CASE HoldsLock(r, j.token) /\ Mark(j, MarkedRetry(RowOf(j)))
  <2> DEFINE r2 == MarkedRetry(r)
  <2>1. r2 = IF Superseded(r) THEN Rescheduled(r) ELSE Released(r, "failed", r.attempts + 1)
    BY DEF MarkedRetry
  <2>2. row' = [row EXCEPT ![j.key] = r2]
    BY <1>5 DEF Mark, RowOf
  <2> HIDE DEF r2
  <2>3. /\ r2 \in Row
        /\ r2.status \in {"pending", "failed"}
        /\ r2.revision = r.revision
        /\ r2.attempts <= failures[j.key]
    BY <1>3, <1>5, <2>1
  <2> QED
    BY <1>1, <1>2, <1>5, <2>2, <2>3, ForgetInv DEF IInv, TypeOK
<1>6. CASE ~HoldsLock(r, j.token)
  <2>1. row' = row
    BY <1>1, <1>6 DEF Mark
  <2> QED
    BY <1>1, <1>2, <2>1, ForgetNothingInv DEF IInv, TypeOK
<1> QED
  BY <1>1, <1>4, <1>5, <1>6

\* Giving a job back at shutdown keeps it.
LEMMA MarkJobAbandonedInv ==
  ASSUME IInv, NEW w \in Worker, NEW j \in batch[w], MarkJobAbandoned(w, j)
  PROVE  IInv'
<1> DEFINE r == row[j.key]
           r2 == MarkedAbandoned(r)
<1>1. /\ Mark(j, MarkedAbandoned(RowOf(j)))
      /\ Forget(w, j, "abandoning")
      /\ UNCHANGED <<cancelled, handled, failures, faults, overruns>>
  BY DEF MarkJobAbandoned
<1>2. j \in Job /\ j.key \in Key /\ r \in Row
  BY DEF IInv, TypeOK, Job
<1>3. CASE HoldsLock(r, j.token)
  <2>1. r2 = Released(r, "pending", r.attempts) /\ "pending" \in Status /\ r.attempts \in Nat
    BY <1>2 DEF MarkedAbandoned, Row, Status
  <2>2. row' = [row EXCEPT ![j.key] = r2]
    BY <1>1, <1>3 DEF Mark, RowOf
  <2> HIDE DEF r2
  <2>3. r2 \in Row /\ r2.status = "pending" /\ r2.revision = r.revision /\ r2.attempts <= failures[j.key]
    BY <1>2, <2>1, ReleasedRow DEF IInv, AttemptsAreFailures
  <2> QED
    BY <1>1, <1>2, <1>3, <2>2, <2>3, ForgetInv DEF IInv, TypeOK
<1>4. CASE ~HoldsLock(r, j.token)
  <2>1. row' = row
    BY <1>1, <1>4 DEF Mark
  <2> QED
    BY <1>1, <2>1, ForgetNothingInv DEF IInv, TypeOK
<1> QED
  BY <1>3, <1>4

\* Losing a mark keeps it: the row stays locked until it is stale.
LEMMA LoseMarkInv ==
  ASSUME IInv, NEW w \in Worker, LoseMark(w)
  PROVE  IInv'
<1>1. /\ Forget(w, current[w], "batch")
      /\ current[w] \in batch[w]
      /\ faults' \in Nat
      /\ UNCHANGED <<row, cancelled, handled, failures, overruns>>
  BY DEF LoseMark, IInv, TypeOK, CurrentIsSound
<1> QED
  BY <1>1, ForgetNothingInv

\* So does losing the mark of an abandoned job.
LEMMA LoseAbandonInv ==
  ASSUME IInv, NEW w \in Worker, NEW j \in batch[w], LoseAbandon(w, j)
  PROVE  IInv'
<1>1. /\ Forget(w, j, "abandoning")
      /\ faults' \in Nat
      /\ UNCHANGED <<row, cancelled, handled, failures, overruns>>
  BY DEF LoseAbandon, IInv, TypeOK
<1> QED
  BY <1>1, ForgetNothingInv

-----------------------------------------------------------------------------
(* Shutdown, crash and restart.                                            *)

\* Cancelling a worker keeps it.
LEMMA ShutdownInv ==
  ASSUME IInv, NEW w \in Worker, Shutdown(w)
  PROVE  IInv'
<1> USE DEF IInv
<1>0. /\ cancelled' = [cancelled EXCEPT ![w] = TRUE]
      /\ faults' = faults + 1
      /\ UNCHANGED <<row, pc, batch, current, handled, failures, overruns>>
  BY DEF Shutdown
<1>1. TypeOK'
  BY <1>0 DEF TypeOK
<1>2. RowsStartAtOne' /\ JobsMatchRows' /\ LocksAreDistinct' /\ LocksAreKept'
  BY <1>0 DEF RowsStartAtOne, JobsMatchRows, LocksAreDistinct, LocksAreKept
<1>3. CurrentIsSound' /\ AttemptsAreFailures' /\ CompletedIsHandled' /\ DeadLetterIsExhausted'
  BY <1>0 DEF CurrentIsSound, AttemptsAreFailures, CompletedIsHandled, DeadLetterIsExhausted
<1> QED
  BY <1>1, <1>2, <1>3

\* Turning from the batch to its return keeps it.
LEMMA AbandonBatchInv ==
  ASSUME IInv, NEW w \in Worker, AbandonBatch(w)
  PROVE  IInv'
<1> USE DEF IInv
<1>0. /\ pc' = [pc EXCEPT ![w] = "abandoning"]
      /\ current' = [current EXCEPT ![w] = NoJob]
      /\ UNCHANGED <<row, batch, cancelled, handled, failures, faults, overruns>>
  BY DEF AbandonBatch
<1>1. TypeOK'
  BY <1>0 DEF TypeOK, PC
<1>2. RowsStartAtOne' /\ JobsMatchRows' /\ LocksAreDistinct' /\ LocksAreKept'
  BY <1>0 DEF RowsStartAtOne, JobsMatchRows, LocksAreDistinct, LocksAreKept
<1>3. AttemptsAreFailures' /\ CompletedIsHandled' /\ DeadLetterIsExhausted'
  BY <1>0 DEF AttemptsAreFailures, CompletedIsHandled, DeadLetterIsExhausted
<1>4. CurrentIsSound'
  BY <1>0 DEF CurrentIsSound, TypeOK
<1> QED
  BY <1>1, <1>2, <1>3, <1>4

\* A worker may return, crash and be restarted.
LEMMA StopAndStartInv ==
  ASSUME IInv, NEW w \in Worker, Exit(w) \/ Crash(w) \/ Start(w)
  PROVE  IInv'
<1> USE DEF IInv
<1>0. /\ pc' \in [Worker -> PC]
      /\ batch' = batch \/ batch' = [batch EXCEPT ![w] = {}]
      /\ pc'[w] \in {"down", "idle"} /\ batch'[w] = {}
      /\ current' \in [Worker -> Job \cup {NoJob}]
      /\ cancelled' \in [Worker -> BOOLEAN]
      /\ \A v \in Worker : v # w => pc'[v] = pc[v] /\ current'[v] = current[v]
      /\ faults' \in Nat
      /\ UNCHANGED <<row, handled, failures, overruns>>
  <2>1. CASE Exit(w)
    BY <2>1 DEF Exit, TypeOK, PC, CurrentIsSound
  <2>2. CASE Crash(w)
    BY <2>2 DEF Crash, TypeOK, PC
  <2>3. CASE Start(w)
    BY <2>3 DEF Start, TypeOK, PC, CurrentIsSound
  <2> QED
    BY <2>1, <2>2, <2>3
<1>b. /\ batch' \in [Worker -> SUBSET Job]
      /\ \A v \in Worker : batch'[v] \subseteq batch[v]
      /\ \A v \in Worker : v # w => batch'[v] = batch[v]
  BY <1>0 DEF TypeOK
<1>1. TypeOK'
  BY <1>0, <1>b DEF TypeOK
<1>2. RowsStartAtOne' /\ JobsMatchRows' /\ LocksAreDistinct' /\ LocksAreKept'
  BY <1>0, <1>b DEF RowsStartAtOne, JobsMatchRows, LocksAreDistinct, LocksAreKept
<1>3. AttemptsAreFailures' /\ CompletedIsHandled' /\ DeadLetterIsExhausted'
  BY <1>0 DEF AttemptsAreFailures, CompletedIsHandled, DeadLetterIsExhausted
<1>4. CurrentIsSound'
  BY <1>0, <1>b DEF CurrentIsSound, TypeOK
<1> QED
  BY <1>1, <1>2, <1>3, <1>4
-----------------------------------------------------------------------------
(* The invariants.                                                         *)

\* A step of the outbox keeps the strengthened invariant, also one that upserts
\* the jobs of several keys.
LEMMA SharedStepInv == IInv /\ [SharedNext]_vars => IInv'
<1> SUFFICES ASSUME IInv, [SharedNext]_vars PROVE IInv'
  OBVIOUS
<1>1. ASSUME Produce PROVE IInv'
  BY <1>1, UpsertInv, RequeueInv DEF Produce, Enqueue
<1>2. ASSUME NEW k \in Key, ClaimOf(k) PROVE IInv'
  BY <1>2, ClaimInv DEF ClaimOf
<1>3. ASSUME NEW w \in Worker, Work(w) PROVE IInv'
  BY <1>3, HandlerSucceedsInv, HandlerFailsInv, MarkJobDoneInv, MarkJobFailureInv,
     AbandonBatchInv, StopAndStartInv, StartJobInv, MarkJobAbandonedInv DEF Work
<1>4. ASSUME NEW w \in Worker, Disturb(w) PROVE IInv'
  BY <1>4, LoseMarkInv, ShutdownInv, StopAndStartInv, LoseAbandonInv DEF Disturb
<1>5. CASE UNCHANGED vars
  BY <1>5 DEF vars, IInv, TypeOK, RowsStartAtOne, JobsMatchRows, LocksAreDistinct, LocksAreKept,
     CurrentIsSound, AttemptsAreFailures, CompletedIsHandled, DeadLetterIsExhausted
<1>6. ASSUME NEW S \in SUBSET Key, Upsert(S) PROVE IInv'
  BY <1>6, UpsertInv
<1> QED
  BY <1>1, <1>2, <1>3, <1>4, <1>5, <1>6 DEF Next, SharedNext

\* The outbox on its own is one that upserts a job at a time.
LEMMA OutboxIsShared == Spec => SharedSpec
<1>1. [Next]_vars => [SharedNext]_vars
  BY DEF SharedNext
<1> QED
  BY <1>1, PTL DEF Spec, SharedSpec

\* The strengthened invariant holds of every reachable state, whichever jobs the
\* transactions of the producers upsert.
THEOREM SharedInvariant == SharedSpec => []IInv
BY InitInv, SharedStepInv, PTL DEF SharedSpec

\* In particular of those of the outbox on its own.
THEOREM Invariant == Spec => []IInv
BY SharedInvariant, OutboxIsShared, PTL

\* The variables stay within their types.
THEOREM TypeCorrect == Spec => []TypeOK
<1>1. IInv => TypeOK
  BY DEF IInv
<1> QED
  BY <1>1, Invariant, PTL

\* No lost update: a completed row has had its latest payload handled.
THEOREM CompletedIsHandledAlways == Spec => []CompletedIsHandled
<1>1. IInv => CompletedIsHandled
  BY DEF IInv
<1> QED
  BY <1>1, Invariant, PTL

\* A row is given up only after MaxAttempts failures of the payload it holds.
THEOREM DeadLetterIsExhaustedAlways == Spec => []DeadLetterIsExhausted
<1>1. IInv => DeadLetterIsExhausted
  BY DEF IInv
<1> QED
  BY <1>1, Invariant, PTL

\* The locks of live jobs are theirs alone, so only one of them is being handled.
LEMMA HandlingExclusive == IInv => HandlingIsExclusive
<1> SUFFICES ASSUME IInv, overruns = 0, NEW v \in Worker, NEW w \in Worker,
                    pc[v] = "handling", pc[w] = "handling", current[v].key = current[w].key
             PROVE  v = w
  BY DEF HandlingIsExclusive
<1>1. current[v] \in batch[v] /\ current[w] \in batch[w]
  BY DEF IInv, CurrentIsSound
<1>2. current[v].token = current[w].token
  BY <1>1 DEF IInv, LocksAreKept, HoldsLock
<1> QED
  BY <1>1, <1>2 DEF IInv, LocksAreDistinct

\* Without a takeover from a live worker no key is handled twice at a time.
THEOREM HandlingIsExclusiveAlways == Spec => []HandlingIsExclusive
BY HandlingExclusive, Invariant, PTL
-----------------------------------------------------------------------------
(* The refinement of AtLeastOnce.                                          *)

\* A step that changes one row in an allowed way, or none, is a step of the
\* promise or a stutter.
LEMMA RowStep ==
  ASSUME TypeOK, NEW k \in Key, NEW r2 \in Row,
         row' \in [Key -> Row],
         row'[k] = r2,
         \A q \in Key : q # k => row'[q] = row[q],
         UNCHANGED handled,
         r2.revision = row[k].revision,
         \/ /\ row[k].status = "processing"
            /\ \/ r2.status \in {"pending", "failed", "dead_letter"}
               \/ r2.status = "completed" /\ row[k].revision \in handled[k]
         \/ row[k].status = "dead_letter" /\ r2.status = "pending"
  PROVE  [Abstract!Next]_(Abstract!vars)
<1> DEFINE submitted == [q \in Key |-> row[q].revision]
           outcome == [q \in Key |-> Outcome(q)]
<1>1. row \in [Key -> Row]
  BY DEF TypeOK
<1>2. /\ \A q \in Key : q # k => submitted'[q] = submitted[q] /\ outcome'[q] = outcome[q]
      /\ submitted'[k] = r2.revision /\ submitted[k] = row[k].revision
  BY <1>1 DEF Outcome
<1>4. CASE r2.revision = row[k].revision /\ row[k].status = "processing"
           /\ r2.status \in {"pending", "failed"}
  <2>1. outcome'[k] = outcome[k]
    BY <1>1, <1>4 DEF Outcome
  <2>2. submitted' = submitted /\ outcome' = outcome
    BY <1>2, <1>4, <2>1
  <2> QED
    BY <2>2 DEF Abstract!vars
<1>5. CASE r2.revision = row[k].revision /\ row[k].status = "processing"
           /\ r2.status = "dead_letter"
  <2>1. outcome'[k] = "dead" /\ outcome[k] = "open"
    BY <1>1, <1>5 DEF Outcome
  <2>2. submitted' = submitted /\ outcome' = [outcome EXCEPT ![k] = "dead"]
    BY <1>2, <1>5, <2>1
  <2> QED
    BY <2>1, <2>2 DEF Abstract!Next, Abstract!GiveUp
<1>6. CASE r2.revision = row[k].revision /\ row[k].status = "processing"
           /\ r2.status = "completed" /\ row[k].revision \in handled[k]
  <2>1. outcome'[k] = "done" /\ outcome[k] = "open"
    BY <1>1, <1>6 DEF Outcome
  <2>2. submitted' = submitted /\ outcome' = [outcome EXCEPT ![k] = "done"]
    BY <1>2, <1>6, <2>1
  <2> QED
    BY <1>2, <1>6, <2>1, <2>2 DEF Abstract!Next, Abstract!Complete
<1>7. CASE r2.revision = row[k].revision /\ row[k].status = "dead_letter" /\ r2.status = "pending"
  <2>1. outcome'[k] = "open" /\ outcome[k] = "dead"
    BY <1>1, <1>7 DEF Outcome
  <2>2. submitted' = submitted /\ outcome' = [outcome EXCEPT ![k] = "open"]
    BY <1>2, <1>7, <2>1
  <2> QED
    BY <2>1, <2>2 DEF Abstract!Next, Abstract!Reopen
<1> QED
  BY <1>4, <1>5, <1>6, <1>7

\* Applying a mark statement to the row of a claimed job.
LEMMA MarkStep ==
  ASSUME IInv, NEW w \in Worker, NEW j \in batch[w], UNCHANGED handled,
         \/ Mark(j, MarkedDone(RowOf(j))) /\ j.rev \in handled[j.key]
         \/ Mark(j, MarkedRetry(RowOf(j)))
         \/ Mark(j, MarkedDeadLetter(RowOf(j)))
         \/ Mark(j, MarkedAbandoned(RowOf(j)))
  PROVE  [Abstract!Next]_(Abstract!vars)
<1> DEFINE r == row[j.key]
<1>1. j.key \in Key /\ r \in Row /\ r.attempts \in Nat /\ r.attempts + 1 \in Nat /\ 0 \in Nat
  BY DEF IInv, TypeOK, Job, Row
<1>2. /\ "pending" \in Status /\ "failed" \in Status
      /\ "completed" \in Status /\ "dead_letter" \in Status
  BY DEF Status
<1>3. CASE ~HoldsLock(r, j.token)
  <2>1. row' = row
    BY <1>3 DEF Mark
  <2> QED
    BY <2>1 DEF Abstract!vars, Outcome
<1>4. CASE HoldsLock(r, j.token)
  <2> DEFINE r2 == row'[j.key]
  <2>0. row \in [Key -> Row]
    BY DEF IInv, TypeOK
  <2>1. /\ \A q \in Key : q # j.key => row'[q] = row[q]
        /\ row' = [q \in Key |-> row'[q]]
        /\ \/ r2 = MarkedDone(r) /\ j.rev \in handled[j.key]
           \/ r2 = MarkedRetry(r)
           \/ r2 = MarkedDeadLetter(r)
           \/ r2 = MarkedAbandoned(r)
    <3>1. ASSUME NEW x, row' = [row EXCEPT ![j.key] = x]
          PROVE  /\ \A q \in Key : q # j.key => row'[q] = row[q]
                 /\ row' = [q \in Key |-> row'[q]]
                 /\ r2 = x
      BY <1>1, <2>0, <3>1
    <3>2. \/ row' = [row EXCEPT ![j.key] = MarkedDone(r)] /\ j.rev \in handled[j.key]
          \/ row' = [row EXCEPT ![j.key] = MarkedRetry(r)]
          \/ row' = [row EXCEPT ![j.key] = MarkedDeadLetter(r)]
          \/ row' = [row EXCEPT ![j.key] = MarkedAbandoned(r)]
      BY <1>4 DEF Mark, RowOf
    <3> HIDE DEF r2
    <3> QED
      BY <3>1, <3>2
  <2>2. \/ r2 = Released(r, "pending", 0)
        \/ r2 = Released(r, "pending", r.attempts)
        \/ r2 = Released(r, "failed", r.attempts + 1)
        \/ r2 = Released(r, "dead_letter", r.attempts + 1)
        \/ r2 = Released(r, "completed", r.attempts) /\ ~Superseded(r) /\ j.rev \in handled[j.key]
    BY <2>1 DEF MarkedDone, MarkedRetry, MarkedDeadLetter, MarkedAbandoned, Rescheduled
  <2>3. r2 \in Row /\ r2.revision = r.revision
        /\ \/ r2.status \in {"pending", "failed", "dead_letter"}
           \/ r2.status = "completed" /\ ~Superseded(r) /\ j.rev \in handled[j.key]
    <3> HIDE DEF r, r2
    <3>1. ASSUME NEW s \in Status, NEW n \in Nat, r2 = Released(r, s, n)
          PROVE  r2 \in Row /\ r2.revision = r.revision /\ r2.status = s
      <4>1. /\ Released(r, s, n) \in Row
            /\ Released(r, s, n).revision = r.revision
            /\ Released(r, s, n).status = s
        BY <1>1, ReleasedRow
      <4> QED
        BY <3>1, <4>1
    <3>2. CASE r2 = Released(r, "pending", 0) \/ r2 = Released(r, "pending", r.attempts)
      BY <1>1, <1>2, <3>1, <3>2
    <3>3. CASE r2 = Released(r, "failed", r.attempts + 1)
      BY <1>1, <1>2, <3>1, <3>3
    <3>4. CASE r2 = Released(r, "dead_letter", r.attempts + 1)
      BY <1>1, <1>2, <3>1, <3>4
    <3>5. CASE r2 = Released(r, "completed", r.attempts) /\ ~Superseded(r) /\ j.rev \in handled[j.key]
      BY <1>1, <1>2, <3>1, <3>5
    <3> QED
      BY <2>2, <3>2, <3>3, <3>4, <3>5
  <2>4. r.status = "processing" /\ (~Superseded(r) => r.revision = j.rev)
    BY <1>4 DEF IInv, JobsMatchRows, HoldsLock, Superseded
  <2> HIDE DEF r2
  <2>5. row' \in [Key -> Row]
    BY <2>0, <2>1, <2>3 DEF r2
  <2> QED
    BY <1>1, <2>1, <2>3, <2>4, <2>5, RowStep DEF IInv, r2
<1> QED
  BY <1>3, <1>4

\* The upserts of one transaction are a submission of the promise.
LEMMA UpsertStep ==
  ASSUME IInv, NEW S \in SUBSET Key, Upsert(S)
  PROVE  [Abstract!Next]_(Abstract!vars)
<1> DEFINE submitted == [q \in Key |-> row[q].revision]
           outcome == [q \in Key |-> Outcome(q)]
<1>1. /\ row' = [q \in Key |-> IF q \in S THEN Upserted(row[q]) ELSE row[q]]
      /\ UNCHANGED handled
      /\ row \in [Key -> Row]
  BY DEF Upsert, IInv, TypeOK
<1>2. \A q \in S : /\ row'[q].revision = row[q].revision + 1
                   /\ row'[q].status \in {"pending", "processing"}
  BY <1>1, UpsertedRow
<1>3. \A q \in Key : q \notin S => row'[q] = row[q]
  BY <1>1
<1>4. submitted' = [q \in Key |-> IF q \in S THEN submitted[q] + 1 ELSE submitted[q]]
  BY <1>2, <1>3
<1>5. outcome' = [q \in Key |-> IF q \in S THEN "open" ELSE outcome[q]]
  BY <1>2, <1>3 DEF Outcome
<1> QED
  BY <1>1, <1>4, <1>5 DEF Abstract!Next, Abstract!Submit

\* Requeueing reopens what was given up.
LEMMA RequeueStep ==
  ASSUME IInv, NEW k \in Key, Requeue(k)
  PROVE  [Abstract!Next]_(Abstract!vars)
<1>1. /\ row' = [row EXCEPT ![k] = Released(row[k], "pending", 0)]
      /\ row[k].status = "dead_letter"
      /\ UNCHANGED handled
      /\ row \in [Key -> Row] /\ row[k] \in Row /\ "pending" \in Status /\ 0 \in Nat
  BY DEF Requeue, Requeued, IInv, TypeOK, Status
<1>2. /\ Released(row[k], "pending", 0) \in Row
      /\ Released(row[k], "pending", 0).revision = row[k].revision
      /\ Released(row[k], "pending", 0).status = "pending"
  BY <1>1, ReleasedRow
<1>3. /\ row' \in [Key -> Row]
      /\ row'[k] \in Row
      /\ \A q \in Key : q # k => row'[q] = row[q]
  BY <1>1, <1>2
<1> QED
  BY <1>1, <1>2, <1>3, RowStep DEF IInv

\* A claim is no step of the promise.
LEMMA ClaimStep ==
  ASSUME IInv, NEW w \in Worker, NEW S \in SUBSET Key, NEW t \in Token, Claim(w, S, t)
  PROVE  [Abstract!Next]_(Abstract!vars)
<1>1. /\ row' = [k \in Key |-> IF k \in S THEN Claimed(row[k], t) ELSE row[k]]
      /\ \A k \in S : Claimable(row[k])
      /\ UNCHANGED handled
      /\ row \in [Key -> Row]
  BY DEF Claim, IInv, TypeOK
<1>2. ASSUME NEW k \in Key
      PROVE  row'[k].revision = row[k].revision /\ Outcome(k)' = Outcome(k)
  <2>1. CASE k \in S
    <3>1. /\ row'[k].status = "processing" /\ row'[k].revision = row[k].revision
          /\ row[k].status \in {"pending", "failed", "processing"}
      BY <1>1, <2>1, ClaimedRow DEF Claimable
    <3> QED
      BY <3>1 DEF Outcome
  <2>2. CASE k \notin S
    BY <1>1, <2>2 DEF Outcome
  <2> QED
    BY <2>1, <2>2
<1> QED
  BY <1>1, <1>2 DEF Abstract!vars

\* A successful handler call handles a submission that was really made.
LEMMA HandlerSucceedsStep ==
  ASSUME IInv, NEW w \in Worker, HandlerSucceeds(w)
  PROVE  [Abstract!Next]_(Abstract!vars)
<1> DEFINE j == current[w]
<1>1. /\ handled' = [handled EXCEPT ![j.key] = @ \cup {j.rev}]
      /\ row' = row
      /\ j \in batch[w] /\ j.key \in Key /\ j.rev \in Nat
      /\ row[j.key].revision \in Nat
  BY DEF HandlerSucceeds, IInv, CurrentIsSound, TypeOK, Job, Row
<1>2. j.rev \in 1 .. row[j.key].revision
  BY <1>1 DEF IInv, JobsMatchRows
<1>3. UNCHANGED <<[k \in Key |-> row[k].revision], [k \in Key |-> Outcome(k)]>>
  BY <1>1 DEF Outcome
<1> QED
  BY <1>1, <1>2, <1>3 DEF Abstract!Next, Abstract!Handle

\* The outbox keeps its promise: every step is one of AtLeastOnce or none.
THEOREM SharedRefinement == SharedSpec => ImplementsAtLeastOnce
<1>1. Init => Abstract!Init
  BY DEF Init, Abstract!Init, AbsentRow, Outcome
<1>2. IInv /\ [SharedNext]_vars => [Abstract!Next]_(Abstract!vars)
  <2> SUFFICES ASSUME IInv, [SharedNext]_vars PROVE [Abstract!Next]_(Abstract!vars)
    OBVIOUS
  <2>0. ASSUME UNCHANGED <<row, handled>> PROVE [Abstract!Next]_(Abstract!vars)
    BY <2>0 DEF Abstract!vars, Outcome
  <2>6. ASSUME NEW S \in SUBSET Key, Upsert(S) PROVE [Abstract!Next]_(Abstract!vars)
    BY <2>6, UpsertStep
  <2>1. ASSUME Produce PROVE [Abstract!Next]_(Abstract!vars)
    BY <2>1, <2>6, RequeueStep DEF Produce, Enqueue
  <2>2. ASSUME NEW k \in Key, ClaimOf(k) PROVE [Abstract!Next]_(Abstract!vars)
    BY <2>2, ClaimStep DEF ClaimOf
  <2>3. ASSUME NEW w \in Worker, Work(w) PROVE [Abstract!Next]_(Abstract!vars)
    <3>1. ASSUME HandlerSucceeds(w) PROVE [Abstract!Next]_(Abstract!vars)
      BY <3>1, HandlerSucceedsStep
    <3>2. ASSUME MarkJobDone(w) PROVE [Abstract!Next]_(Abstract!vars)
      <4>1. /\ current[w] \in batch[w] /\ current[w].rev \in handled[current[w].key]
            /\ Mark(current[w], MarkedDone(RowOf(current[w]))) /\ UNCHANGED handled
        BY <3>2 DEF MarkJobDone, IInv, CurrentIsSound
      <4> QED
        BY <4>1, MarkStep
    <3>3. ASSUME MarkJobFailure(w) PROVE [Abstract!Next]_(Abstract!vars)
      <4>1. /\ current[w] \in batch[w] /\ UNCHANGED handled
            /\ Mark(current[w], MarkedDeadLetter(RowOf(current[w]))) \/ Mark(current[w], MarkedRetry(RowOf(current[w])))
        BY <3>3 DEF MarkJobFailure, IInv, CurrentIsSound
      <4> QED
        BY <4>1, MarkStep
    <3>4. ASSUME NEW j \in batch[w], MarkJobAbandoned(w, j) PROVE [Abstract!Next]_(Abstract!vars)
      BY <3>4, MarkStep DEF MarkJobAbandoned
    <3>5. ASSUME \/ HandlerFails(w) \/ AbandonBatch(w) \/ Exit(w) \/ Start(w)
                 \/ \E j \in batch[w] : StartJob(w, j)
          PROVE  [Abstract!Next]_(Abstract!vars)
      BY <2>0, <3>5 DEF HandlerFails, AbandonBatch, Exit, Start, StartJob
    <3> QED
      BY <2>3, <3>1, <3>2, <3>3, <3>4, <3>5 DEF Work
  <2>4. ASSUME NEW w \in Worker, Disturb(w) PROVE UNCHANGED <<row, handled>>
    BY <2>4 DEF Disturb, LoseMark, Shutdown, Crash, LoseAbandon
  <2>5. CASE UNCHANGED vars
    BY <2>0, <2>5 DEF vars
  <2> QED
    BY <2>0, <2>1, <2>2, <2>3, <2>4, <2>5, <2>6 DEF Next, SharedNext
<1> QED
  BY <1>1, <1>2, SharedInvariant, PTL DEF SharedSpec, ImplementsAtLeastOnce, Abstract!Spec

\* In particular the outbox on its own does.
THEOREM Refinement == Spec => ImplementsAtLeastOnce
BY SharedRefinement, OutboxIsShared, PTL
=============================================================================
