---------------------------- MODULE BudgetProofs ----------------------------
(***************************************************************************)
(* The retry budget of the outbox is exact, for any number of keys and     *)
(* workers: BudgetInv is inductive.  What has to be bounded is how many    *)
(* failed handler calls of a row's payload were not counted in its         *)
(* attempts.  Each was made by a worker that had lost its lock or was      *)
(* told to stop, so the invariant also counts the workers that may still   *)
(* make one: a takeover or a fault pays for one worker.                    *)
(***************************************************************************)
EXTENDS OutboxProofs, FiniteSetTheorems

-----------------------------------------------------------------------------
(* Counting.                                                               *)

\* A smaller set, and one with one more element at most.
LEMMA Shrinks ==
  ASSUME NEW A, IsFiniteSet(A), NEW B, B \subseteq A
  PROVE  /\ IsFiniteSet(B)
         /\ Cardinality(A) \in Nat /\ Cardinality(B) \in Nat
         /\ Cardinality(B) <= Cardinality(A)
<1>1. B \in SUBSET A
  OBVIOUS
<1> QED
  BY <1>1, FS_Subset, FS_CardinalityType

LEMMA GrowsByOne ==
  ASSUME NEW A, IsFiniteSet(A), NEW x, NEW B, B \subseteq A \cup {x}
  PROVE  /\ IsFiniteSet(B)
         /\ Cardinality(A) \in Nat /\ Cardinality(B) \in Nat
         /\ Cardinality(B) <= Cardinality(A) + 1
<1>1. /\ IsFiniteSet(A \cup {x})
      /\ Cardinality(A) \in Nat
      /\ \/ Cardinality(A \cup {x}) = Cardinality(A)
         \/ Cardinality(A \cup {x}) = Cardinality(A) + 1
  BY FS_AddElement, FS_CardinalityType
<1>2. /\ IsFiniteSet(B) /\ Cardinality(B) \in Nat
      /\ Cardinality(B) <= Cardinality(A \cup {x})
      /\ Cardinality(A \cup {x}) \in Nat
  BY <1>1, Shrinks
<1> QED
  BY <1>1, <1>2

LEMMA ShrinksByOne ==
  ASSUME NEW A, IsFiniteSet(A), NEW x \in A, NEW B, B \subseteq A \ {x}
  PROVE  /\ IsFiniteSet(B)
         /\ Cardinality(A) \in Nat /\ Cardinality(B) \in Nat
         /\ Cardinality(B) + 1 <= Cardinality(A)
<1>1. /\ IsFiniteSet(A \ {x})
      /\ Cardinality(A \ {x}) = Cardinality(A) - 1
      /\ Cardinality(A) \in Nat
  BY FS_RemoveElement, FS_CardinalityType
<1>2. /\ IsFiniteSet(B) /\ Cardinality(B) \in Nat
      /\ Cardinality(B) <= Cardinality(A \ {x})
  BY <1>1, Shrinks
<1> QED
  BY <1>1, <1>2

\* The sum behind the books: f failures, r counted, c workers at risk, p paid for
\* and o owed, before a step and after it.
LEMMA Balance ==
  ASSUME NEW f \in Nat, NEW r \in Nat, NEW c \in Nat, NEW p \in Nat, NEW o \in Nat,
         NEW f2 \in Nat, NEW r2 \in Nat, NEW c2 \in Nat, NEW p2 \in Nat, NEW o2 \in Nat,
         NEW a \in Nat, NEW b \in Nat,
         c <= p, f + c <= r + p + o,
         c2 + b <= c + a, p + a <= p2,
         f2 = 0 \/ f2 + r + p + o + a <= f + r2 + p2 + o2 + b
  PROVE  c2 <= p2 /\ f2 + c2 <= r2 + p2 + o2
OBVIOUS

\* The books of one key: a worker more at risk, and a failure or a lost count,
\* need a fault or takeover; a worker less at risk, a count in sight or a
\* counted attempt pay for a failure.
LEMMA PaidStep ==
  ASSUME TypeOK, TypeOK', NEW k \in Key, Paid(k),
         NEW a \in {0, 1}, NEW b \in {0, 1},
         IsFiniteSet(Risk(k)'),
         Cardinality(Risk(k)') + b <= Cardinality(Risk(k)) + a,
         faults + overruns + a <= faults' + overruns',
         \/ failures'[k] = 0
         \/ failures'[k] + row[k].attempts + faults + overruns + Owed(k) + a
               <= failures[k] + row'[k].attempts + faults' + overruns' + Owed(k)' + b
  PROVE  Paid(k)'
<1> DEFINE c == Cardinality(Risk(k))       c2 == Cardinality(Risk(k)')
           f == failures[k]                f2 == failures'[k]
           r == row[k].attempts            r2 == row'[k].attempts
           p == faults + overruns          p2 == faults' + overruns'
           o == Owed(k)                    o2 == Owed(k)'
<1>1. /\ faults \in Nat /\ faults' \in Nat /\ overruns \in Nat /\ overruns' \in Nat
      /\ f \in Nat /\ f2 \in Nat /\ r \in Nat /\ r2 \in Nat
  BY DEF TypeOK, Row
<1>2. o \in Nat /\ o2 \in Nat /\ p \in Nat /\ p2 \in Nat /\ a \in Nat /\ b \in Nat
  BY <1>1 DEF Owed
<1>3. c \in Nat /\ c2 \in Nat
  BY FS_CardinalityType DEF Paid
<1>4. c <= p /\ f + c <= r + p + o
  BY <1>1, <1>2, <1>3 DEF Paid
<1>5. c2 + b <= c + a /\ p + a <= p2
  BY <1>1, <1>2, <1>3
<1>6. f2 = 0 \/ f2 + r + p + o + a <= f + r2 + p2 + o2 + b
  <2>1. CASE f2 = 0
    BY <2>1
  <2>2. CASE failures'[k] + row[k].attempts + faults + overruns + Owed(k) + a
                <= failures[k] + row'[k].attempts + faults' + overruns' + Owed(k)' + b
    BY <1>1, <1>2, <2>2
  <2> QED
    BY <2>1, <2>2
<1>7. c2 <= p2 /\ f2 + c2 <= r2 + p2 + o2
  <2> HIDE DEF c, c2, f, f2, r, r2, p, p2, o, o2
  <2> QED
    BY <1>1, <1>2, <1>3, <1>4, <1>5, <1>6, Balance
<1>8. failures'[k] + c2 <= row'[k].attempts + faults' + overruns' + Owed(k)'
  BY <1>1, <1>2, <1>3, <1>7
<1> QED
  BY <1>7, <1>8 DEF Paid
-----------------------------------------------------------------------------
(* Steps that leave rows and failures alone.                               *)

\* Jobs that are only forgotten, and rows that stay, leave the first two parts.
LEMMA FewerJobs ==
  ASSUME BudgetInv, UNCHANGED <<row, failures>>,
         \A v \in Worker : batch'[v] \subseteq batch[v]
  PROVE  OneJobPerKey' /\ NewestHoldsLock'
BY DEF BudgetInv, OneJobPerKey, NewestHoldsLock

\* Worker w keeps the books of key k if it does not come to be at risk and stays to
\* count what it was about to; a fault pays for one of the two.
LEMMA WorkerKeepsBooks ==
  ASSUME BudgetInv, TypeOK', NEW w \in Worker, NEW k \in Key,
         UNCHANGED <<row, failures, overruns>>,
         \A v \in Worker : v # w => /\ pc'[v] = pc[v] /\ batch'[v] = batch[v]
                                   /\ current'[v] = current[v]
                                   /\ cancelled'[v] = cancelled[v],
         faults' = faults \/ faults' = faults + 1,
         \/ (w \in Risk(k)' => w \in Risk(k)) /\ (w \in Counting(k) => w \in Counting(k)')
         \/ /\ faults' = faults + 1
            /\ (w \in Risk(k)' => w \in Risk(k)) \/ w \notin Counting(k)
  PROVE  Paid(k)'
<1> DEFINE A == Risk(k)
           B == Risk(k)'
           C == Counting(k)
           D == Counting(k)'
<1>0. Paid(k) /\ TypeOK /\ IsFiniteSet(A)
  BY DEF BudgetInv, IInv, FailuresArePaid, Paid
<1>1. /\ \A v \in Worker : v # w => (v \in B <=> v \in A) /\ (v \in C => v \in D)
      /\ A \subseteq Worker /\ B \subseteq Worker /\ C \subseteq Worker
  BY DEF Risk, CanStillFail, Counting
<1>2. /\ failures'[k] = failures[k] /\ failures[k] \in Nat
      /\ row'[k].attempts = row[k].attempts /\ row[k].attempts \in Nat
      /\ faults \in Nat /\ faults' \in Nat /\ overruns' = overruns /\ overruns \in Nat
  BY <1>0 DEF TypeOK, Row
<1>f. faults <= faults'
  BY <1>2
<1>3. /\ Owed(k) = IF C = {} THEN 0 ELSE 1
      /\ Owed(k)' = IF D = {} THEN 0 ELSE 1
  BY DEF Owed
<1>4. \/ (w \in B => w \in A) /\ (w \in C => w \in D)
      \/ faults' = faults + 1 /\ ((w \in B => w \in A) \/ w \notin C)
  OBVIOUS
<1>5. /\ Owed(k) \in {0, 1} /\ Owed(k)' \in {0, 1}
      /\ (w \in C => w \in D) => Owed(k) <= Owed(k)'
  <2> HIDE DEF A, B, C, D
  <2> QED
    BY <1>1, <1>3
<1>6. CASE w \in B => w \in A
  <2>1. B \subseteq A
    <3> HIDE DEF A, B, C, D
    <3> QED
      BY <1>1, <1>6
  <2>2. IsFiniteSet(B) /\ Cardinality(B) \in Nat /\ Cardinality(A) \in Nat /\ Cardinality(B) <= Cardinality(A)
    BY <1>0, <2>1, Shrinks
  <2>3. failures'[k] + row[k].attempts + faults + overruns + Owed(k) + 0
             <= failures[k] + row'[k].attempts + faults' + overruns' + Owed(k)' + 0
    <3>1. Owed(k) <= Owed(k)' \/ faults' = faults + 1
      BY <1>4, <1>5
    <3> QED
      BY <1>2, <1>5, <3>1
  <2>4. Cardinality(B) + 0 <= Cardinality(A) + 0
    BY <2>2
  <2>5. faults + overruns + 0 <= faults' + overruns'
    <3>1. \A x, y, z \in Nat : x <= y => x + z + 0 <= y + z
      OBVIOUS
    <3> QED
      BY <1>2, <1>f, <3>1
  <2> QED
    BY <1>0, <2>2, <2>3, <2>4, <2>5, PaidStep
<1>7. CASE ~(w \in B => w \in A)
  <2>1. B \subseteq A \cup {w}
    <3> HIDE DEF A, B, C, D
    <3> QED
      BY <1>1
  <2>2. IsFiniteSet(B) /\ Cardinality(B) \in Nat /\ Cardinality(A) \in Nat /\ Cardinality(B) <= Cardinality(A) + 1
    BY <1>0, <2>1, GrowsByOne
  <2>3. Owed(k) <= Owed(k)' /\ faults' = faults + 1
    BY <1>4, <1>5, <1>7
  <2>4. failures'[k] + row[k].attempts + faults + overruns + Owed(k) + 1
             <= failures[k] + row'[k].attempts + faults' + overruns' + Owed(k)' + 0
    BY <1>2, <1>5, <2>3
  <2>5. Cardinality(B) + 0 <= Cardinality(A) + 1 /\ faults + overruns + 1 <= faults' + overruns'
    BY <1>2, <2>2, <2>3
  <2> QED
    BY <1>0, <2>2, <2>4, <2>5, PaidStep
<1> QED
  BY <1>6, <1>7

\* Starting the next job, a handler's success, and the ways out of a batch.
LEMMA MoveBudget ==
  ASSUME BudgetInv, TypeOK', NEW w \in Worker,
         \/ \E j \in batch[w] : StartJob(w, j)
         \/ HandlerSucceeds(w) \/ AbandonBatch(w) \/ Exit(w) \/ Start(w)
  PROVE  OneJobPerKey' /\ NewestHoldsLock' /\ FailuresArePaid'
<1>t. TypeOK /\ CurrentIsSound
  BY DEF BudgetInv, IInv
<1>1. /\ UNCHANGED <<row, batch, failures, faults, overruns>>
      /\ \A v \in Worker : v # w => /\ pc'[v] = pc[v] /\ current'[v] = current[v]
                                   /\ cancelled'[v] = cancelled[v]
  BY <1>t DEF StartJob, HandlerSucceeds, AbandonBatch, Exit, Start, TypeOK
<1>2. OneJobPerKey' /\ NewestHoldsLock'
  BY <1>1, FewerJobs
<1>3. ASSUME NEW k \in Key PROVE Paid(k)'
  <2>1. w \in Counting(k) => w \in Counting(k)'
    BY <1>t DEF StartJob, HandlerSucceeds, AbandonBatch, Exit, Start, TypeOK, Counting
  <2>2. w \in Risk(k)' => w \in Risk(k)
    <3>1. CASE \E j \in batch[w] : StartJob(w, j)
      BY <3>1, <1>t DEF StartJob, TypeOK, Risk, CanStillFail
    <3>2. CASE HandlerSucceeds(w)
      BY <3>2, <1>t DEF HandlerSucceeds, TypeOK, Risk, CanStillFail
    <3>3. CASE AbandonBatch(w)
      BY <3>3, <1>t DEF AbandonBatch, TypeOK, Risk, CanStillFail
    <3>4. CASE Exit(w) \/ Start(w)
      BY <3>4, <1>t DEF Exit, Start, TypeOK, Risk, CanStillFail
    <3> QED
      BY <3>1, <3>2, <3>3, <3>4
  <2> QED
    BY <1>1, <2>1, <2>2, WorkerKeepsBooks
<1> QED
  BY <1>2, <1>3 DEF FailuresArePaid

\* A worker that stops or dies: it forgets to count, or comes to be at risk, once.
LEMMA StopBudget ==
  ASSUME BudgetInv, TypeOK', NEW w \in Worker, Shutdown(w) \/ Crash(w)
  PROVE  OneJobPerKey' /\ NewestHoldsLock' /\ FailuresArePaid'
<1>t. TypeOK /\ CurrentIsSound
  BY DEF BudgetInv, IInv
<1>1. /\ UNCHANGED <<row, failures, overruns>>
      /\ faults' = faults + 1
      /\ batch'[w] \subseteq batch[w]
      /\ \A v \in Worker : v # w => /\ pc'[v] = pc[v] /\ batch'[v] = batch[v]
                                   /\ current'[v] = current[v]
                                   /\ cancelled'[v] = cancelled[v]
  BY <1>t DEF Shutdown, Crash, TypeOK
<1>2. OneJobPerKey' /\ NewestHoldsLock'
  BY <1>1, FewerJobs
<1>3. ASSUME NEW k \in Key PROVE Paid(k)'
  <2>1. CASE Shutdown(w)
    BY <2>1, <1>1, <1>t, WorkerKeepsBooks, ZenonT(40) DEF Shutdown, TypeOK, Risk, CanStillFail, Counting
  <2>2. CASE Crash(w)
    <3>1. w \notin Risk(k)'
      BY <2>2, <1>t DEF Crash, TypeOK, Risk
    <3> QED
      BY <1>1, <3>1, WorkerKeepsBooks
  <2> QED
    BY <2>1, <2>2
<1> QED
  BY <1>2, <1>3 DEF FailuresArePaid

\* The way on after a job: no other job of the worker can fail that could not
\* fail before.
LEMMA ForgetRisk ==
  ASSUME BudgetInv, NEW w \in Worker, NEW j \in batch[w],
         \/ /\ Forget(w, j, "batch")
            /\ pc[w] \in {"succeeded", "failed"} /\ j = current[w]
         \/ Forget(w, j, "abandoning"),
         UNCHANGED cancelled
  PROVE  /\ \A v \in Worker : v # w => /\ pc'[v] = pc[v] /\ batch'[v] = batch[v]
                                      /\ current'[v] = current[v]
         /\ batch'[w] = batch[w] \ {j}
         /\ \A i \in batch'[w] : CanStillFail(w, i)' => CanStillFail(w, i)
         /\ pc'[w] # "failed"
<1>t. TypeOK
  BY DEF BudgetInv, IInv
<1>1. /\ batch' = [batch EXCEPT ![w] = @ \ {j}]
      /\ pc'[w] \in {"idle", "batch", "abandoning"}
      /\ pc'[w] = "batch" => pc[w] \in {"succeeded", "failed"} /\ j = current[w]
      /\ \A v \in Worker : v # w => pc'[v] = pc[v] /\ current'[v] = current[v]
  BY <1>t DEF Forget, TypeOK
<1> QED
  BY <1>1, <1>t DEF TypeOK, CanStillFail

\* Forgetting a job whose row stays as it is: either nothing was to be counted, or
\* a fault lost the count.
LEMMA ForgetBudget ==
  ASSUME BudgetInv, TypeOK', NEW w \in Worker, NEW j \in batch[w],
         \/ /\ Forget(w, j, "batch")
            /\ pc[w] \in {"succeeded", "failed"} /\ j = current[w]
         \/ Forget(w, j, "abandoning") /\ pc[w] = "abandoning",
         UNCHANGED <<row, cancelled, failures, overruns>>,
         \/ faults' = faults + 1
         \/ faults' = faults /\ ~HoldsLock(row[j.key], j.token)
  PROVE  OneJobPerKey' /\ NewestHoldsLock' /\ FailuresArePaid'
<1>1. /\ \A v \in Worker : v # w => /\ pc'[v] = pc[v] /\ batch'[v] = batch[v]
                                   /\ current'[v] = current[v]
      /\ batch'[w] = batch[w] \ {j}
      /\ \A i \in batch'[w] : CanStillFail(w, i)' => CanStillFail(w, i)
  BY ForgetRisk
<1>2. OneJobPerKey' /\ NewestHoldsLock'
  BY <1>1, FewerJobs
<1>3. ASSUME NEW k \in Key PROVE Paid(k)'
  <2>1. w \in Risk(k)' => w \in Risk(k)
    BY <1>1 DEF Risk
  <2>2. faults' = faults + 1 \/ w \notin Counting(k)
    BY DEF Counting
  <2> QED
    BY <1>1, <2>1, <2>2, WorkerKeepsBooks
<1> QED
  BY <1>2, <1>3 DEF FailuresArePaid
-----------------------------------------------------------------------------
(* A failed handler call.                                                  *)

\* Only one job can hold the lock of a row.
LEMMA OneHolder ==
  ASSUME IInv, NEW v \in Worker, NEW w \in Worker, NEW i \in batch[v], NEW j \in batch[w],
         i.key = j.key, HoldsLock(row[i.key], i.token), HoldsLock(row[j.key], j.token)
  PROVE  v = w /\ i = j
BY DEF IInv, LocksAreDistinct, HoldsLock

\* A failed call of a payload that was replaced counts for nothing.  Of the
\* payload the row has, either the worker is about to count it or it was at risk.
LEMMA HandlerFailsBudget ==
  ASSUME BudgetInv, TypeOK', NEW w \in Worker, HandlerFails(w)
  PROVE  OneJobPerKey' /\ NewestHoldsLock' /\ FailuresArePaid'
<1> DEFINE j == current[w]
<1>t. TypeOK /\ IInv
  BY DEF BudgetInv, IInv
<1>0. /\ pc[w] = "handling"
      /\ pc' = [pc EXCEPT ![w] = "failed"]
      /\ failures' = IF j.rev = row[j.key].revision
                     THEN [failures EXCEPT ![j.key] = @ + 1] ELSE failures
      /\ UNCHANGED <<row, batch, current, cancelled, handled, faults, overruns>>
  BY DEF HandlerFails
<1>j. j \in batch[w] /\ j \in Job /\ j.key \in Key /\ row[j.key] \in Row
  BY <1>0, <1>t DEF CurrentIsSound, IInv, TypeOK, Job
<1>p. pc'[w] = "failed" /\ \A v \in Worker : v # w => pc'[v] = pc[v]
  BY <1>0, <1>t DEF TypeOK
<1>1. OneJobPerKey'
  BY <1>0 DEF BudgetInv, OneJobPerKey
<1>2. NewestHoldsLock'
  <2>1. ASSUME NEW k \in Key, row[k].status = "processing", Superseded(row[k])
        PROVE  failures'[k] = 0
    <3>1. /\ failures[k] = 0
          /\ row[k].lockedRevision <= row[k].revision
          /\ row[k].lockedRevision # row[k].revision
          /\ j.key = k => j.rev <= row[k].lockedRevision
      BY <1>j, <2>1 DEF BudgetInv, NewestHoldsLock, Superseded
    <3>2. j.key = k => j.rev # row[k].revision
      BY <1>j, <3>1 DEF Row, Job
    <3> QED
      BY <1>0, <1>t, <3>1, <3>2 DEF TypeOK
  <2> QED
    BY <1>0, <2>1 DEF BudgetInv, NewestHoldsLock
<1>3. ASSUME NEW k \in Key PROVE Paid(k)'
  <2> DEFINE A == Risk(k)
             B == Risk(k)'
             C == Counting(k)
             D == Counting(k)'
  <2>0. Paid(k) /\ IsFiniteSet(A)
    BY DEF BudgetInv, FailuresArePaid, Paid
  <2>1. /\ \A v \in Worker : v # w => (v \in B <=> v \in A) /\ (v \in C => v \in D)
        /\ A \subseteq Worker /\ B \subseteq Worker /\ C \subseteq Worker
        /\ w \in B => w \in A
        /\ w \notin C
    BY <1>0, <1>p DEF Risk, CanStillFail, Counting
  <2>2. B \subseteq A /\ C \subseteq D
    <3> HIDE DEF A, B, C, D
    <3> QED
      BY <2>1
  <2>3. /\ Owed(k) \in {0, 1} /\ Owed(k)' \in {0, 1} /\ Owed(k) <= Owed(k)'
        /\ C = {} /\ D # {} => Owed(k)' = Owed(k) + 1
    <3>1. /\ Owed(k) = IF C = {} THEN 0 ELSE 1
          /\ Owed(k)' = IF D = {} THEN 0 ELSE 1
      BY DEF Owed
    <3> HIDE DEF C, D
    <3> QED
      BY <2>2, <3>1
  <2>n. /\ failures[k] \in Nat /\ row'[k].attempts = row[k].attempts /\ row[k].attempts \in Nat
        /\ faults \in Nat /\ faults' = faults /\ overruns' = overruns /\ overruns \in Nat
    BY <1>0, <1>t DEF TypeOK, Row
  <2>c. /\ IsFiniteSet(B) /\ Cardinality(A) \in Nat /\ Cardinality(B) \in Nat
        /\ Cardinality(B) <= Cardinality(A)
    BY <2>0, <2>2, Shrinks
  <2>d. Cardinality(B) + 0 <= Cardinality(A) + 0 /\ faults + overruns + 0 <= faults' + overruns'
    <3> HIDE DEF A, B
    <3> QED
      BY <2>n, <2>c
  <2>4. CASE failures'[k] = failures[k]
    <3>1. failures'[k] + row[k].attempts + faults + overruns + Owed(k) + 0
             <= failures[k] + row'[k].attempts + faults' + overruns' + Owed(k)' + 0
      BY <2>n, <2>3, <2>4
    <3> QED
      BY <1>t, <2>0, <2>c, <2>d, <3>1, PaidStep
  <2>5. CASE failures'[k] # failures[k]
    <3>1. k = j.key /\ j.rev = row[k].revision /\ failures'[k] = failures[k] + 1
      BY <1>0, <1>j, <1>t, <2>5 DEF TypeOK
    <3>2. CASE HoldsLock(row[k], j.token) /\ ~cancelled[w]
      <4>1. w \in D
        BY <1>0, <1>p, <3>1, <3>2 DEF Counting
      <4>2. C = {}
        <5> SUFFICES ASSUME NEW v \in Worker, pc[v] = "failed", current[v].key = k,
                            HoldsLock(row[k], current[v].token)
                     PROVE  FALSE
          BY DEF Counting
        <5>1. current[v] \in batch[v]
          BY <1>t DEF IInv, CurrentIsSound
        <5>2. v = w
          BY <1>t, <1>j, <3>1, <3>2, <5>1, OneHolder
        <5> QED
          BY <1>0, <5>2
      <4>3. failures'[k] + row[k].attempts + faults + overruns + Owed(k) + 0
               <= failures[k] + row'[k].attempts + faults' + overruns' + Owed(k)' + 0
        <5>1. Owed(k)' = Owed(k) + 1
          BY <2>3, <4>1, <4>2
        <5> QED
          BY <2>n, <2>3, <3>1, <5>1
      <4> QED
        BY <1>t, <2>0, <2>c, <2>d, <4>3, PaidStep
    <3>3. CASE ~HoldsLock(row[k], j.token) \/ cancelled[w]
      <4>1. w \in A
        BY <1>0, <1>j, <3>1, <3>3 DEF Risk, CanStillFail
      <4>2. w \notin B
        <5> SUFFICES ASSUME NEW i \in batch[w], i.key = k, i # j PROVE FALSE
          BY <1>0, <1>p DEF Risk, CanStillFail
        <5> QED
          BY <1>j, <3>1 DEF BudgetInv, OneJobPerKey
      <4>3. Cardinality(B) + 1 <= Cardinality(A)
        <5>1. B \subseteq A \ {w}
          BY <2>2, <4>2
        <5> QED
          BY <2>0, <4>1, <5>1, ShrinksByOne
      <4>4. Cardinality(B) + 1 <= Cardinality(A) + 0
        <5> HIDE DEF A, B
        <5> QED
          BY <2>c, <4>3
      <4>5. failures'[k] + row[k].attempts + faults + overruns + Owed(k) + 0
               <= failures[k] + row'[k].attempts + faults' + overruns' + Owed(k)' + 1
        BY <2>n, <2>3, <3>1
      <4> QED
        BY <1>t, <2>0, <2>c, <2>d, <4>4, <4>5, PaidStep
    <3> QED
      BY <3>2, <3>3
  <2> QED
    BY <2>4, <2>5
<1> QED
  BY <1>1, <1>2, <1>3 DEF FailuresArePaid
-----------------------------------------------------------------------------
(* Steps on the rows.                                                      *)

\* The books of a key whose attempts and failures stay, if nobody comes to be at
\* risk or fails to count.
LEMMA OtherBooks ==
  ASSUME BudgetInv, TypeOK', NEW k \in Key,
         row'[k].attempts = row[k].attempts, failures'[k] = failures[k],
         Risk(k)' \subseteq Risk(k), Counting(k) \subseteq Counting(k)',
         faults' = faults, overruns' = overruns \/ overruns' = overruns + 1
  PROVE  Paid(k)'
<1> DEFINE A == Risk(k)
           B == Risk(k)'
<1>0. Paid(k) /\ TypeOK /\ IsFiniteSet(A)
  BY DEF BudgetInv, IInv, FailuresArePaid, Paid
<1>1. Owed(k) \in {0, 1} /\ Owed(k)' \in {0, 1} /\ Owed(k) <= Owed(k)'
  BY DEF Owed
<1>2. /\ failures[k] \in Nat /\ row[k].attempts \in Nat
      /\ faults \in Nat /\ overruns \in Nat /\ overruns' \in Nat /\ overruns <= overruns'
  BY <1>0 DEF TypeOK, Row
<1>3. /\ IsFiniteSet(B) /\ Cardinality(A) \in Nat /\ Cardinality(B) \in Nat
      /\ Cardinality(B) <= Cardinality(A)
  BY <1>0, Shrinks
<1>4. Cardinality(B) + 0 <= Cardinality(A) + 0
  BY <1>3
<1>5. faults + overruns + 0 <= faults' + overruns'
  <2>1. \A x, y, z \in Nat : x <= y => z + x + 0 <= z + y
    OBVIOUS
  <2> QED
    BY <1>2, <2>1
<1>6. failures'[k] + row[k].attempts + faults + overruns + Owed(k) + 0
         <= failures[k] + row'[k].attempts + faults' + overruns' + Owed(k)' + 0
  BY <1>1, <1>2
<1> QED
  BY <1>0, <1>3, <1>4, <1>5, <1>6, PaidStep

\* The books of a key without failures need only that nobody comes to be at risk.
LEMMA CleanBooks ==
  ASSUME BudgetInv, TypeOK', NEW k \in Key,
         failures'[k] = 0, Risk(k)' \subseteq Risk(k),
         UNCHANGED <<faults, overruns>>
  PROVE  Paid(k)'
<1> DEFINE A == Risk(k)
           B == Risk(k)'
<1>0. Paid(k) /\ TypeOK /\ IsFiniteSet(A) /\ faults \in Nat /\ overruns \in Nat
  BY DEF BudgetInv, IInv, FailuresArePaid, Paid, TypeOK
<1>1. /\ IsFiniteSet(B) /\ Cardinality(A) \in Nat /\ Cardinality(B) \in Nat
      /\ Cardinality(B) <= Cardinality(A)
  BY <1>0, Shrinks
<1>2. Cardinality(B) + 0 <= Cardinality(A) + 0
  BY <1>1
<1>3. faults + overruns + 0 <= faults' + overruns'
  BY <1>0
<1> QED
  BY <1>0, <1>1, <1>2, <1>3, PaidStep

\* A new payload starts with clean books: no job has it.
LEMMA UpsertBudget ==
  ASSUME BudgetInv, TypeOK', NEW S, Upsert(S)
  PROVE  OneJobPerKey' /\ NewestHoldsLock' /\ FailuresArePaid'
<1>0. /\ row' = [k \in Key |-> IF k \in S THEN Upserted(row[k]) ELSE row[k]]
      /\ failures' = [k \in Key |-> IF k \in S THEN 0 ELSE failures[k]]
      /\ UNCHANGED <<pc, batch, current, cancelled, faults, overruns>>
  BY DEF Upsert, workerVars
<1>t. TypeOK /\ IInv /\ row \in [Key -> Row]
  BY DEF BudgetInv, IInv, TypeOK
<1>u. \A k \in Key : k \in S =>
         /\ row'[k].revision = row[k].revision + 1
         /\ row[k].status = "processing" => /\ row'[k].status = "processing"
                                            /\ row'[k].lockedRevision = row[k].lockedRevision
         /\ row[k].status # "processing" => row'[k].status = "pending"
         /\ failures'[k] = 0
  BY <1>0, <1>t, UpsertedRow
<1>f. \A k \in Key : k \notin S => row'[k] = row[k] /\ failures'[k] = failures[k]
  BY <1>0
<1>1. OneJobPerKey'
  BY <1>0 DEF BudgetInv, OneJobPerKey
<1>2. NewestHoldsLock'
  <2> SUFFICES ASSUME NEW k \in Key, row'[k].status = "processing"
               PROVE  /\ row'[k].lockedRevision <= row'[k].revision
                      /\ \A w \in Worker : \A j \in batch'[w] :
                             j.key = k => j.rev <= row'[k].lockedRevision
                      /\ Superseded(row'[k]) => failures'[k] = 0
    BY DEF NewestHoldsLock
  <2>1. row[k].status = "processing" /\ row'[k].lockedRevision = row[k].lockedRevision
    BY <1>u, <1>f
  <2>2. row[k].lockedRevision <= row'[k].revision
    BY <2>1, <1>t, <1>u, <1>f DEF BudgetInv, NewestHoldsLock, Row
  <2> QED
    BY <2>1, <2>2, <1>0, <1>u, <1>f DEF BudgetInv, NewestHoldsLock
<1>3. ASSUME NEW k \in Key PROVE Paid(k)'
  <2>1. CASE k \in S
    <3>1. Risk(k)' \subseteq {}
      <4>1. \A w \in Worker : \A j \in batch[w] : j.key = k => j.rev # row'[k].revision
        BY <1>t, <1>u, <2>1 DEF IInv, JobsMatchRows, TypeOK, Row, Job
      <4> QED
        BY <1>0, <4>1 DEF Risk
    <3> QED
      BY <1>0, <1>u, <2>1, <3>1, CleanBooks
  <2>2. CASE k \notin S
    <3>1. Risk(k)' \subseteq Risk(k) /\ Counting(k) \subseteq Counting(k)'
      BY <1>0, <1>f, <2>2 DEF Risk, Counting, CanStillFail
    <3> QED
      BY <1>0, <1>f, <2>2, <3>1, OtherBooks
  <2> QED
    BY <2>1, <2>2
<1> QED
  BY <1>1, <1>2, <1>3 DEF FailuresArePaid

\* So does a requeued one; whoever lost its lock is at risk as before.
LEMMA RequeueBudget ==
  ASSUME BudgetInv, TypeOK', NEW k \in Key, Requeue(k)
  PROVE  OneJobPerKey' /\ NewestHoldsLock' /\ FailuresArePaid'
<1>0. /\ row' = [row EXCEPT ![k] = Released(row[k], "pending", 0)]
      /\ row[k].status = "dead_letter"
      /\ failures' = [failures EXCEPT ![k] = 0]
      /\ UNCHANGED <<pc, batch, current, cancelled, faults, overruns>>
  BY DEF Requeue, Requeued, workerVars
<1>t. TypeOK /\ row \in [Key -> Row] /\ failures \in [Key -> Nat] /\ "pending" \in Status /\ 0 \in Nat
  BY DEF BudgetInv, IInv, TypeOK, Status
<1>u. /\ row'[k].status = "pending" /\ row'[k].revision = row[k].revision /\ failures'[k] = 0
      /\ \A q \in Key : q # k => row'[q] = row[q] /\ failures'[q] = failures[q]
  BY <1>0, <1>t, ReleasedRow
<1>1. OneJobPerKey'
  BY <1>0 DEF BudgetInv, OneJobPerKey
<1>2. NewestHoldsLock'
  BY <1>0, <1>u DEF BudgetInv, NewestHoldsLock
<1>3. ASSUME NEW q \in Key PROVE Paid(q)'
  <2>1. CASE q = k
    <3>1. Risk(k)' \subseteq Risk(k)
      BY <1>0, <1>u DEF Risk, CanStillFail, HoldsLock
    <3> QED
      BY <1>0, <1>u, <2>1, <3>1, CleanBooks
  <2>2. CASE q # k
    <3>1. Risk(q)' \subseteq Risk(q) /\ Counting(q) \subseteq Counting(q)'
      BY <1>0, <1>u, <2>2 DEF Risk, Counting, CanStillFail
    <3> QED
      BY <1>0, <1>u, <2>2, <3>1, OtherBooks
  <2> QED
    BY <2>1, <2>2
<1> QED
  BY <1>1, <1>2, <1>3 DEF FailuresArePaid

\* Releasing a row: the attempts go up by what is owed, or the payload was
\* replaced and has no failures.
LEMMA ReleaseBudget ==
  ASSUME BudgetInv, TypeOK', NEW w \in Worker, NEW j \in batch[w], NEW r2 \in Row,
         \/ /\ Forget(w, j, "batch")
            /\ pc[w] \in {"succeeded", "failed"} /\ j = current[w]
         \/ Forget(w, j, "abandoning") /\ pc[w] = "abandoning",
         UNCHANGED <<cancelled, failures, faults, overruns>>,
         HoldsLock(row[j.key], j.token),
         row' = [row EXCEPT ![j.key] = r2],
         r2.status # "processing", r2.revision = row[j.key].revision,
         Superseded(row[j.key]) \/ row[j.key].attempts + Owed(j.key) <= r2.attempts
  PROVE  OneJobPerKey' /\ NewestHoldsLock' /\ FailuresArePaid'
<1>t. TypeOK /\ IInv /\ row \in [Key -> Row] /\ failures \in [Key -> Nat] /\ j.key \in Key
  BY DEF BudgetInv, IInv, TypeOK, Job
<1>r. row'[j.key] = r2 /\ \A k \in Key : k # j.key => row'[k] = row[k]
  BY <1>t
<1>b. /\ \A v \in Worker : v # w => /\ pc'[v] = pc[v] /\ batch'[v] = batch[v]
                                   /\ current'[v] = current[v]
      /\ batch'[w] = batch[w] \ {j}
      /\ \A i \in batch'[w] : CanStillFail(w, i)' => CanStillFail(w, i)
  BY ForgetRisk
<1>c. \A v \in Worker : \A i \in batch'[v] :
         i \in batch[v] /\ (CanStillFail(v, i)' => CanStillFail(v, i))
  BY <1>b DEF CanStillFail
<1>1. OneJobPerKey'
  BY <1>c DEF BudgetInv, OneJobPerKey
<1>2. NewestHoldsLock'
  BY <1>c, <1>r DEF BudgetInv, NewestHoldsLock
<1>3. ASSUME NEW k \in Key PROVE Paid(k)'
  <2>1. CASE k # j.key
    <3>1. Risk(k)' \subseteq Risk(k)
      BY <1>c, <1>r, <2>1 DEF Risk
    <3>2. w \notin Counting(k)
      BY <2>1 DEF Counting
    <3>3. Counting(k) \subseteq Counting(k)'
      BY <1>b, <1>r, <2>1, <3>2 DEF Counting
    <3> QED
      BY <1>r, <2>1, <3>1, <3>3, OtherBooks
  <2>2. CASE k = j.key
    <3>1. Risk(k)' \subseteq Risk(k)
      <4>1. \A v \in Worker : \A i \in batch'[v] : i.key = k => ~HoldsLock(row[k], i.token)
        BY <1>b, <1>t, <2>2, OneHolder
      <4> QED
        BY <1>c, <1>r, <2>2, <4>1 DEF Risk
    <3>2. CASE Superseded(row[k])
      <4>1. failures'[k] = 0
        BY <2>2, <3>2 DEF BudgetInv, NewestHoldsLock, HoldsLock
      <4> QED
        BY <3>1, <4>1, CleanBooks
    <3>3. CASE row[k].attempts + Owed(k) <= row'[k].attempts
      <4> DEFINE A == Risk(k)
                 B == Risk(k)'
      <4>0. Paid(k) /\ IsFiniteSet(A)
        BY DEF BudgetInv, FailuresArePaid, Paid
      <4>1. IsFiniteSet(B) /\ Cardinality(A) \in Nat /\ Cardinality(B) \in Nat /\ Cardinality(B) <= Cardinality(A)
        BY <3>1, <4>0, Shrinks
      <4>2. Cardinality(B) + 0 <= Cardinality(A) + 0
        BY <4>1
      <4>3. /\ Owed(k) \in {0, 1} /\ Owed(k)' \in {0, 1}
            /\ failures[k] \in Nat /\ row[k].attempts \in Nat /\ row'[k].attempts \in Nat
            /\ faults \in Nat /\ overruns \in Nat
        BY <1>t, <1>r, <2>2 DEF Owed, TypeOK, Row
      <4>4. faults + overruns + 0 <= faults' + overruns'
        BY <4>3
      <4>5. failures'[k] + row[k].attempts + faults + overruns + Owed(k) + 0
               <= failures[k] + row'[k].attempts + faults' + overruns' + Owed(k)' + 0
        BY <3>3, <4>3
      <4> QED
        BY <1>t, <4>0, <4>1, <4>2, <4>4, <4>5, PaidStep
    <3> QED
      BY <1>r, <2>2, <3>2, <3>3
  <2> QED
    BY <2>1, <2>2
<1> QED
  BY <1>1, <1>2, <1>3 DEF FailuresArePaid

\* While a worker that has not failed holds the lock, no count is owed.
LEMMA NothingOwed ==
  ASSUME IInv, NEW w \in Worker, NEW j \in batch[w], HoldsLock(row[j.key], j.token), pc[w] # "failed"
  PROVE  Owed(j.key) = 0
<1>1. Counting(j.key) = {}
  <2> SUFFICES ASSUME NEW v \in Worker, pc[v] = "failed", current[v].key = j.key,
                      HoldsLock(row[j.key], current[v].token)
               PROVE  FALSE
    BY DEF Counting
  <2>1. current[v] \in batch[v]
    BY DEF IInv, CurrentIsSound
  <2> QED
    BY <2>1, OneHolder
<1> QED
  BY <1>1 DEF Owed

\* The four marks.
LEMMA MarkBudget ==
  ASSUME BudgetInv, TypeOK', NEW w \in Worker,
         \/ MarkJobDone(w) \/ MarkJobFailure(w)
         \/ \E j \in batch[w] : MarkJobAbandoned(w, j)
  PROVE  OneJobPerKey' /\ NewestHoldsLock' /\ FailuresArePaid'
<1>i. IInv
  BY DEF BudgetInv
<1>1. PICK j \in batch[w] :
        /\ \/ /\ Forget(w, j, "batch")
              /\ pc[w] \in {"succeeded", "failed"} /\ j = current[w]
           \/ Forget(w, j, "abandoning") /\ pc[w] = "abandoning"
        /\ \/ pc[w] # "failed" /\ (Mark(j, MarkedDone(RowOf(j))) \/ Mark(j, MarkedAbandoned(RowOf(j))))
           \/ Mark(j, MarkedRetry(RowOf(j))) \/ Mark(j, MarkedDeadLetter(RowOf(j)))
        /\ UNCHANGED <<cancelled, failures, faults, overruns>>
  <2>1. CASE MarkJobDone(w) \/ MarkJobFailure(w)
    <3>1. current[w] \in batch[w]
      BY <1>i, <2>1 DEF MarkJobDone, MarkJobFailure, IInv, CurrentIsSound
    <3> QED
      BY <2>1, <3>1 DEF MarkJobDone, MarkJobFailure
  <2>2. CASE \E j \in batch[w] : MarkJobAbandoned(w, j)
    BY <2>2 DEF MarkJobAbandoned
  <2> QED
    BY <2>1, <2>2
<1> DEFINE r == row[j.key]
<1>2. CASE ~HoldsLock(r, j.token)
  <2>1. row' = row
    BY <1>1, <1>2 DEF Mark
  <2> QED
    BY <1>1, <1>2, <2>1, ForgetBudget
<1>3. CASE HoldsLock(r, j.token)
  <2>1. /\ j.key \in Key /\ r \in Row /\ r.attempts \in Nat /\ r.attempts + 1 \in Nat /\ 0 \in Nat
        /\ {"pending", "failed", "completed", "dead_letter"} \subseteq Status
    BY <1>i DEF IInv, TypeOK, Row, Job, Status
  <2>2. PICK s \in {"pending", "failed", "completed", "dead_letter"}, n \in Nat :
          /\ row' = [row EXCEPT ![j.key] = Released(r, s, n)]
          /\ \/ Superseded(r)
             \/ n = r.attempts /\ pc[w] # "failed"
             \/ n = r.attempts + 1
    <3>1. CASE Mark(j, MarkedDone(r)) /\ pc[w] # "failed"
      BY <1>3, <2>1, <3>1 DEF Mark, MarkedDone, Rescheduled
    <3>2. CASE Mark(j, MarkedAbandoned(r)) /\ pc[w] # "failed"
      BY <1>3, <2>1, <3>2 DEF Mark, MarkedAbandoned
    <3>3. CASE Mark(j, MarkedRetry(r))
      BY <1>3, <2>1, <3>3 DEF Mark, MarkedRetry, Rescheduled
    <3>4. CASE Mark(j, MarkedDeadLetter(r))
      BY <1>3, <2>1, <3>4 DEF Mark, MarkedDeadLetter, Rescheduled
    <3> QED
      BY <1>1, <3>1, <3>2, <3>3, <3>4 DEF RowOf
  <2> DEFINE r2 == Released(r, s, n)
  <2>3. r2 \in Row /\ r2.status = s /\ r2.attempts = n /\ r2.revision = r.revision
    <3>1. r \in Row /\ s \in Status /\ n \in Nat
      BY <2>1
    <3> HIDE DEF r
    <3>2. /\ Released(r, s, n) \in Row
          /\ Released(r, s, n).status = s
          /\ Released(r, s, n).attempts = n
          /\ Released(r, s, n).revision = r.revision
      BY <3>1, ReleasedRow
    <3> QED
      BY <3>2
  <2>4. Superseded(r) \/ r.attempts + Owed(j.key) <= n
    <3>1. Owed(j.key) \in {0, 1}
      BY DEF Owed
    <3>2. pc[w] # "failed" => Owed(j.key) = 0
      BY <1>i, <1>3, NothingOwed
    <3> QED
      BY <2>1, <2>2, <3>1, <3>2
  <2>5. r2.status # "processing"
    BY <2>3
  <2> HIDE DEF r2
  <2>6. row' = [row EXCEPT ![j.key] = r2]
    BY <2>2 DEF r2
  <2> QED
    BY <1>1, <1>3, <2>3, <2>4, <2>5, <2>6, ReleaseBudget
<1> QED
  BY <1>2, <1>3

\* A mark that is lost.
LEMMA LoseBudget ==
  ASSUME BudgetInv, TypeOK', NEW w \in Worker, LoseMark(w) \/ \E j \in batch[w] : LoseAbandon(w, j)
  PROVE  OneJobPerKey' /\ NewestHoldsLock' /\ FailuresArePaid'
<1>1. CASE LoseMark(w)
  <2>1. current[w] \in batch[w]
    BY <1>1 DEF LoseMark, BudgetInv, IInv, CurrentIsSound
  <2> QED
    BY <1>1, <2>1, ForgetBudget DEF LoseMark
<1>2. CASE \E j \in batch[w] : LoseAbandon(w, j)
  BY <1>2, ForgetBudget DEF LoseAbandon
<1> QED
  BY <1>1, <1>2

\* A claim: what it takes from a live worker is paid for, be it a worker that goes on
\* without its lock or a failure that is not going to be counted.
LEMMA ClaimBudget ==
  ASSUME BudgetInv, TypeOK', NEW w \in Worker, NEW S \in SUBSET Key, NEW t \in Token, Claim(w, S, t)
  PROVE  OneJobPerKey' /\ NewestHoldsLock' /\ FailuresArePaid'
<1>0. /\ pc[w] = "idle" /\ ~cancelled[w]
      /\ row' = [k \in Key |-> IF k \in S THEN Claimed(row[k], t) ELSE row[k]]
      /\ batch' = [batch EXCEPT ![w] = {JobOf(k, t) : k \in S}]
      /\ pc' = [pc EXCEPT ![w] = "batch"]
      /\ \A v \in Worker : \A j \in batch[v] : j.token # t
      /\ overruns' = overruns + (IF \E k \in S : LiveHolder(k) THEN 1 ELSE 0)
      /\ UNCHANGED <<current, cancelled, failures, faults>>
  BY DEF Claim, Fresh
<1>t. IInv /\ TypeOK /\ row \in [Key -> Row] /\ overruns \in Nat /\ faults \in Nat /\ t # NoToken
  BY NoTokenAssumption DEF BudgetInv, IInv, TypeOK
<1>o. /\ overruns' = overruns \/ overruns' = overruns + 1
      /\ \A k \in S : LiveHolder(k) => overruns' = overruns + 1
  BY <1>0, <1>t
<1>w. /\ pc'[w] = "batch"
      /\ \A j \in batch'[w] : /\ j.key \in S /\ j = JobOf(j.key, t)
                              /\ j.token = t /\ j.rev = row[j.key].revision
  BY <1>0, <1>t DEF TypeOK, JobOf
<1>v. \A v \in Worker : v # w => pc'[v] = pc[v] /\ batch'[v] = batch[v]
  BY <1>0, <1>t DEF TypeOK
<1>s. \A k \in S : /\ row'[k].status = "processing" /\ row'[k].lockedAt = t
                   /\ row'[k].lockedRevision = row[k].revision
                   /\ row'[k].revision = row[k].revision
                   /\ row'[k].attempts = row[k].attempts
  BY <1>0, <1>t, ClaimedRow
<1>f. \A k \in Key : k \notin S => row'[k] = row[k]
  BY <1>0
<1>1. OneJobPerKey'
  <2> SUFFICES ASSUME NEW v \in Worker, NEW i \in batch'[v], NEW j \in batch'[v], i.key = j.key
               PROVE  i = j
    BY DEF OneJobPerKey
  <2>1. CASE v = w
    BY <1>w, <2>1
  <2>2. CASE v # w
    BY <1>v, <2>2 DEF BudgetInv, OneJobPerKey
  <2> QED
    BY <2>1, <2>2
<1>2. NewestHoldsLock'
  <2> SUFFICES ASSUME NEW k \in Key, row'[k].status = "processing"
               PROVE  /\ row'[k].lockedRevision <= row'[k].revision
                      /\ \A v \in Worker : \A j \in batch'[v] :
                             j.key = k => j.rev <= row'[k].lockedRevision
                      /\ Superseded(row'[k]) => failures'[k] = 0
    BY DEF NewestHoldsLock
  <2>1. CASE k \in S
    <3>1. row[k].revision \in Nat /\ row'[k].lockedRevision = row[k].revision /\ row'[k].revision = row[k].revision
      BY <1>t, <1>s, <2>1 DEF Row
    <3>2. ASSUME NEW v \in Worker, NEW j \in batch'[v], j.key = k PROVE j.rev <= row[k].revision
      <4>1. CASE v = w
        BY <1>w, <3>1, <3>2, <4>1
      <4>2. CASE v # w
        BY <1>t, <1>v, <3>2, <4>2 DEF IInv, JobsMatchRows
      <4> QED
        BY <4>1, <4>2
    <3> QED
      BY <3>1, <3>2 DEF Superseded
  <2>2. CASE k \notin S
    <3>1. \A v \in Worker : \A j \in batch'[v] : j.key = k => j \in batch[v]
      BY <1>w, <1>v, <2>2
    <3> QED
      BY <1>0, <1>f, <2>2, <3>1 DEF BudgetInv, NewestHoldsLock
  <2> QED
    BY <2>1, <2>2
<1>3. ASSUME NEW k \in Key PROVE Paid(k)'
  <2>1. CASE k \notin S
    <3>1. Risk(k)' \subseteq Risk(k)
      <4> SUFFICES ASSUME NEW v \in Worker, NEW j \in batch'[v], j.key = k,
                          j.rev = row[k].revision, CanStillFail(v, j)',
                          ~HoldsLock(row[k], j.token) \/ cancelled[v]
                   PROVE  v \in Risk(k)
        BY <1>0, <1>f, <2>1 DEF Risk
      <4>1. v # w
        BY <1>w, <2>1
      <4> QED
        BY <1>0, <1>v, <4>1 DEF Risk, CanStillFail
    <3>2. Counting(k) \subseteq Counting(k)'
      BY <1>0, <1>v, <1>f, <2>1 DEF Counting
    <3> QED
      BY <1>0, <1>o, <1>f, <2>1, <3>1, <3>2, OtherBooks
  <2>2. CASE k \in S
    <3>1. ASSUME NEW v \in Worker, v \in Risk(k)', v \notin Risk(k)
          PROVE  \E i \in batch[v] : i.key = k /\ HoldsLock(row[k], i.token) /\ CanStillFail(v, i)
      <4>1. PICK j \in batch'[v] : /\ j.key = k /\ j.rev = row[k].revision /\ CanStillFail(v, j)'
                                   /\ ~HoldsLock(row'[k], j.token) \/ cancelled[v]
        BY <1>0, <1>s, <2>2, <3>1 DEF Risk
      <4>2. v # w
        BY <1>0, <1>w, <1>s, <2>2, <4>1, ZenonT(40) DEF HoldsLock
      <4>3. j \in batch[v] /\ CanStillFail(v, j)
        BY <1>0, <1>v, <4>1, <4>2 DEF CanStillFail
      <4> QED
        BY <3>1, <4>1, <4>3 DEF Risk
    <3>2. \A u \in Counting(k) : /\ u \in Worker /\ current[u] \in batch[u] /\ current[u].key = k
                                 /\ HoldsLock(row[k], current[u].token) /\ pc[u] = "failed"
      BY <1>t DEF Counting, IInv, CurrentIsSound
    <3>s. Risk(k) \subseteq Worker /\ Risk(k)' \subseteq Worker
      BY DEF Risk
    <3>3. CASE ~LiveHolder(k)
      <4>1. Risk(k)' \subseteq Risk(k)
        BY <3>1, <3>3, <3>s DEF LiveHolder
      <4>2. Counting(k) \subseteq Counting(k)'
        BY <3>2, <3>3 DEF LiveHolder
      <4> QED
        BY <1>0, <1>o, <1>s, <2>2, <4>1, <4>2, OtherBooks
    <3>4. CASE LiveHolder(k)
      <4> DEFINE A == Risk(k)
                 B == Risk(k)'
      <4>0. Paid(k) /\ IsFiniteSet(A)
        BY DEF BudgetInv, FailuresArePaid, Paid
      <4>1. PICK h \in Worker : \E i \in batch[h] : i.key = k /\ HoldsLock(row[k], i.token)
        BY <3>4 DEF LiveHolder
      <4>2. /\ Owed(k) \in {0, 1} /\ Owed(k)' \in {0, 1}
            /\ failures[k] \in Nat /\ row[k].attempts \in Nat /\ row'[k].attempts = row[k].attempts
            /\ overruns' = overruns + 1
        BY <1>t, <1>o, <1>s, <2>2, <3>4 DEF Owed, TypeOK, Row
      <4>3. CASE Counting(k) = {}
        <5>1. B \subseteq A \cup {h}
          BY <1>t, <3>1, <3>s, <4>1, OneHolder
        <5>2. /\ IsFiniteSet(B) /\ Cardinality(A) \in Nat /\ Cardinality(B) \in Nat
              /\ Cardinality(B) <= Cardinality(A) + 1
          BY <4>0, <5>1, GrowsByOne
        <5>3. Cardinality(B) + 0 <= Cardinality(A) + 1
          BY <5>2
        <5>4. faults + overruns + 1 <= faults' + overruns'
          BY <1>0, <1>t, <4>2
        <5>5. Owed(k) = 0
          BY <4>3 DEF Owed
        <5>6. failures'[k] + row[k].attempts + faults + overruns + Owed(k) + 1
                 <= failures[k] + row'[k].attempts + faults' + overruns' + Owed(k)' + 0
          BY <1>0, <1>t, <4>2, <5>5
        <5> QED
          BY <1>t, <4>0, <5>2, <5>3, <5>4, <5>6, PaidStep
      <4>4. CASE Counting(k) # {}
        <5>1. PICK u \in Counting(k) : TRUE
          BY <4>4
        <5>2. B \subseteq A
          <6> SUFFICES ASSUME NEW v \in Worker, v \in B, v \notin A PROVE FALSE
            BY <3>s
          <6>1. PICK i \in batch[v] : i.key = k /\ HoldsLock(row[k], i.token) /\ CanStillFail(v, i)
            BY <3>1
          <6>2. v = u /\ i = current[u] /\ pc[u] = "failed"
            BY <1>t, <3>2, <5>1, <6>1, OneHolder
          <6> QED
            BY <6>1, <6>2 DEF CanStillFail
        <5>3. /\ IsFiniteSet(B) /\ Cardinality(A) \in Nat /\ Cardinality(B) \in Nat
              /\ Cardinality(B) <= Cardinality(A)
          BY <4>0, <5>2, Shrinks
        <5>4. Cardinality(B) + 0 <= Cardinality(A) + 0
          BY <5>3
        <5>5. faults + overruns + 0 <= faults' + overruns'
          BY <1>0, <1>t, <4>2
        <5>6. failures'[k] + row[k].attempts + faults + overruns + Owed(k) + 0
                 <= failures[k] + row'[k].attempts + faults' + overruns' + Owed(k)' + 0
          BY <1>0, <1>t, <4>2
        <5> QED
          BY <1>t, <4>0, <5>3, <5>4, <5>5, <5>6, PaidStep
      <4> QED
        BY <4>3, <4>4
    <3> QED
      BY <3>3, <3>4
  <2> QED
    BY <2>1, <2>2
<1> QED
  BY <1>1, <1>2, <1>3 DEF FailuresArePaid
-----------------------------------------------------------------------------
(* The invariant, for every use that is made of the outbox.                *)

\* A step of the outbox, also one that upserts several jobs, keeps the books.
LEMMA SharedBudget ==
  ASSUME BudgetInv, IInv', [SharedNext]_vars
  PROVE  BudgetInv'
<1>t. TypeOK'
  BY DEF IInv
<1>1. ASSUME NEW S, Upsert(S) PROVE BudgetInv'
  BY <1>t, <1>1, UpsertBudget DEF BudgetInv
<1>2. ASSUME Produce PROVE BudgetInv'
  BY <1>t, <1>1, <1>2, RequeueBudget DEF BudgetInv, Produce, Enqueue
<1>3. ASSUME NEW k \in Key, ClaimOf(k) PROVE BudgetInv'
  BY <1>t, <1>3, ClaimBudget DEF BudgetInv, ClaimOf
<1>4. ASSUME NEW w \in Worker, Work(w) PROVE BudgetInv'
  <2>1. CASE HandlerFails(w)
    BY <1>t, <2>1, HandlerFailsBudget DEF BudgetInv
  <2>2. CASE \/ MarkJobDone(w) \/ MarkJobFailure(w)
             \/ \E j \in batch[w] : MarkJobAbandoned(w, j)
    BY <1>t, <2>2, MarkBudget DEF BudgetInv
  <2>3. CASE \/ \E j \in batch[w] : StartJob(w, j)
             \/ HandlerSucceeds(w) \/ AbandonBatch(w) \/ Exit(w) \/ Start(w)
    BY <1>t, <2>3, MoveBudget DEF BudgetInv
  <2> QED
    BY <1>4, <2>1, <2>2, <2>3 DEF Work
<1>5. ASSUME NEW w \in Worker, Disturb(w) PROVE BudgetInv'
  BY <1>t, <1>5, LoseBudget, StopBudget DEF BudgetInv, Disturb
<1>6. CASE UNCHANGED vars
  BY <1>6 DEF vars, BudgetInv, OneJobPerKey, NewestHoldsLock, FailuresArePaid, Paid, Risk,
     Counting, Owed, CanStillFail
<1> QED
  BY <1>1, <1>2, <1>3, <1>4, <1>5, <1>6 DEF SharedNext, Next

\* The books start empty.
LEMMA InitBudget == Init => BudgetInv
<1> SUFFICES ASSUME Init PROVE BudgetInv
  OBVIOUS
<1>1. IInv
  BY InitInv
<1>2. OneJobPerKey /\ NewestHoldsLock
  BY DEF Init, OneJobPerKey, NewestHoldsLock, AbsentRow
<1>3. ASSUME NEW k \in Key PROVE Paid(k)
  <2>1. Risk(k) = {} /\ Counting(k) = {}
    BY DEF Init, Risk, Counting
  <2>2. Cardinality(Risk(k)) = 0 /\ IsFiniteSet(Risk(k)) /\ Owed(k) = 0
    BY <2>1, FS_EmptySet DEF Owed
  <2>3. failures[k] = 0 /\ row[k].attempts = 0 /\ faults = 0 /\ overruns = 0
    BY DEF Init, AbsentRow
  <2> QED
    BY <2>2, <2>3 DEF Paid
<1> QED
  BY <1>1, <1>2, <1>3 DEF BudgetInv, FailuresArePaid

\* Attempts never exceed the failed calls of the payload, and fall behind them by
\* no more than faults and takeovers.
LEMMA BudgetExact == BudgetInv => RetryBudgetIsExact
<1> SUFFICES ASSUME BudgetInv, NEW k \in Key
             PROVE  /\ row[k].attempts <= failures[k]
                    /\ row[k].status \in {"pending", "failed", "dead_letter"} =>
                           failures[k] <= row[k].attempts + faults + overruns
  BY DEF RetryBudgetIsExact
<1>1. row[k].attempts <= failures[k]
  BY DEF BudgetInv, IInv, AttemptsAreFailures
<1>2. ASSUME row[k].status \in {"pending", "failed", "dead_letter"}
      PROVE  failures[k] <= row[k].attempts + faults + overruns
  <2>1. Owed(k) = 0
    BY <1>2 DEF Owed, Counting, HoldsLock
  <2>2. /\ Cardinality(Risk(k)) \in Nat
        /\ failures[k] + Cardinality(Risk(k)) <= row[k].attempts + faults + overruns + Owed(k)
    BY FS_CardinalityType DEF BudgetInv, FailuresArePaid, Paid
  <2>3. /\ failures[k] \in Nat /\ row[k].attempts \in Nat /\ faults \in Nat /\ overruns \in Nat
    BY DEF BudgetInv, IInv, TypeOK, Row
  <2> QED
    BY <2>1, <2>2, <2>3
<1> QED
  BY <1>1, <1>2

\* The strengthened invariant of the retry budget, also when transactions upsert
\* several jobs.
THEOREM SharedBudgetInvariant == SharedSpec => []BudgetInv
<1>1. BudgetInv /\ [SharedNext]_vars => BudgetInv'
  BY SharedStepInv, SharedBudget DEF BudgetInv
<1> QED
  BY <1>1, InitBudget, PTL DEF SharedSpec

\* The budget is exact in every reachable state of every outbox.
THEOREM SharedBudgetIsExact == SharedSpec => []RetryBudgetIsExact
BY BudgetExact, SharedBudgetInvariant, PTL

\* In particular in those of the outbox on its own.
THEOREM BudgetInvariant == Spec => []BudgetInv
BY SharedBudgetInvariant, OutboxIsShared, PTL

THEOREM RetryBudgetIsExactAlways == Spec => []RetryBudgetIsExact
BY SharedBudgetIsExact, OutboxIsShared, PTL
=============================================================================
