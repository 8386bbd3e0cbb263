---------------------------- MODULE GrantProofs -----------------------------
(***************************************************************************)
(* What is proved about the grant ledger and its projection, for any       *)
(* number of grants, workers and claim instants and any limits: the        *)
(* inductive invariant LedgerInv, and from it the safety properties and    *)
(* that access ends by revocation only.                                    *)
(*                                                                         *)
(* Actions fall into six shapes: a transaction on the ledger, a step       *)
(* inside the handler, a step that only the outbox and the worker see, the *)
(* two updates of the projection state, a late OpenFGA write, and the      *)
(* scan.  Each shape has a lemma that says what keeps the invariant.       *)
(***************************************************************************)
EXTENDS GrantProjection, BudgetProofs, FiniteSetTheorems, SequenceTheorems

HandlerStep == {"list", "write", "delete", "verify", "apply"}
-----------------------------------------------------------------------------
(* The row operators.                                                      *)

\* The three ledger changes make a pending row of the next revision; the two that
\* keep an activation keep the desired state or revoke it.
LEMMA ChangedRow ==
  ASSUME NEW r \in Grant
  PROVE  /\ Granted(r) \in Grant
         /\ Granted(r).revision = r.revision + 1
         /\ Granted(r).projection = "pending"
         /\ Granted(r).desired = "granted"
         /\ ~GivesAccess(Granted(r))
         /\ Revoked(r) \in Grant
         /\ Revoked(r).revision = r.revision + 1
         /\ Revoked(r).projection = "pending"
         /\ Revoked(r).desired = "revoked"
         /\ ~GivesAccess(Revoked(r))
         /\ Reconciled(r) \in Grant
         /\ Reconciled(r).revision = r.revision + 1
         /\ Reconciled(r).projection = "pending"
         /\ Reconciled(r).desired = r.desired
         /\ GivesAccess(Reconciled(r)) <=> GivesAccess(r)
<1>1. r.revision + 1 \in Nat
  BY DEF Grant
<1>2. /\ Granted(r) \in Grant
      /\ Granted(r).revision = r.revision + 1
      /\ Granted(r).projection = "pending"
      /\ Granted(r).desired = "granted"
      /\ Granted(r).activated = FALSE
  BY <1>1 DEF Granted, Grant, Desired
<1>3. /\ Revoked(r) \in Grant
      /\ Revoked(r).revision = r.revision + 1
      /\ Revoked(r).projection = "pending"
      /\ Revoked(r).desired = "revoked"
  BY <1>1 DEF Revoked, Grant, Desired
<1>4. /\ Reconciled(r) \in Grant
      /\ Reconciled(r).revision = r.revision + 1
      /\ Reconciled(r).projection = "pending"
      /\ Reconciled(r).desired = r.desired
      /\ Reconciled(r).activated = r.activated
  BY <1>1 DEF Reconciled, Grant, Desired
<1> QED
  BY <1>2, <1>3, <1>4 DEF GivesAccess

\* The two projection updates leave revision and desired state, and touch a row
\* only through the fence.
LEMMA ProjectedRow ==
  ASSUME NEW r \in Grant, NEW p
  PROVE  /\ Applied(r, p) \in Grant
         /\ Applied(r, p).revision = r.revision
         /\ Applied(r, p).desired = r.desired
         /\ GivesAccess(Applied(r, p)) =>
                GivesAccess(r) \/ Matches(r, p)
         /\ GivesAccess(r) => GivesAccess(Applied(r, p))
         /\ Matches(r, p) => Applied(r, p).projection = "applied"
         /\ ~Matches(r, p) => Applied(r, p) = r
         /\ Failed(r, p) \in Grant
         /\ Failed(r, p).revision = r.revision
         /\ Failed(r, p).desired = r.desired
         /\ GivesAccess(Failed(r, p)) <=> GivesAccess(r)
         /\ Failed(r, p) = r \/ (/\ Failed(r, p).projection = "failed"
                                 /\ r.projection # "applied"
                                 /\ Matches(r, p))
<1> DEFINE act == r.activated \/ r.desired = "granted"
           a == [r EXCEPT !.projection = "applied", !.activated = act]
           f == [r EXCEPT !.projection = "failed"]
<1>0. act \in BOOLEAN /\ (r.activated => act)
  BY DEF Grant
<1> HIDE DEF act
<1>1. /\ a \in Grant /\ a.revision = r.revision /\ a.desired = r.desired
      /\ a.projection = "applied" /\ a.activated = act
  BY <1>0 DEF Grant
<1>2. /\ f \in Grant /\ f.revision = r.revision /\ f.desired = r.desired
      /\ f.projection = "failed" /\ f.activated = r.activated
  BY DEF Grant
<1>3. Applied(r, p) = IF Matches(r, p) /\ r.projection # "applied" THEN a ELSE r
  BY DEF Applied, act
<1>4. Failed(r, p) = IF Matches(r, p) /\ r.projection # "applied" THEN f ELSE r
  BY DEF Failed
<1> HIDE DEF a, f
<1>5. CASE Matches(r, p) /\ r.projection # "applied"
  <2>1. Applied(r, p) = a /\ Failed(r, p) = f
    BY <1>3, <1>4, <1>5
  <2>2. GivesAccess(a) => Matches(r, p)
    BY <1>5
  <2>3. GivesAccess(r) => GivesAccess(a)
    BY <1>0, <1>1 DEF GivesAccess
  <2>4. GivesAccess(f) <=> GivesAccess(r)
    BY <1>2 DEF GivesAccess
  <2> QED
    BY <1>1, <1>2, <1>5, <2>1, <2>2, <2>3, <2>4
<1>6. CASE ~(Matches(r, p) /\ r.projection # "applied")
  <2>1. Applied(r, p) = r /\ Failed(r, p) = r
    BY <1>3, <1>4, <1>6
  <2> QED
    BY <1>6, <2>1
<1> QED
  BY <1>5, <1>6

\* The payload of a job a worker is at is one that was really written, with the
\* revision of the claim; if that is the grant's revision, it passes the fence.
LEMMA PayloadOfJob ==
  ASSUME LedgerInv, NEW w \in Worker, pc[w] \in {"handling", "succeeded", "failed"}
  PROVE  /\ GrantOf(w) \in Key /\ current[w] \in batch[w]
         /\ current[w].rev \in 1 .. row[GrantOf(w)].revision
         /\ PayloadFor(w) \in Payload
         /\ PayloadFor(w).revision = current[w].rev
         /\ Matches(grant[GrantOf(w)], PayloadFor(w)) <=>
                current[w].rev = row[GrantOf(w)].revision
<1> DEFINE g == GrantOf(w)
           n == row[g].revision
           i == current[w].rev
<1>1. current[w] \in batch[w] /\ current[w] \in Job /\ g \in Key
  BY DEF LedgerInv, IInv, TypeOK, CurrentIsSound, Job, GrantOf
<1>2. i \in Nat /\ n \in Nat /\ i \in 1 .. n
  BY <1>1 DEF LedgerInv, IInv, JobsMatchRows, TypeOK, Row, Job, GrantOf
<1>3. payload[g] \in Seq(Payload) /\ Len(payload[g]) = n
  BY <1>1 DEF LedgerInv, LedgerTypeOK, LedgersAgree
<1>4. payload[g][i] \in Payload /\ payload[g][i].revision = i
  <2>1. payload[g][i] \in Payload
    BY <1>2, <1>3
  <2>2. payload[g][i].revision = i
    BY <1>1, <1>2 DEF LedgerInv, LedgersAgree
  <2> QED
    BY <2>1, <2>2
<1>5. grant[g].revision = n /\ (n > 0 => payload[g][n] = PayloadOf(g, grant[g]))
  BY <1>1 DEF LedgerInv, LedgersAgree
<1>6. Matches(grant[g], payload[g][i]) <=> i = n
  BY <1>2, <1>4, <1>5 DEF Matches, PayloadOf
<1> QED
  BY <1>1, <1>2, <1>4, <1>6 DEF PayloadFor, GrantOf
-----------------------------------------------------------------------------
(* The shapes of a step.                                                   *)

\* Steps that move the outbox and its workers and leave ledger, tuples and scan
\* alone: no worker enters its handler's middle, a terminal failure has seen a
\* payload, and a job is completed or a call succeeds only where nothing is
\* outstanding for its payload.
LEMMA WorkerStep ==
  ASSUME LedgerInv, IInv',
         UNCHANGED <<grant, payload, since, scan, verified, tuple>>,
         mutations' \in Nat, errors' \in Nat, late' \in Nat,
         inFlight' \subseteq Op,
         late' = 0 => late = 0 /\ inFlight' = inFlight,
         overruns' = 0 => overruns = 0,
         step' \in [Worker -> Step],
         seen' \in [Worker -> Payload \cup {NoPayload}],
         \A g \in Key :
            /\ row'[g].revision = row[g].revision
            /\ row'[g].status = "completed" =>
                  row[g].status = "completed" \/ grant[g].projection \notin {"pending", "failed"},
         \A w \in Worker : \A j \in batch'[w] :
            j \in batch[w] \/ j.rev = row[j.key].revision,
         \A w \in Worker :
            \/ /\ step'[w] = step[w] /\ seen'[w] = seen[w]
               /\ pc'[w] = pc[w] /\ current'[w] = current[w]
            \/ /\ step'[w] \notin HandlerStep
               /\ step'[w] = "terminal" => pc'[w] = "failed"
               /\ step'[w] \in {"terminal", "markFailed"} => seen'[w] \in Payload
               /\ pc'[w] = "succeeded" =>
                     /\ current'[w] = current[w]
                     /\ GrantOf(w) \in Key
                     /\ current[w].rev = row[GrantOf(w)].revision
                           => grant[GrantOf(w)].projection = "applied"
  PROVE  LedgerInv'
<1>1. LedgerTypeOK'
  BY DEF LedgerInv, IInv, LedgerTypeOK
<1>2. LedgersAgree'
  BY DEF LedgerInv, LedgersAgree
<1>3. StepsFit'
  BY DEF LedgerInv, StepsFit, HandlerStep
<1>4. HandlersAreSound'
  <2> SUFFICES ASSUME NEW w \in Worker
               PROVE  /\ step'[w] \in {"list", "write"} => Wanted(w)'
                      /\ step'[w] = "delete" => ~Wanted(w)'
                      /\ step'[w] = "apply" => PayloadFor(w)'.revision \in verified[GrantOf(w)']
                      /\ pc'[w] = "succeeded" /\ current'[w].rev = row'[GrantOf(w)'].revision
                            => grant[GrantOf(w)'].projection = "applied"
    BY DEF HandlersAreSound
  <2>1. CASE step'[w] = step[w] /\ pc'[w] = pc[w] /\ current'[w] = current[w]
    <3>1. Wanted(w)' = Wanted(w) /\ PayloadFor(w)' = PayloadFor(w) /\ GrantOf(w)' = GrantOf(w)
      BY <2>1 DEF Wanted, PayloadFor, GrantOf
    <3>2. pc[w] = "succeeded" => GrantOf(w) \in Key
      BY PayloadOfJob
    <3> QED
      BY <2>1, <3>1, <3>2 DEF LedgerInv, HandlersAreSound
  <2>2. CASE /\ step'[w] \notin HandlerStep
             /\ pc'[w] = "succeeded" =>
                   /\ current'[w] = current[w]
                   /\ GrantOf(w) \in Key
                   /\ current[w].rev = row[GrantOf(w)].revision
                         => grant[GrantOf(w)].projection = "applied"
    BY <2>2 DEF HandlerStep, GrantOf
  <2> QED
    BY <2>1, <2>2
<1>5. ScanIsOfGrants'
  BY DEF LedgerInv, ScanIsOfGrants, Existing
<1>6. ClaimedIsOutstanding'
  <2> SUFFICES ASSUME overruns' = 0, NEW w \in Worker, NEW j \in batch'[w],
                      j.rev < row'[j.key].revision
               PROVE  grant[j.key].projection # "applied"
    BY DEF ClaimedIsOutstanding
  <2>1. j.key \in Key /\ j.rev \in Nat
    BY DEF IInv, TypeOK, Job
  <2>2. row'[j.key].revision = row[j.key].revision /\ row[j.key].revision \in Nat
    BY <2>1 DEF LedgerInv, IInv, TypeOK, Row
  <2>3. j \in batch[w]
    BY <2>1, <2>2
  <2> QED
    BY <2>2, <2>3 DEF LedgerInv, ClaimedIsOutstanding
<1>7. VerifiedStays'
  <2>1. ASSUME late' = 0, overruns' = 0, NEW w \in Worker, step'[w] = "apply"
        PROVE  tuple[GrantOf(w)'] = Wanted(w)'
    <3>1. step[w] = "apply" /\ current'[w] = current[w]
      BY <2>1 DEF HandlerStep
    <3>2. tuple[GrantOf(w)] = Wanted(w)
      BY <2>1, <3>1 DEF LedgerInv, VerifiedStays
    <3> QED
      BY <3>1, <3>2 DEF GrantOf, Wanted, PayloadFor
  <2> QED
    BY <2>1 DEF LedgerInv, VerifiedStays
<1>8. NothingIsStranded' /\ AppliedIsVerified' /\ AccessIsVerified' /\ TupleAgrees'
  BY DEF LedgerInv, NothingIsStranded, AppliedIsVerified, AccessIsVerified, TupleAgrees
<1> QED
  BY <1>1, <1>2, <1>3, <1>4, <1>5, <1>6, <1>7, <1>8 DEF LedgerInv

\* Steps inside the handler, from one call to the next: the outbox does not see
\* them.  The tuple changes at most to what the payload wants, and the handler
\* comes to "apply" only with a tuple it has seen agree.
LEMMA HandlerMoves ==
  ASSUME LedgerInv, NEW w \in Worker, pc[w] = "handling", NEW next \in HandlerStep,
         UNCHANGED <<vars, grant, payload, since, inFlight, late, seen, scan, mutations, errors>>,
         Goto(w, next),
         next \in {"list", "write"} => Wanted(w),
         next = "delete" => ~Wanted(w),
         tuple' = tuple \/ tuple' = [tuple EXCEPT ![GrantOf(w)] = Wanted(w)],
         \/ verified' = verified /\ next # "apply"
         \/ /\ verified' = [verified EXCEPT ![GrantOf(w)] = @ \cup {PayloadFor(w).revision}]
            /\ tuple'[GrantOf(w)] = Wanted(w)
  PROVE  LedgerInv'
<1> DEFINE g == GrantOf(w)
<1>0. /\ g \in Key /\ current[w] \in batch[w] /\ current[w].rev \in 1 .. row[g].revision
      /\ PayloadFor(w) \in Payload /\ PayloadFor(w).revision = current[w].rev
      /\ Matches(grant[g], PayloadFor(w)) <=> current[w].rev = row[g].revision
  BY PayloadOfJob
<1>a. /\ UNCHANGED <<row, pc, batch, current, cancelled, handled, failures, faults, overruns>>
      /\ step \in [Worker -> Step] /\ step' = [step EXCEPT ![w] = next] /\ next \in Step
      /\ tuple \in [Key -> BOOLEAN] /\ verified \in [Key -> SUBSET Nat]
      /\ Wanted(w) \in BOOLEAN /\ PayloadFor(w).revision \in Nat
  BY <1>0 DEF vars, Goto, HandlerStep, LedgerInv, LedgerTypeOK, Step, Wanted, Payload
<1>b. /\ verified' \in [Key -> SUBSET Nat]
      /\ \A h \in Key : verified[h] \subseteq verified'[h]
      /\ next = "apply" => PayloadFor(w).revision \in verified'[g] /\ tuple'[g] = Wanted(w)
      /\ tuple' \in [Key -> BOOLEAN]
      /\ \A h \in Key : h # g => tuple'[h] = tuple[h]
  BY <1>0, <1>a
<1>c. \A v \in Worker : GrantOf(v)' = GrantOf(v) /\ PayloadFor(v)' = PayloadFor(v)
                          /\ Wanted(v)' = Wanted(v)
  BY <1>a DEF GrantOf, PayloadFor, Wanted
<1>1. IInv'
  BY <1>a DEF LedgerInv, IInv, TypeOK, RowsStartAtOne, JobsMatchRows, LocksAreDistinct,
       LocksAreKept, CurrentIsSound, AttemptsAreFailures, CompletedIsHandled, DeadLetterIsExhausted
<1>2. LedgerTypeOK'
  BY <1>1, <1>a, <1>b DEF IInv, LedgerInv, LedgerTypeOK
<1>3. LedgersAgree' /\ ScanIsOfGrants' /\ ClaimedIsOutstanding' /\ NothingIsStranded'
  BY <1>a DEF LedgerInv, LedgersAgree, ScanIsOfGrants, Existing, ClaimedIsOutstanding,
       NothingIsStranded
<1>4. StepsFit'
  BY <1>a DEF LedgerInv, StepsFit, HandlerStep
<1>5. HandlersAreSound'
  <2> SUFFICES ASSUME NEW v \in Worker
               PROVE  /\ step'[v] \in {"list", "write"} => Wanted(v)
                      /\ step'[v] = "delete" => ~Wanted(v)
                      /\ step'[v] = "apply" => PayloadFor(v).revision \in verified'[GrantOf(v)]
                      /\ pc[v] = "succeeded" /\ current[v].rev = row[GrantOf(v)].revision
                            => grant[GrantOf(v)].projection = "applied"
    BY <1>a, <1>c DEF HandlersAreSound
  <2>1. CASE v = w
    BY <1>a, <1>b, <2>1
  <2>2. CASE v # w
    <3>1. step'[v] = step[v]
      BY <1>a, <2>2
    <3>2. step[v] = "apply" => GrantOf(v) \in Key
      BY PayloadOfJob DEF LedgerInv, StepsFit
    <3> QED
      BY <1>b, <3>1, <3>2 DEF LedgerInv, HandlersAreSound
  <2> QED
    BY <2>1, <2>2
<1>6. VerifiedStays'
  <2>1. ASSUME late = 0, overruns = 0, NEW v \in Worker, step'[v] = "apply"
        PROVE  tuple'[GrantOf(v)] = Wanted(v)
    <3>1. CASE v = w
      BY <1>a, <1>b, <2>1, <3>1
    <3>2. CASE v # w
      <4>1. step[v] = "apply" /\ pc[v] = "handling"
        BY <1>a, <2>1, <3>2 DEF LedgerInv, StepsFit
      <4>2. GrantOf(v) \in Key /\ GrantOf(v) # g
        BY <2>1, <3>2, <4>1, HandlingExclusive, PayloadOfJob DEF LedgerInv, HandlingIsExclusive, GrantOf
      <4> QED
        BY <1>b, <2>1, <4>1, <4>2 DEF LedgerInv, VerifiedStays
    <3> QED
      BY <3>1, <3>2
  <2> QED
    BY <1>a, <1>c, <2>1 DEF LedgerInv, VerifiedStays
<1>7. AppliedIsVerified' /\ AccessIsVerified'
  BY <1>b DEF LedgerInv, AppliedIsVerified, AccessIsVerified
<1>8. TupleAgrees'
  <2> SUFFICES ASSUME late = 0, overruns = 0, NEW h \in Key, grant[h].projection = "applied"
               PROVE  tuple'[h] = (grant[h].desired = "granted")
    BY <1>a DEF TupleAgrees
  <2>1. tuple[h] = (grant[h].desired = "granted")
    BY DEF LedgerInv, TupleAgrees
  <2>2. CASE h # g
    BY <1>b, <2>1, <2>2
  <2>3. CASE h = g
    <3>1. ~(current[w].rev < row[g].revision)
      BY <1>0, <2>3 DEF LedgerInv, ClaimedIsOutstanding, GrantOf
    <3>2. row[g].revision \in Nat
      BY <1>0 DEF LedgerInv, IInv, TypeOK, Row
    <3>3. current[w].rev = row[g].revision
      BY <1>0, <3>1, <3>2
    <3>4. Wanted(w) = (grant[g].desired = "granted")
      BY <1>0, <3>3 DEF Matches, Wanted
    <3> QED
      BY <1>0, <1>a, <2>1, <2>3, <3>4
  <2> QED
    BY <2>2, <2>3
<1> QED
  BY <1>1, <1>2, <1>3, <1>4, <1>5, <1>6, <1>7, <1>8 DEF LedgerInv

\* A transaction on the ledger: the changed grants become pending at the next
\* revision, and one that gives access gave it before and was not granted anew.
LEMMA MutateInv ==
  ASSUME LedgerInv, NEW new, DOMAIN new \subseteq Key, Mutate(new),
         \A g \in DOMAIN new :
            /\ new[g] \in Grant
            /\ new[g].revision = grant[g].revision + 1
            /\ new[g].projection = "pending"
            /\ new[g].desired \in Desired
            /\ GivesAccess(new[g]) => GivesAccess(grant[g]) /\ since'[g] = since[g],
         since' \in [Key -> Nat],
         \A g \in Key : \/ since'[g] = since[g]
                        \/ g \in DOMAIN new /\ since'[g] = grant[g].revision + 1,
         scan' = scan \/ scan' = NoScan,
         mutations' \in Nat
  PROVE  LedgerInv'
<1> DEFINE S == DOMAIN new
<1>0. /\ Upsert(S)
      /\ row' = [k \in Key |-> IF k \in S THEN Upserted(row[k]) ELSE row[k]]
      /\ grant' = [g \in Key |-> IF g \in S THEN new[g] ELSE grant[g]]
      /\ payload' = [g \in Key |-> IF g \in S THEN Append(payload[g], PayloadOf(g, new[g]))
                                              ELSE payload[g]]
      /\ UNCHANGED <<pc, batch, current, overruns, tuple, inFlight, late, step, seen, verified,
                     errors>>
  BY DEF Mutate, Upsert, workerVars, openFGA
<1>t. /\ row \in [Key -> Row] /\ grant \in [Key -> Grant] /\ payload \in [Key -> Seq(Payload)]
      /\ since \in [Key -> Nat]
  BY DEF LedgerInv, LedgerTypeOK, IInv, TypeOK
<1>u. \A g \in Key : /\ row[g].revision \in Nat
                     /\ grant[g].revision = row[g].revision
                     /\ Len(payload[g]) = row[g].revision
                     /\ since[g] <= row[g].revision
  BY <1>t DEF LedgerInv, LedgersAgree, Row
<1>n. \A g \in S : /\ row'[g].revision = row[g].revision + 1
                   /\ row'[g].status \in {"pending", "processing"}
                   /\ grant'[g] = new[g]
                   /\ payload'[g] = Append(payload[g], PayloadOf(g, new[g]))
                   /\ PayloadOf(g, new[g]) \in Payload
  <2> SUFFICES ASSUME NEW g \in S
               PROVE  /\ row'[g].revision = row[g].revision + 1
                      /\ row'[g].status \in {"pending", "processing"}
                      /\ grant'[g] = new[g]
                      /\ payload'[g] = Append(payload[g], PayloadOf(g, new[g]))
                      /\ PayloadOf(g, new[g]) \in Payload
    OBVIOUS
  <2>1. row[g] \in Row /\ row'[g] = Upserted(row[g])
    BY <1>0, <1>t
  <2>2. row'[g].revision = row[g].revision + 1 /\ row'[g].status \in {"pending", "processing"}
    BY <2>1, UpsertedRow
  <2>3. PayloadOf(g, new[g]) \in Payload
    BY DEF PayloadOf, Payload, Grant
  <2> QED
    BY <1>0, <2>2, <2>3
<1>o. \A g \in Key : g \notin S =>
         row'[g] = row[g] /\ grant'[g] = grant[g] /\ payload'[g] = payload[g]
  BY <1>0
<1>p. \A g \in S : /\ payload'[g] \in Seq(Payload)
                   /\ Len(payload'[g]) = row[g].revision + 1
                   /\ \A i \in 1 .. row[g].revision : payload'[g][i] = payload[g][i]
                   /\ payload'[g][row[g].revision + 1] = PayloadOf(g, new[g])
  <2> TAKE g \in S
  <2>1. /\ g \in Key /\ payload[g] \in Seq(Payload) /\ PayloadOf(g, new[g]) \in Payload
        /\ payload'[g] = Append(payload[g], PayloadOf(g, new[g]))
        /\ Len(payload[g]) = row[g].revision
    BY <1>t, <1>u, <1>n
  <2> HIDE DEF S
  <2> QED
    BY <2>1, AppendProperties
<1>1. IInv'
  BY <1>0, UpsertInv DEF LedgerInv
<1>2. LedgerTypeOK'
  <2>1. grant' \in [Key -> Grant]
    BY <1>0, <1>t
  <2>2. payload' \in [Key -> Seq(Payload)]
    BY <1>0, <1>t, <1>p
  <2>3. scan' \in [on : BOOLEAN, todo : SUBSET [grant : Key, want : BOOLEAN], drifted : SUBSET Key]
    <3>1. NoScan \in [on : BOOLEAN, todo : SUBSET [grant : Key, want : BOOLEAN],
                      drifted : SUBSET Key]
      BY DEF NoScan
    <3>2. scan \in [on : BOOLEAN, todo : SUBSET [grant : Key, want : BOOLEAN],
                    drifted : SUBSET Key]
      BY DEF LedgerInv, LedgerTypeOK
    <3> QED
      BY <3>1, <3>2
  <2> QED
    BY <1>0, <1>1, <2>1, <2>2, <2>3 DEF LedgerInv, LedgerTypeOK, IInv
<1>3. LedgersAgree'
  <2> SUFFICES ASSUME NEW g \in Key
               PROVE  LET n == row'[g].revision
                      IN /\ grant'[g].revision = n
                         /\ Len(payload'[g]) = n
                         /\ n > 0 => payload'[g][n] = PayloadOf(g, grant'[g])
                         /\ \A i \in 1 .. n : payload'[g][i].revision = i
                         /\ since'[g] <= n
                         /\ grant'[g].projection = "none" <=> grant'[g].desired = "none"
    BY DEF LedgersAgree
  <2>1. CASE g \notin S
    BY <1>o, <2>1, SMTT(30) DEF LedgerInv, LedgersAgree
  <2>2. CASE g \in S
    <3> DEFINE n == row[g].revision
    <3>1. n \in Nat /\ grant[g].revision = n /\ since[g] <= n /\ since[g] \in Nat
      BY <1>u, <1>t
    <3>2. \A i \in 1 .. n : payload[g][i].revision = i
      BY DEF LedgerInv, LedgersAgree
    <3>3. PayloadOf(g, new[g]).revision = n + 1
      BY <2>2, <3>1 DEF PayloadOf
    <3>4. ASSUME NEW i \in 1 .. n + 1 PROVE payload'[g][i].revision = i
      <4>1. i \in 1 .. n \/ i = n + 1
        BY <3>1
      <4> QED
        BY <1>p, <2>2, <3>2, <3>3, <4>1
    <3>5. since'[g] <= n + 1
      BY <3>1
    <3>6. new[g].projection # "none" /\ new[g].desired # "none"
      BY <2>2 DEF Desired
    <3> QED
      BY <1>n, <1>p, <2>2, <3>1, <3>4, <3>5, <3>6, SMTT(30)
  <2> QED
    BY <2>1, <2>2
<1>4. StepsFit'
  BY <1>0 DEF LedgerInv, StepsFit
<1>5. ASSUME NEW w \in Worker, pc[w] \in {"handling", "succeeded", "failed"}
      PROVE  /\ PayloadFor(w)' = PayloadFor(w) /\ Wanted(w)' = Wanted(w)
             /\ GrantOf(w)' = GrantOf(w) /\ GrantOf(w) \in Key
             /\ GrantOf(w) \in S => current[w].rev # row'[GrantOf(w)].revision
  <2> DEFINE g == GrantOf(w)
  <2>1. g \in Key /\ current[w].rev \in 1 .. row[g].revision /\ current' = current
    BY <1>0, <1>5, PayloadOfJob
  <2>2. payload'[g][current[w].rev] = payload[g][current[w].rev]
    BY <1>o, <1>p, <2>1
  <2>3. g \in S => current[w].rev # row'[g].revision
    BY <1>n, <1>u, <2>1
  <2> QED
    BY <2>1, <2>2, <2>3 DEF PayloadFor, Wanted, GrantOf
<1>6. HandlersAreSound'
  <2> SUFFICES ASSUME NEW w \in Worker
               PROVE  /\ step[w] \in {"list", "write"} => Wanted(w)'
                      /\ step[w] = "delete" => ~Wanted(w)'
                      /\ step[w] = "apply" => PayloadFor(w)'.revision \in verified[GrantOf(w)']
                      /\ pc[w] = "succeeded" /\ current[w].rev = row'[GrantOf(w)'].revision
                            => grant'[GrantOf(w)'].projection = "applied"
    BY <1>0 DEF HandlersAreSound
  <2>1. step[w] \in HandlerStep => pc[w] = "handling"
    BY DEF LedgerInv, StepsFit, HandlerStep
  <2>2. pc[w] = "succeeded" /\ current[w].rev = row'[GrantOf(w)'].revision
           => grant'[GrantOf(w)'].projection = "applied"
    BY <1>5, <1>o DEF LedgerInv, HandlersAreSound
  <2> QED
    BY <1>5, <2>1, <2>2 DEF LedgerInv, HandlersAreSound, HandlerStep
<1>7. ScanIsOfGrants'
  <2>1. \A g \in Key : grant[g].desired # "none" => grant'[g].desired # "none"
    BY <1>n, <1>o DEF Desired
  <2>2. Existing \subseteq Existing'
    BY <2>1 DEF Existing
  <2> QED
    BY <2>2 DEF LedgerInv, ScanIsOfGrants, NoScan
<1>8. ClaimedIsOutstanding'
  <2> SUFFICES ASSUME overruns = 0, NEW w \in Worker, NEW j \in batch[w],
                      j.rev < row'[j.key].revision
               PROVE  grant'[j.key].projection # "applied"
    BY <1>0 DEF ClaimedIsOutstanding
  <2>1. j.key \in Key
    BY DEF LedgerInv, IInv, TypeOK, Job
  <2> QED
    BY <1>n, <1>o, <2>1 DEF LedgerInv, ClaimedIsOutstanding
<1>9. VerifiedStays'
  <2>1. \A w \in Worker : step[w] = "apply" => GrantOf(w)' = GrantOf(w) /\ Wanted(w)' = Wanted(w)
    BY <1>5 DEF LedgerInv, StepsFit
  <2> QED
    BY <1>0, <2>1 DEF LedgerInv, VerifiedStays
<1>10. NothingIsStranded' /\ AppliedIsVerified' /\ TupleAgrees'
  BY <1>0, <1>n, <1>o DEF LedgerInv, NothingIsStranded, AppliedIsVerified, TupleAgrees
<1>11. AccessIsVerified'
  <2> SUFFICES ASSUME NEW g \in Key, GivesAccess(grant'[g])
               PROVE  \E n \in verified[g] : n >= since'[g]
    BY <1>0 DEF AccessIsVerified
  <2>1. GivesAccess(grant[g]) /\ since'[g] = since[g]
    BY <1>n, <1>o
  <2> QED
    BY <2>1 DEF LedgerInv, AccessIsVerified
<1> QED
  BY <1>1, <1>2, <1>3, <1>4, <1>6, <1>7, <1>8, <1>9, <1>10, <1>11 DEF LedgerInv

\* A step that changes the scan and the bounds' counters alone.
LEMMA ScanMoves ==
  ASSUME LedgerInv,
         UNCHANGED <<vars, grant, payload, since, tuple, inFlight, late, step, seen, verified>>,
         mutations' \in Nat, errors' \in Nat,
         scan' \in [on : BOOLEAN, todo : SUBSET [grant : Key, want : BOOLEAN],
                    drifted : SUBSET Key],
         scan'.drifted \cup {t.grant : t \in scan'.todo} \subseteq Existing
  PROVE  LedgerInv'
<1>0. UNCHANGED <<row, pc, batch, current, cancelled, handled, failures, faults, overruns>>
  BY DEF vars
<1>1. IInv'
  BY <1>0 DEF LedgerInv, IInv, TypeOK, RowsStartAtOne, JobsMatchRows, LocksAreDistinct,
       LocksAreKept, CurrentIsSound, AttemptsAreFailures, CompletedIsHandled, DeadLetterIsExhausted
<1>2. LedgerTypeOK'
  BY <1>0, <1>1 DEF IInv, LedgerInv, LedgerTypeOK
<1>3. LedgersAgree' /\ StepsFit' /\ ClaimedIsOutstanding'
  BY <1>0 DEF LedgerInv, LedgersAgree, StepsFit, ClaimedIsOutstanding
<1>4. HandlersAreSound' /\ VerifiedStays'
  BY <1>0 DEF LedgerInv, HandlersAreSound, VerifiedStays, Wanted, PayloadFor, GrantOf
<1>5. ScanIsOfGrants'
  BY DEF ScanIsOfGrants, Existing
<1>6. NothingIsStranded' /\ AppliedIsVerified' /\ AccessIsVerified' /\ TupleAgrees'
  BY <1>0 DEF LedgerInv, NothingIsStranded, AppliedIsVerified, AccessIsVerified, TupleAgrees
<1> QED
  BY <1>1, <1>2, <1>3, <1>4, <1>5, <1>6 DEF LedgerInv
-----------------------------------------------------------------------------
(* The ledger.                                                             *)

\* The invariant holds of an empty ledger.
LEMMA LedgerInitInv == LedgerInit => LedgerInv
<1> SUFFICES ASSUME LedgerInit PROVE LedgerInv
  OBVIOUS
<1>1. IInv
  BY InitInv DEF LedgerInit
<1>2. LedgerTypeOK
  <2>1. NoGrant \in Grant
    BY DEF NoGrant, Grant
  <2>2. << >> \in Seq(Payload)
    OBVIOUS
  <2>3. NoScan \in [on : BOOLEAN, todo : SUBSET [grant : Key, want : BOOLEAN],
                    drifted : SUBSET Key]
    BY DEF NoScan
  <2> QED
    BY <1>1, <2>1, <2>2, <2>3 DEF IInv, LedgerInit, LedgerTypeOK, Step
<1>3. \A g \in Key : /\ row[g].revision = 0 /\ row[g].status = "absent"
                     /\ grant[g] = NoGrant /\ payload[g] = << >> /\ since[g] = 0
  BY DEF LedgerInit, Init, AbsentRow
<1>4. NoGrant.revision = 0 /\ NoGrant.projection = "none" /\ NoGrant.desired = "none"
  BY DEF NoGrant
<1>5. LedgersAgree
  BY <1>3, <1>4 DEF LedgersAgree
<1>6. StepsFit /\ HandlersAreSound /\ ClaimedIsOutstanding /\ VerifiedStays
  BY DEF LedgerInit, Init, StepsFit, HandlersAreSound, ClaimedIsOutstanding, VerifiedStays
<1>7. ScanIsOfGrants
  BY DEF LedgerInit, ScanIsOfGrants, NoScan
<1>8. NothingIsStranded /\ AppliedIsVerified /\ AccessIsVerified /\ TupleAgrees
  BY <1>3, <1>4 DEF NothingIsStranded, AppliedIsVerified, AccessIsVerified, TupleAgrees, GivesAccess
<1> QED
  BY <1>1, <1>2, <1>5, <1>6, <1>7, <1>8 DEF LedgerInv

\* Granting, anew or again, keeps it: the activation is gone.
LEMMA GiveInv ==
  ASSUME LedgerInv, NEW g \in Key, Give(g), UNCHANGED scan, mutations' \in Nat
  PROVE  LedgerInv'
<1> DEFINE new == [h \in {g} |-> Granted(grant[h])]
<1>1. grant[g] \in Grant /\ grant[g].revision \in Nat /\ since \in [Key -> Nat]
  BY DEF LedgerInv, LedgerTypeOK, Grant
<1>2. Mutate(new) /\ since' = [since EXCEPT ![g] = grant[g].revision + 1]
  BY DEF Give
<1>3. DOMAIN new = {g} /\ new[g] = Granted(grant[g])
  OBVIOUS
<1> HIDE DEF new
<1>4. since' \in [Key -> Nat] /\ \A h \in Key : h # g => since'[h] = since[h]
  BY <1>1, <1>2
<1>5. since'[g] = grant[g].revision + 1
  BY <1>1, <1>2
<1>6. \A h \in DOMAIN new : /\ new[h] \in Grant
                            /\ new[h].revision = grant[h].revision + 1
                            /\ new[h].projection = "pending"
                            /\ new[h].desired \in Desired
                            /\ ~GivesAccess(new[h])
  BY <1>1, <1>3, ChangedRow DEF Desired
<1> QED
  BY <1>2, <1>3, <1>4, <1>5, <1>6, MutateInv

\* Revoking keeps it.
LEMMA TakeBackInv ==
  ASSUME LedgerInv, NEW g \in Key, TakeBack(g), UNCHANGED scan, mutations' \in Nat
  PROVE  LedgerInv'
<1> DEFINE new == [h \in {g} |-> Revoked(grant[h])]
<1>1. grant[g] \in Grant /\ since \in [Key -> Nat]
  BY DEF LedgerInv, LedgerTypeOK
<1>2. Mutate(new) /\ since' = since
  BY DEF TakeBack
<1>3. DOMAIN new = {g} /\ new[g] = Revoked(grant[g])
  OBVIOUS
<1> HIDE DEF new
<1>4. \A h \in DOMAIN new : /\ new[h] \in Grant
                            /\ new[h].revision = grant[h].revision + 1
                            /\ new[h].projection = "pending"
                            /\ new[h].desired \in Desired
                            /\ ~GivesAccess(new[h])
  BY <1>1, <1>3, ChangedRow DEF Desired
<1> QED
  BY <1>1, <1>2, <1>3, <1>4, MutateInv

\* A repair of grants that exist keeps it, by hand or by the scan.
LEMMA RedoInv ==
  ASSUME LedgerInv, NEW S \in SUBSET Existing, Redo(S),
         scan' = scan \/ scan' = NoScan, mutations' \in Nat
  PROVE  LedgerInv'
<1> DEFINE new == [g \in S |-> Reconciled(grant[g])]
<1>1. /\ \A g \in S : g \in Key /\ grant[g] \in Grant /\ grant[g].desired \in Desired
      /\ since \in [Key -> Nat]
  BY DEF LedgerInv, LedgerTypeOK, Existing, Grant
<1>2. Mutate(new) /\ since' = since
  BY DEF Redo
<1>3. DOMAIN new = S /\ \A g \in S : new[g] = Reconciled(grant[g])
  OBVIOUS
<1> HIDE DEF new
<1>4. \A g \in DOMAIN new : /\ new[g] \in Grant
                            /\ new[g].revision = grant[g].revision + 1
                            /\ new[g].projection = "pending"
                            /\ new[g].desired \in Desired
                            /\ GivesAccess(new[g]) => GivesAccess(grant[g])
  BY <1>1, <1>3, ChangedRow
<1> QED
  BY <1>1, <1>2, <1>3, <1>4, MutateInv

\* Every change of the ledger by administrators and at login keeps it.
LEMMA ChangeInv ==
  ASSUME LedgerInv, Change
  PROVE  LedgerInv'
<1>1. mutations \in Nat
  BY DEF LedgerInv, LedgerTypeOK
<1>2. ASSUME NEW g \in Key, CreateOrRestoreGrant(g) PROVE LedgerInv'
  BY <1>1, <1>2, GiveInv DEF CreateOrRestoreGrant, Demand
<1>3. ASSUME NEW g \in Key, RevokeGrant(g) PROVE LedgerInv'
  BY <1>1, <1>3, TakeBackInv DEF RevokeGrant, Demand
<1>4. ASSUME NEW g \in Key, ReconcileGrant(g) PROVE LedgerInv'
  <2>1. {g} \in SUBSET Existing /\ Redo({g}) /\ scan' = scan /\ mutations' \in Nat
    BY <1>1, <1>4 DEF ReconcileGrant, Demand
  <2> QED
    BY <2>1, RedoInv
<1>5. ASSUME NEW g \in Key, NEW admin \in BOOLEAN, SyncCasdoorOrganizationAdmin(g, admin)
      PROVE  LedgerInv'
  <2>1. scan' = scan /\ mutations' \in Nat
    BY <1>1, <1>5 DEF SyncCasdoorOrganizationAdmin, Demand
  <2>2. CASE Give(g)
    BY <2>1, <2>2, GiveInv
  <2>3. CASE TakeBack(g)
    BY <2>1, <2>3, TakeBackInv
  <2>4. CASE grant[g].desired = (IF admin THEN "granted" ELSE "revoked") /\ Redo({g})
    <3>1. {g} \in SUBSET Existing
      BY <2>4 DEF Existing
    <3> QED
      BY <2>1, <2>4, <3>1, RedoInv
  <2> QED
    BY <1>5, <2>2, <2>3, <2>4 DEF SyncCasdoorOrganizationAdmin
<1>6. ASSUME ReconcileAll PROVE LedgerInv'
  <2>1. Existing \in SUBSET Existing /\ Redo(Existing) /\ scan' = scan /\ mutations' \in Nat
    BY <1>1, <1>6 DEF ReconcileAll, Demand
  <2> QED
    BY <2>1, RedoInv
<1> QED
  BY <1>2, <1>3, <1>4, <1>5, <1>6 DEF Change
-----------------------------------------------------------------------------
(* The nightly scan.                                                       *)

\* Listing keeps it: what is listed exists.
LEMMA ListGrantsInv ==
  ASSUME LedgerInv, NEW Old \in SUBSET With("pending"), ListGrants(Old)
  PROVE  LedgerInv'
<1> DEFINE Todo == {[grant |-> g, want |-> grant[g].desired = "granted"] : g \in With("applied")}
           D == {g \in Old : row[g].status # "dead_letter"}
<1>1. \A p \in {"pending", "applied", "failed"} : With(p) \subseteq Existing
  BY DEF With, Existing, LedgerInv, LedgersAgree
<1>2. mutations' \in Nat
  <2>1. D \in SUBSET Key /\ mutations \in Nat
    BY DEF With, LedgerInv, LedgerTypeOK
  <2>2. Cardinality(D) \in Nat
    BY <2>1, FS_Subset, FS_CardinalityType, GrantAssumption
  <2>3. mutations' = mutations + Cardinality(D)
    BY DEF ListGrants
  <2> HIDE DEF D
  <2> QED
    BY <2>1, <2>2, <2>3
<1>3. /\ scan' = [on |-> TRUE, todo |-> Todo, drifted |-> With("failed") \cup Old]
      /\ scan'.todo = Todo /\ scan'.drifted = With("failed") \cup Old
  BY DEF ListGrants
<1>4. Existing \subseteq Key
  BY DEF Existing
<1>5. /\ Todo \subseteq [grant : Key, want : BOOLEAN]
      /\ {t.grant : t \in Todo} \subseteq With("applied")
  <2>1. \A g \in With("applied"), b \in BOOLEAN :
           /\ [grant |-> g, want |-> b] \in [grant : Key, want : BOOLEAN]
           /\ [grant |-> g, want |-> b].grant = g
    BY <1>1, <1>4
  <2>2. \A g \in Key : (grant[g].desired = "granted") \in BOOLEAN
    OBVIOUS
  <2>3. \A t \in Todo : t \in [grant : Key, want : BOOLEAN] /\ t.grant \in With("applied")
    <3> TAKE t \in Todo
    <3>1. PICK g \in With("applied") : t = [grant |-> g, want |-> grant[g].desired = "granted"]
      OBVIOUS
    <3> QED
      BY <1>1, <1>4, <2>1, <2>2, <3>1, Zenon
  <2> HIDE DEF Todo
  <2> QED
    BY <2>3
<1> HIDE DEF Todo
<1>6. scan'.drifted \cup {t.grant : t \in scan'.todo} \subseteq Existing
  BY <1>1, <1>3, <1>5
<1>7. /\ UNCHANGED <<vars, grant, payload, since, tuple, inFlight, late, step, seen, verified>>
      /\ errors' \in Nat
  BY DEF ListGrants, ledgerVars, openFGA, LedgerInv, LedgerTypeOK
<1> QED
  BY <1>2, <1>3, <1>4, <1>5, <1>6, <1>7, ScanMoves

\* The rest of the scan keeps it.
LEMMA ScanInv ==
  ASSUME LedgerInv, Scan \/ FailScan
  PROVE  LedgerInv'
<1>0. /\ scan.todo \subseteq [grant : Key, want : BOOLEAN]
      /\ scan.drifted \subseteq Key
      /\ scan.drifted \cup {t.grant : t \in scan.todo} \subseteq Existing
      /\ mutations \in Nat /\ errors \in Nat
  BY DEF LedgerInv, LedgerTypeOK, ScanIsOfGrants
<1>1. ASSUME RequeueDrifted PROVE LedgerInv'
  <2>1. scan.drifted \in SUBSET Existing /\ Redo(scan.drifted) /\ scan' = NoScan /\ mutations' \in Nat
    BY <1>0, <1>1 DEF RequeueDrifted
  <2> QED
    BY <2>1, RedoInv
<1>2. ASSUME ExceedLimit \/ FailScan PROVE LedgerInv'
  <2>1. /\ UNCHANGED <<vars, grant, payload, since, tuple, inFlight, late, step, seen, verified>>
        /\ scan' = NoScan /\ mutations' \in Nat /\ errors' \in Nat
    BY <1>0, <1>2 DEF ExceedLimit, FailScan, ledgerVars, openFGA
  <2>2. /\ NoScan \in [on : BOOLEAN, todo : SUBSET [grant : Key, want : BOOLEAN],
                       drifted : SUBSET Key]
        /\ NoScan.todo = {} /\ NoScan.drifted = {}
    BY DEF NoScan
  <2> QED
    BY <2>1, <2>2, ScanMoves
<1>3. ASSUME NEW t \in scan.todo, CompareTuple(t) PROVE LedgerInv'
  <2>1. /\ UNCHANGED <<vars, grant, payload, since, tuple, inFlight, late, step, seen, verified>>
        /\ mutations' \in Nat /\ errors' \in Nat
    BY <1>0, <1>3 DEF CompareTuple, ledgerVars, openFGA
  <2> DEFINE drifted == IF tuple[t.grant] # t.want THEN scan.drifted \cup {t.grant}
                                                   ELSE scan.drifted
  <2>2. scan' = [scan EXCEPT !.todo = scan.todo \ {t}, !.drifted = drifted]
    BY <1>3 DEF CompareTuple
  <2>3. scan \in [on : BOOLEAN, todo : SUBSET [grant : Key, want : BOOLEAN], drifted : SUBSET Key]
    BY DEF LedgerInv, LedgerTypeOK
  <2>4. t.grant \in Key /\ t.grant \in Existing
    BY <1>0
  <2>5. drifted \subseteq Key /\ drifted \subseteq Existing
    BY <1>0, <2>4
  <2> HIDE DEF drifted
  <2>6. /\ scan' \in [on : BOOLEAN, todo : SUBSET [grant : Key, want : BOOLEAN],
                      drifted : SUBSET Key]
        /\ scan'.todo = scan.todo \ {t} /\ scan'.drifted = drifted
    BY <2>2, <2>3, <2>5
  <2> QED
    BY <1>0, <2>1, <2>5, <2>6, ScanMoves
<1> QED
  BY <1>1, <1>2, <1>3 DEF Scan
-----------------------------------------------------------------------------
(* The handler.                                                            *)

\* Every way from one call of the handler to the next keeps the invariant.
LEMMA HandlerMovesInv ==
  ASSUME LedgerInv, NEW w \in Worker,
         \/ GetGrant(w) \/ ReadTuples(w) \/ DeleteTuples(w)
         \/ WriteTuples(w) /\ UNCHANGED vars
         \/ TupleExists(w) /\ UNCHANGED vars
  PROVE  LedgerInv'
<1>0. /\ pc[w] = "handling" => GrantOf(w) \in Key
      /\ step \in [Worker -> Step] /\ tuple \in [Key -> BOOLEAN]
      /\ step[w] \in {"list", "write"} => Wanted(w)
      /\ step[w] = "delete" => ~Wanted(w)
  BY PayloadOfJob DEF LedgerInv, LedgerTypeOK, HandlersAreSound
<1>w. Wanted(w) \in BOOLEAN
  BY DEF Wanted
<1>f. ASSUME HandlerSucceeds(w) \/ HandlerFails(w) PROVE ~UNCHANGED vars
  BY <1>f DEF HandlerSucceeds, HandlerFails, vars, LedgerInv, IInv, TypeOK
<1>1. CASE GetGrant(w)
  <2> DEFINE next == IF Wanted(w) THEN "list" ELSE "delete"
  <2>1. /\ pc[w] = "handling" /\ Goto(w, next)
        /\ UNCHANGED <<vars, grant, payload, since, tuple, inFlight, late, seen, scan, verified,
                       mutations, errors>>
    BY <1>1 DEF GetGrant, Handling, ledgerVars, openFGA
  <2>2. /\ next \in HandlerStep /\ next # "apply"
        /\ next \in {"list", "write"} => Wanted(w)
        /\ next = "delete" => ~Wanted(w)
    BY DEF HandlerStep
  <2> HIDE DEF next
  <2> QED
    BY <2>1, <2>2, HandlerMoves
<1>2. CASE ReadTuples(w)
  <2> DEFINE next == IF tuple[GrantOf(w)] THEN "verify" ELSE "write"
  <2>1. /\ pc[w] = "handling" /\ step[w] = "list" /\ Goto(w, next)
        /\ UNCHANGED <<vars, grant, payload, since, tuple, inFlight, late, seen, scan, verified,
                       mutations, errors>>
    BY <1>2 DEF ReadTuples, Handling, ledgerVars, openFGA
  <2>2. /\ next \in HandlerStep /\ next # "apply" /\ next # "delete"
    BY DEF HandlerStep
  <2> HIDE DEF next
  <2> QED
    BY <1>0, <2>1, <2>2, HandlerMoves
<1>3. CASE DeleteTuples(w)
  <2>1. /\ pc[w] = "handling" /\ step[w] = "delete" /\ Goto(w, "verify")
        /\ tuple' = [tuple EXCEPT ![GrantOf(w)] = FALSE]
        /\ UNCHANGED <<vars, grant, payload, since, inFlight, late, seen, scan, verified,
                       mutations, errors>>
    BY <1>3 DEF DeleteTuples, Handling, ledgerVars
  <2>2. tuple' = [tuple EXCEPT ![GrantOf(w)] = Wanted(w)]
    BY <1>0, <1>w, <2>1
  <2> QED
    BY <2>1, <2>2, HandlerMoves DEF HandlerStep
<1>4. CASE WriteTuples(w) /\ UNCHANGED vars
  <2>1. /\ pc[w] = "handling" /\ step[w] = "write" /\ Goto(w, "verify")
        /\ tuple' = [tuple EXCEPT ![GrantOf(w)] = TRUE]
        /\ UNCHANGED <<vars, grant, payload, since, inFlight, late, seen, scan, verified,
                       mutations, errors>>
    BY <1>4, <1>f DEF WriteTuples, Handling, ledgerVars
  <2>2. tuple' = [tuple EXCEPT ![GrantOf(w)] = Wanted(w)]
    BY <1>0, <1>w, <2>1
  <2> QED
    BY <2>1, <2>2, HandlerMoves DEF HandlerStep
<1>5. CASE TupleExists(w) /\ UNCHANGED vars
  <2>1. /\ pc[w] = "handling" /\ Goto(w, "apply") /\ tuple[GrantOf(w)] = Wanted(w)
        /\ verified' = [verified EXCEPT ![GrantOf(w)] = @ \cup {PayloadFor(w).revision}]
        /\ UNCHANGED <<vars, grant, payload, since, tuple, inFlight, late, seen, scan,
                       mutations, errors>>
    BY <1>5, <1>f DEF TupleExists, Handling, ledgerVars, openFGA
  <2> QED
    BY <2>1, HandlerMoves DEF HandlerStep
<1> QED
  BY <1>1, <1>2, <1>3, <1>4, <1>5

\* A handler call that fails, by a refusal, an error or a timeout that leaves a
\* request behind, keeps it.
LEMMA FailInv ==
  ASSUME LedgerInv, NEW w \in Worker, HandlerFails(w), Goto(w, "none"),
         UNCHANGED <<grant, payload, since, seen, scan, verified, tuple, mutations>>,
         errors' \in Nat, late' \in Nat, inFlight' \subseteq Op,
         late' = 0 => late = 0 /\ inFlight' = inFlight
  PROVE  LedgerInv'
<1>1. IInv'
  BY HandlerFailsInv DEF LedgerInv
<1>2. /\ UNCHANGED <<row, batch, current, overruns>>
      /\ pc' = [pc EXCEPT ![w] = "failed"] /\ pc \in [Worker -> PC]
      /\ step' = [step EXCEPT ![w] = "none"] /\ step \in [Worker -> Step]
      /\ seen \in [Worker -> Payload \cup {NoPayload}] /\ mutations \in Nat
  BY DEF HandlerFails, Goto, LedgerInv, LedgerTypeOK, TypeOK
<1>3. step' \in [Worker -> Step] /\ step'[w] = "none" /\ pc'[w] = "failed"
  BY <1>2 DEF Step
<1>4. \A v \in Worker : v # w => step'[v] = step[v] /\ pc'[v] = pc[v]
  BY <1>2
<1> QED
  BY <1>1, <1>2, <1>3, <1>4, WorkerStep DEF HandlerStep

\* The failures of the handler are of that kind.
LEMMA HandlerFailsOnLedgerInv ==
  ASSUME LedgerInv, NEW w \in Worker,
         \/ HandlerError(w) \/ TimeOut(w)
         \/ WriteTuples(w) /\ HandlerFails(w)
         \/ TupleExists(w) /\ HandlerFails(w)
  PROVE  LedgerInv'
<1>0. /\ errors \in Nat /\ late \in Nat /\ inFlight \subseteq Op
      /\ pc[w] = "handling" => GrantOf(w) \in Key
  BY PayloadOfJob DEF LedgerInv, LedgerTypeOK
<1>f. ASSUME HandlerFails(w) PROVE ~UNCHANGED vars
  BY <1>f DEF HandlerFails, vars, LedgerInv, IInv, TypeOK
<1>1. CASE HandlerError(w)
  BY <1>0, <1>1, FailInv DEF HandlerError, ledgerVars, openFGA
<1>2. CASE TimeOut(w)
  <2>1. /\ HandlerFails(w) /\ Goto(w, "none") /\ GrantOf(w) \in Key
        /\ UNCHANGED <<grant, payload, since, seen, scan, verified, tuple, mutations, errors>>
        /\ late' = late + 1
        /\ step[w] \in {"write", "delete"}
        /\ inFlight' = inFlight \cup {[grant |-> GrantOf(w), op |-> step[w]]}
    BY <1>0, <1>2 DEF TimeOut, Detach, ledgerVars
  <2>2. inFlight' \subseteq Op /\ late' \in Nat /\ late' # 0
    BY <1>0, <2>1 DEF Op
  <2> QED
    BY <1>0, <2>1, <2>2, FailInv
<1>3. CASE WriteTuples(w) /\ HandlerFails(w)
  <2>1. /\ HandlerFails(w) /\ Goto(w, "none")
        /\ UNCHANGED <<grant, payload, since, seen, scan, verified, tuple, mutations, errors,
                       late, inFlight>>
    BY <1>3, <1>f DEF WriteTuples, ledgerVars
  <2> QED
    BY <1>0, <2>1, FailInv
<1>4. CASE TupleExists(w) /\ HandlerFails(w)
  <2>1. /\ HandlerFails(w) /\ Goto(w, "none")
        /\ UNCHANGED <<grant, payload, since, seen, scan, verified, tuple, mutations, errors,
                       late, inFlight>>
    BY <1>4, <1>f DEF TupleExists, ledgerVars, openFGA
  <2> QED
    BY <1>0, <2>1, FailInv
<1> QED
  BY <1>1, <1>2, <1>3, <1>4

\* Skipping a stale payload keeps it: the grant's own is still to come.
LEMMA SkipStaleInv ==
  ASSUME LedgerInv, NEW w \in Worker, SkipStale(w)
  PROVE  LedgerInv'
<1>1. /\ UNCHANGED <<grant, payload, since, seen, scan, verified, tuple, inFlight, late, step,
                     mutations, errors>>
      /\ pc[w] = "handling" /\ step[w] = "none" /\ HandlerSucceeds(w)
      /\ ~Matches(grant[GrantOf(w)], PayloadFor(w))
  BY DEF SkipStale, Handling, ledgerVars, openFGA
<1>2. IInv'
  BY <1>1, HandlerSucceedsInv DEF LedgerInv
<1>3. GrantOf(w) \in Key /\ current[w].rev # row[GrantOf(w)].revision
  BY <1>1, PayloadOfJob
<1>4. /\ UNCHANGED <<row, batch, current, overruns>>
      /\ pc' = [pc EXCEPT ![w] = "succeeded"]
      /\ step \in [Worker -> Step] /\ pc \in [Worker -> PC]
      /\ seen \in [Worker -> Payload \cup {NoPayload}]
      /\ mutations \in Nat /\ errors \in Nat /\ late \in Nat /\ inFlight \subseteq Op
  BY <1>1 DEF HandlerSucceeds, LedgerInv, LedgerTypeOK, TypeOK
<1>5. \A v \in Worker : v # w => pc'[v] = pc[v]
  BY <1>4
<1> QED
  BY <1>1, <1>2, <1>3, <1>4, <1>5, WorkerStep DEF HandlerStep
-----------------------------------------------------------------------------
(* The worker around the handler.                                          *)

\* A worker that is done with a job keeps the invariant, whatever the mark does
\* to the row, as long as it completes only a row whose grant is applied.
LEMMA ForgetOnLedgerInv ==
  ASSUME LedgerInv, IInv', NEW w \in Worker, NEW j \in batch[w],
         NEW next \in {"batch", "abandoning"}, Forget(w, j, next),
         NEW then \in {"none", "markFailed"}, Goto(w, then),
         UNCHANGED <<grant, payload, since, scan, verified, tuple, inFlight, late, mutations,
                     errors, overruns>>,
         seen' \in [Worker -> Payload \cup {NoPayload}],
         \A v \in Worker : v # w => seen'[v] = seen[v],
         then = "markFailed" => seen'[w] \in Payload,
         \/ row' = row
         \/ \E status \in Status, n \in Nat :
               /\ row' = [row EXCEPT ![j.key] = Released(row[j.key], status, n)]
               /\ status = "completed" => grant[j.key].projection = "applied"
  PROVE  LedgerInv'
<1>a. /\ row \in [Key -> Row] /\ pc \in [Worker -> PC] /\ batch \in [Worker -> SUBSET Job]
      /\ current \in [Worker -> Job \cup {NoJob}]
  BY DEF LedgerInv, IInv, TypeOK
<1>b. /\ step \in [Worker -> Step]
      /\ mutations \in Nat /\ errors \in Nat /\ late \in Nat /\ inFlight \subseteq Op
  BY DEF LedgerInv, LedgerTypeOK
<1>c. j.key \in Key /\ row[j.key] \in Row
  BY <1>a DEF Job
<1>2. \A g \in Key :
         /\ row'[g].revision = row[g].revision
         /\ row'[g].status = "completed" =>
               row[g].status = "completed" \/ grant[g].projection \notin {"pending", "failed"}
  <2>1. CASE row' = row
    BY <2>1
  <2>2. ASSUME NEW status \in Status, NEW n \in Nat,
               row' = [row EXCEPT ![j.key] = Released(row[j.key], status, n)],
               status = "completed" => grant[j.key].projection = "applied"
        PROVE  \A g \in Key :
                  /\ row'[g].revision = row[g].revision
                  /\ row'[g].status = "completed" =>
                        \/ row[g].status = "completed"
                        \/ grant[g].projection \notin {"pending", "failed"}
    <3>1. /\ Released(row[j.key], status, n).revision = row[j.key].revision
          /\ Released(row[j.key], status, n).status = status
      BY <1>c, ReleasedRow
    <3> QED
      BY <1>a, <1>c, <2>2, <3>1
  <2> QED
    BY <2>1, <2>2
<1>3. /\ \A v \in Worker : v # w => /\ step'[v] = step[v] /\ pc'[v] = pc[v]
                                    /\ current'[v] = current[v] /\ batch'[v] = batch[v]
      /\ batch'[w] \subseteq batch[w]
      /\ pc'[w] \in {"idle", "batch", "abandoning"}
      /\ step'[w] = then /\ step' \in [Worker -> Step]
  BY <1>a, <1>b DEF Forget, Goto, Step
<1> QED
  BY <1>b, <1>2, <1>3, WorkerStep DEF HandlerStep

\* MarkJobDone keeps it: a row is completed for its own payload only, and then the
\* call that succeeded has left the grant applied.
LEMMA MarkJobDoneOnLedgerInv ==
  ASSUME LedgerInv, NEW w \in Worker, step[w] = "none", MarkJobDone(w),
         UNCHANGED <<step, seen>>, Keep
  PROVE  LedgerInv'
<1> DEFINE j == current[w]
           r == row[j.key]
<1>1. /\ Mark(j, MarkedDone(r)) /\ Forget(w, j, "batch") /\ pc[w] = "succeeded"
      /\ overruns' = overruns
      /\ UNCHANGED <<grant, payload, since, scan, verified, tuple, inFlight, late, mutations,
                     errors>>
  BY DEF MarkJobDone, RowOf, Keep, ledgerVars, openFGA
<1>2. j \in batch[w] /\ j.key \in Key /\ r \in Row /\ r.attempts \in Nat
  BY <1>1, PayloadOfJob DEF GrantOf, LedgerInv, IInv, TypeOK, Row
<1>3. IInv'
  BY MarkJobDoneInv DEF LedgerInv
<1>4. Goto(w, "none") /\ seen' \in [Worker -> Payload \cup {NoPayload}]
  BY DEF Goto, LedgerInv, LedgerTypeOK
<1>5. \/ row' = row
      \/ \E status \in Status, n \in Nat :
            /\ row' = [row EXCEPT ![j.key] = Released(row[j.key], status, n)]
            /\ status = "completed" => grant[j.key].projection = "applied"
  <2>1. CASE ~HoldsLock(r, j.token)
    BY <1>1, <2>1 DEF Mark
  <2>2. CASE HoldsLock(r, j.token) /\ Superseded(r)
    <3>1. row' = [row EXCEPT ![j.key] = Released(r, "pending", 0)]
      BY <1>1, <2>2 DEF Mark, MarkedDone, Rescheduled
    <3> QED
      BY <3>1 DEF Status
  <2>3. CASE HoldsLock(r, j.token) /\ ~Superseded(r)
    <3>1. row' = [row EXCEPT ![j.key] = Released(r, "completed", r.attempts)]
      BY <1>1, <2>3 DEF Mark, MarkedDone
    <3>2. j.rev = r.revision
      BY <1>2, <2>3 DEF LedgerInv, IInv, JobsMatchRows, Superseded
    <3>3. grant[j.key].projection = "applied"
      BY <1>1, <3>2 DEF LedgerInv, HandlersAreSound, GrantOf
    <3> QED
      BY <1>2, <3>1, <3>3 DEF Status
  <2> QED
    BY <2>1, <2>2, <2>3
<1> HIDE DEF j, r
<1> QED
  BY <1>1, <1>2, <1>3, <1>4, <1>5, ForgetOnLedgerInv

\* So do giving a job back, and a mark that is lost on its way.
LEMMA GiveBackOnLedgerInv ==
  ASSUME LedgerInv, NEW w \in Worker,
         \/ \E j \in batch[w] : MarkJobAbandoned(w, j) /\ step[w] = "none" /\ UNCHANGED <<step, seen>>
         \/ /\ LoseMark(w) \/ \E j \in batch[w] : LoseAbandon(w, j)
            /\ Goto(w, "none")
            /\ seen' = [seen EXCEPT ![w] = NoPayload],
         Keep
  PROVE  LedgerInv'
<1>1. /\ UNCHANGED <<grant, payload, since, scan, verified, tuple, inFlight, late, mutations, errors>>
      /\ seen \in [Worker -> Payload \cup {NoPayload}] /\ step \in [Worker -> Step]
      /\ row \in [Key -> Row] /\ batch \in [Worker -> SUBSET Job]
  BY DEF Keep, ledgerVars, openFGA, LedgerInv, LedgerTypeOK, IInv, TypeOK
<1>2. ASSUME NEW j \in batch[w], MarkJobAbandoned(w, j), step[w] = "none", UNCHANGED <<step, seen>>
      PROVE  LedgerInv'
  <2>1. /\ Forget(w, j, "abandoning") /\ overruns' = overruns
        /\ \/ row' = row
           \/ row' = [row EXCEPT ![j.key] = Released(row[j.key], "pending", row[j.key].attempts)]
    BY <1>2 DEF MarkJobAbandoned, Mark, MarkedAbandoned, RowOf
  <2>2. j.key \in Key /\ row[j.key].attempts \in Nat /\ "pending" \in Status
    BY <1>1 DEF Job, Row, Status
  <2>3. \/ row' = row
        \/ \E status \in Status, n \in Nat :
              /\ row' = [row EXCEPT ![j.key] = Released(row[j.key], status, n)]
              /\ status = "completed" => grant[j.key].projection = "applied"
    BY <2>1, <2>2
  <2>4. Goto(w, "none") /\ seen' = seen
    BY <1>1, <1>2 DEF Goto
  <2>5. IInv'
    BY <1>2, MarkJobAbandonedInv DEF LedgerInv
  <2> QED
    BY <1>1, <2>1, <2>3, <2>4, <2>5, ForgetOnLedgerInv
<1>3. ASSUME NEW j \in batch[w], NEW next \in {"batch", "abandoning"}, Forget(w, j, next),
             UNCHANGED <<row, overruns>>, IInv',
             Goto(w, "none"), seen' = [seen EXCEPT ![w] = NoPayload]
      PROVE  LedgerInv'
  BY <1>1, <1>3, ForgetOnLedgerInv
<1>4. ASSUME LoseMark(w), Goto(w, "none"), seen' = [seen EXCEPT ![w] = NoPayload]
      PROVE  LedgerInv'
  <2>1. Forget(w, current[w], "batch") /\ current[w] \in batch[w] /\ UNCHANGED <<row, overruns>>
    BY <1>4, PayloadOfJob DEF LoseMark
  <2>2. IInv'
    BY <1>4, LoseMarkInv DEF LedgerInv
  <2> QED
    BY <1>3, <1>4, <2>1, <2>2
<1>5. ASSUME NEW j \in batch[w], LoseAbandon(w, j), Goto(w, "none"),
             seen' = [seen EXCEPT ![w] = NoPayload]
      PROVE  LedgerInv'
  <2>1. Forget(w, j, "abandoning") /\ UNCHANGED <<row, overruns>>
    BY <1>5 DEF LoseAbandon
  <2>2. IInv'
    BY <1>5, LoseAbandonInv DEF LedgerInv
  <2> QED
    BY <1>3, <1>5, <2>1, <2>2
<1> QED
  BY <1>2, <1>4, <1>5

\* MarkProjectionJobFailure keeps it: it never completes a row.
LEMMA MarkProjectionJobFailureInv ==
  ASSUME LedgerInv, NEW w \in Worker, MarkProjectionJobFailure(w)
  PROVE  LedgerInv'
<1> DEFINE j == current[w]
           r == row[j.key]
<1>1. /\ pc[w] = "failed" /\ MarkJobFailure(w) /\ Forget(w, j, "batch")
      /\ overruns' = overruns
      /\ UNCHANGED <<grant, payload, since, scan, verified, tuple, inFlight, late, mutations,
                     errors>>
  BY DEF MarkProjectionJobFailure, MarkJobFailure, ledgerVars, openFGA
<1>2. j \in batch[w] /\ j.key \in Key /\ r \in Row /\ r.attempts + 1 \in Nat
  BY <1>1, PayloadOfJob DEF GrantOf, LedgerInv, IInv, TypeOK, Row
<1>3. IInv'
  BY <1>1, MarkJobFailureInv DEF LedgerInv
<1>4. \/ row' = row
      \/ \E status \in Status, n \in Nat :
            /\ row' = [row EXCEPT ![j.key] = Released(row[j.key], status, n)]
            /\ status = "completed" => grant[j.key].projection = "applied"
  <2>1. \/ row' = row
        \/ row' = [row EXCEPT ![j.key] = Released(r, "pending", 0)]
        \/ row' = [row EXCEPT ![j.key] = Released(r, "failed", r.attempts + 1)]
        \/ row' = [row EXCEPT ![j.key] = Released(r, "dead_letter", r.attempts + 1)]
    BY <1>1 DEF MarkJobFailure, Mark, MarkedRetry, MarkedDeadLetter, Rescheduled, RowOf
  <2>2. {"pending", "failed", "dead_letter"} \subseteq Status /\ 0 \in Nat
    BY DEF Status
  <2> HIDE DEF j
  <2> QED
    BY <1>2, <2>1, <2>2
<1>5. seen \in [Worker -> Payload \cup {NoPayload}]
  BY DEF LedgerInv, LedgerTypeOK
<1>6. CASE step[w] = "terminal" /\ Goto(w, "markFailed") /\ UNCHANGED seen
  <2>1. seen'[w] \in Payload
    BY <1>6 DEF LedgerInv, StepsFit
  <2> HIDE DEF j, r
  <2> QED
    BY <1>1, <1>2, <1>3, <1>4, <1>5, <1>6, <2>1, ForgetOnLedgerInv
<1>7. CASE Goto(w, "none") /\ seen' = [seen EXCEPT ![w] = NoPayload]
  <2> HIDE DEF j, r
  <2> QED
    BY <1>1, <1>2, <1>3, <1>4, <1>5, <1>7, ForgetOnLedgerInv
<1> QED
  BY <1>6, <1>7 DEF MarkProjectionJobFailure


\* Reading the payload of a terminal failure keeps it: there is one to read.
LEMMA LoadTerminalPayloadInv ==
  ASSUME LedgerInv, NEW w \in Worker, LoadTerminalPayload(w)
  PROVE  LedgerInv'
<1> DEFINE g == GrantOf(w)
<1>1. /\ pc[w] = "failed"
      /\ seen' = [seen EXCEPT ![w] = payload[g][Len(payload[g])]]
      /\ step' = [step EXCEPT ![w] = "terminal"]
      /\ UNCHANGED <<vars, grant, payload, since, scan, verified, tuple, inFlight, late, mutations,
                     errors>>
  BY DEF LoadTerminalPayload, Goto, ledgerVars, openFGA
<1>2. UNCHANGED <<row, pc, batch, current, cancelled, handled, failures, faults, overruns>>
  BY <1>1 DEF vars
<1>3. /\ seen \in [Worker -> Payload \cup {NoPayload}] /\ step \in [Worker -> Step]
      /\ mutations \in Nat /\ errors \in Nat /\ late \in Nat /\ inFlight \subseteq Op
      /\ payload \in [Key -> Seq(Payload)] /\ row \in [Key -> Row]
  BY DEF LedgerInv, LedgerTypeOK, IInv, TypeOK
<1>4. payload[g][Len(payload[g])] \in Payload
  <2>1. g \in Key /\ current[w].rev \in 1 .. row[g].revision
    BY <1>1, PayloadOfJob
  <2>2. Len(payload[g]) = row[g].revision
    BY <2>1 DEF LedgerInv, LedgersAgree
  <2>3. row[g].revision \in Nat /\ row[g].revision \in 1 .. row[g].revision
    BY <1>3, <2>1 DEF Row
  <2>4. payload[g] \in Seq(Payload) /\ Len(payload[g]) \in 1 .. Len(payload[g])
    BY <1>3, <2>1, <2>2, <2>3
  <2> QED
    BY <2>4
<1> HIDE DEF g
<1>5. IInv'
  BY <1>2 DEF LedgerInv, IInv, TypeOK, RowsStartAtOne, JobsMatchRows, LocksAreDistinct,
       LocksAreKept, CurrentIsSound, AttemptsAreFailures, CompletedIsHandled, DeadLetterIsExhausted
<1>6. /\ seen' \in [Worker -> Payload \cup {NoPayload}] /\ seen'[w] \in Payload
      /\ step' \in [Worker -> Step] /\ step'[w] = "terminal" /\ pc'[w] = "failed"
      /\ \A v \in Worker : v # w => seen'[v] = seen[v] /\ step'[v] = step[v]
  BY <1>1, <1>2, <1>3, <1>4 DEF Step
<1> QED
  BY <1>1, <1>2, <1>3, <1>5, <1>6, WorkerStep DEF HandlerStep

\* The steps that move a worker and its batch alone keep it.
LEMMA MovesOnLedgerInv ==
  ASSUME LedgerInv, NEW w \in Worker, Keep, step[w] = "none" \/ (pc' = pc /\ current' = current),
         UNCHANGED <<step, seen>>,
         \/ AbandonBatch(w) \/ Exit(w) \/ Start(w) \/ Shutdown(w)
         \/ \E j \in batch[w] : StartJob(w, j)
  PROVE  LedgerInv'
<1>1. /\ UNCHANGED <<grant, payload, since, scan, verified, tuple, inFlight, late, mutations, errors>>
      /\ seen \in [Worker -> Payload \cup {NoPayload}] /\ step \in [Worker -> Step]
      /\ mutations \in Nat /\ errors \in Nat /\ late \in Nat /\ inFlight \subseteq Op
      /\ pc \in [Worker -> PC] /\ current \in [Worker -> Job \cup {NoJob}]
  BY DEF Keep, ledgerVars, openFGA, LedgerInv, LedgerTypeOK, IInv, TypeOK
<1>2. IInv'
  BY AbandonBatchInv, StopAndStartInv, ShutdownInv, StartJobInv DEF LedgerInv
<1>3. /\ UNCHANGED <<row, batch, overruns>>
      /\ \A v \in Worker : v # w => pc'[v] = pc[v] /\ current'[v] = current[v]
      /\ pc'[w] # "succeeded" \/ (pc' = pc /\ current' = current)
  BY <1>1 DEF AbandonBatch, Exit, Start, Shutdown, StartJob
<1> QED
  BY <1>1, <1>2, <1>3, WorkerStep DEF HandlerStep


\* Claiming jobs keeps it: a new job carries the row's own revision.
LEMMA ClaimOnLedgerInv ==
  ASSUME LedgerInv, NEW w \in Worker, NEW S \in SUBSET Key, NEW t \in Token,
         ClaimProjectionJobs(w, S, t)
  PROVE  LedgerInv'
<1>1. /\ Claim(w, S, t) /\ step[w] = "none" /\ UNCHANGED <<step, seen>>
      /\ UNCHANGED <<grant, payload, since, scan, verified, tuple, inFlight, late, mutations, errors>>
  BY DEF ClaimProjectionJobs, Keep, ledgerVars, openFGA
<1>2. /\ seen \in [Worker -> Payload \cup {NoPayload}] /\ step \in [Worker -> Step]
      /\ mutations \in Nat /\ errors \in Nat /\ late \in Nat /\ inFlight \subseteq Op
      /\ pc \in [Worker -> PC] /\ batch \in [Worker -> SUBSET Job]
      /\ row \in [Key -> Row] /\ overruns \in Nat
  BY DEF LedgerInv, LedgerTypeOK, IInv, TypeOK
<1>3. IInv'
  BY <1>1, ClaimInv DEF LedgerInv
<1>4. /\ current' = current
      /\ row' = [k \in Key |-> IF k \in S THEN Claimed(row[k], t) ELSE row[k]]
      /\ batch' = [batch EXCEPT ![w] = {JobOf(k, t) : k \in S}]
      /\ pc' = [pc EXCEPT ![w] = "batch"]
      /\ overruns' = 0 => overruns = 0
  BY <1>1, <1>2 DEF Claim
<1>5. \A k \in Key : /\ row'[k].revision = row[k].revision
                     /\ row'[k].status = "completed" => row[k].status = "completed"
  BY <1>2, <1>4, ClaimedRow
<1>6. \A v \in Worker : \A j \in batch'[v] : j \in batch[v] \/ j.rev = row[j.key].revision
  BY <1>2, <1>4 DEF JobOf
<1>7. pc'[w] = "batch" /\ \A v \in Worker : v # w => pc'[v] = pc[v]
  BY <1>2, <1>4
<1> QED
  BY <1>1, <1>2, <1>3, <1>4, <1>5, <1>6, <1>7, WorkerStep DEF HandlerStep

\* A crash keeps it, with or without a request left on its way.
LEMMA CrashOnLedgerInv ==
  ASSUME LedgerInv, NEW w \in Worker, CrashProjection(w)
  PROVE  LedgerInv'
<1>1. /\ Crash(w) /\ Goto(w, "none") /\ seen' = [seen EXCEPT ![w] = NoPayload]
      /\ UNCHANGED <<grant, payload, since, scan, verified, tuple, mutations, errors>>
      /\ Detach(w) \/ UNCHANGED <<tuple, inFlight, late>>
  BY DEF CrashProjection, Detach, ledgerVars, openFGA
<1>2. /\ seen \in [Worker -> Payload \cup {NoPayload}] /\ step \in [Worker -> Step]
      /\ mutations \in Nat /\ errors \in Nat /\ late \in Nat /\ inFlight \subseteq Op
      /\ pc \in [Worker -> PC] /\ batch \in [Worker -> SUBSET Job]
      /\ current \in [Worker -> Job \cup {NoJob}]
  BY DEF LedgerInv, LedgerTypeOK, IInv, TypeOK
<1>3. IInv'
  BY <1>1, StopAndStartInv DEF LedgerInv
<1>4. late' \in Nat /\ inFlight' \subseteq Op /\ (late' = 0 => late = 0 /\ inFlight' = inFlight)
  <2>1. CASE UNCHANGED <<inFlight, late>>
    BY <1>2, <2>1
  <2>2. CASE Detach(w)
    <3>1. step[w] \in {"write", "delete"} /\ GrantOf(w) \in Key
      BY <2>2, PayloadOfJob DEF Detach, LedgerInv, StepsFit
    <3> QED
      BY <1>2, <2>2, <3>1 DEF Detach, Op
  <2> QED
    BY <1>1, <2>1, <2>2
<1>5. /\ UNCHANGED <<row, overruns>>
      /\ pc'[w] = "down" /\ batch'[w] = {} /\ step'[w] = "none"
      /\ step' \in [Worker -> Step] /\ seen' \in [Worker -> Payload \cup {NoPayload}]
      /\ \A v \in Worker : v # w => /\ pc'[v] = pc[v] /\ current'[v] = current[v]
                                    /\ batch'[v] = batch[v] /\ step'[v] = step[v]
                                    /\ seen'[v] = seen[v]
  BY <1>1, <1>2 DEF Crash, Goto, Step
<1> QED
  BY <1>1, <1>2, <1>3, <1>4, <1>5, WorkerStep DEF HandlerStep
-----------------------------------------------------------------------------
(* The projection state.                                                   *)

\* Marking a projection failed, or losing that statement, keeps it: the fence
\* leaves an applied grant and any other revision alone, and the outbox row of a
\* grant that is not applied is not completed.
LEMMA MarkProjectionFailedInv ==
  ASSUME LedgerInv, NEW w \in Worker, MarkProjectionFailed(w) \/ LoseProjectionFailed(w)
  PROVE  LedgerInv'
<1> DEFINE p == seen[w]
           g == p.grant
<1>1. /\ step[w] = "markFailed"
      /\ grant' = grant \/ grant' = [grant EXCEPT ![g] = Failed(grant[g], p)]
      /\ step' = [step EXCEPT ![w] = "none"] /\ seen' = [seen EXCEPT ![w] = NoPayload]
      /\ UNCHANGED <<row, pc, batch, current, cancelled, handled, failures, faults, overruns,
                     payload, since, tuple, inFlight, late, scan, verified, mutations>>
  BY DEF MarkProjectionFailed, LoseProjectionFailed, FinishFailure, Goto, openFGA, vars
<1>2. /\ seen \in [Worker -> Payload \cup {NoPayload}] /\ step \in [Worker -> Step]
      /\ grant \in [Key -> Grant] /\ errors \in Nat
  BY DEF LedgerInv, LedgerTypeOK
<1>3. p \in Payload /\ g \in Key /\ grant[g] \in Grant
  BY <1>1, <1>2 DEF LedgerInv, StepsFit, Payload
<1>4. errors' \in Nat
  BY <1>2 DEF MarkProjectionFailed, LoseProjectionFailed
<1>5. \A h \in Key : /\ grant'[h] \in Grant
                     /\ grant'[h].revision = grant[h].revision
                     /\ grant'[h].desired = grant[h].desired
                     /\ GivesAccess(grant'[h]) <=> GivesAccess(grant[h])
                     /\ \/ grant'[h] = grant[h]
                        \/ /\ grant'[h].projection = "failed"
                           /\ grant[h].projection # "applied"
                           /\ Matches(grant[h], p) /\ h = g
  BY <1>1, <1>2, <1>3, ProjectedRow
<1>6. p.desired # "none"
  BY <1>3 DEF Payload, Desired
<1> HIDE DEF p, g
<1>7. \A h \in Key : /\ grant'[h].projection = "none" <=> grant[h].projection = "none"
                     /\ grant'[h].projection = "applied" <=> grant[h].projection = "applied"
  BY <1>5, <1>6 DEF LedgerInv, LedgersAgree, Matches
<1>8. IInv'
  BY <1>1 DEF LedgerInv, IInv, TypeOK, RowsStartAtOne, JobsMatchRows, LocksAreDistinct,
       LocksAreKept, CurrentIsSound, AttemptsAreFailures, CompletedIsHandled, DeadLetterIsExhausted
<1>9. LedgerTypeOK'
  BY <1>1, <1>2, <1>4, <1>5, <1>8 DEF IInv, LedgerInv, LedgerTypeOK, Step
<1>10. LedgersAgree'
  BY <1>1, <1>5, <1>7 DEF LedgerInv, LedgersAgree, PayloadOf
<1>11. StepsFit'
  BY <1>1, <1>2 DEF LedgerInv, StepsFit
<1>12. HandlersAreSound'
  <2> SUFFICES ASSUME NEW v \in Worker
               PROVE  /\ step'[v] \in {"list", "write"} => Wanted(v)'
                      /\ step'[v] = "delete" => ~Wanted(v)'
                      /\ step'[v] = "apply" => PayloadFor(v)'.revision \in verified[GrantOf(v)']
                      /\ pc[v] = "succeeded" /\ current[v].rev = row[GrantOf(v)'].revision
                            => grant'[GrantOf(v)'].projection = "applied"
    BY <1>1 DEF HandlersAreSound
  <2>1. Wanted(v)' = Wanted(v) /\ PayloadFor(v)' = PayloadFor(v) /\ GrantOf(v)' = GrantOf(v)
    BY <1>1 DEF Wanted, PayloadFor, GrantOf
  <2>2. pc[v] = "succeeded" => GrantOf(v) \in Key
    BY PayloadOfJob
  <2>3. step'[v] \in HandlerStep => step'[v] = step[v]
    BY <1>1, <1>2 DEF HandlerStep
  <2> QED
    BY <1>7, <2>1, <2>2, <2>3 DEF LedgerInv, HandlersAreSound, HandlerStep
<1>13. ScanIsOfGrants' /\ ClaimedIsOutstanding'
  <2>1. ScanIsOfGrants'
    BY <1>1, <1>5 DEF LedgerInv, ScanIsOfGrants, Existing
  <2>2. ClaimedIsOutstanding'
    BY <1>1, <1>7 DEF LedgerInv, ClaimedIsOutstanding, IInv, TypeOK, Job
  <2> QED
    BY <2>1, <2>2
<1>14. VerifiedStays'
  BY <1>1, <1>2 DEF LedgerInv, VerifiedStays, Wanted, PayloadFor, GrantOf
<1>15. NothingIsStranded'
  <2> SUFFICES ASSUME NEW h \in Key, grant'[h].projection \in {"pending", "failed"}
               PROVE  row[h].status # "completed"
    BY <1>1 DEF NothingIsStranded
  <2>1. grant[h].projection \in {"pending", "failed"}
    BY <1>2, <1>7 DEF Grant
  <2> QED
    BY <2>1 DEF LedgerInv, NothingIsStranded
<1>16. AppliedIsVerified' /\ AccessIsVerified' /\ TupleAgrees'
  BY <1>1, <1>5, <1>7 DEF LedgerInv, AppliedIsVerified, AccessIsVerified, TupleAgrees
<1> QED
  BY <1>8, <1>9, <1>10, <1>11, <1>12, <1>13, <1>14, <1>15, <1>16 DEF LedgerInv


\* Marking a projection applied keeps it.  Past the fence the payload is the grant's
\* own, and the call has verified it; without a takeover no older job is left that
\* could disturb the tuple any more.
LEMMA MarkProjectionAppliedInv ==
  ASSUME LedgerInv, NEW w \in Worker, MarkProjectionApplied(w)
  PROVE  LedgerInv'
<1> DEFINE g == GrantOf(w)
           j == current[w]
           p == PayloadFor(w)
<1>1. /\ pc[w] = "handling" /\ step[w] = "apply" /\ HandlerSucceeds(w)
      /\ grant' = [grant EXCEPT ![g] = Applied(grant[g], p)]
      /\ pc' = [pc EXCEPT ![w] = "succeeded"]
      /\ step' = [step EXCEPT ![w] = "none"]
      /\ UNCHANGED <<row, batch, current, overruns, payload, since, tuple, inFlight, late, seen,
                     scan, verified, mutations, errors>>
  BY DEF MarkProjectionApplied, Handling, HandlerSucceeds, Goto, openFGA
<1>2. /\ step \in [Worker -> Step] /\ pc \in [Worker -> PC] /\ grant \in [Key -> Grant]
      /\ seen \in [Worker -> Payload \cup {NoPayload}] /\ since \in [Key -> Nat]
      /\ mutations \in Nat /\ errors \in Nat /\ late \in Nat /\ inFlight \subseteq Op
  BY DEF LedgerInv, LedgerTypeOK, IInv, TypeOK
<1>3. /\ g \in Key /\ grant[g] \in Grant /\ j \in batch[w] /\ j.key = g
      /\ p \in Payload /\ p.revision = j.rev /\ p.revision \in Nat
      /\ Matches(grant[g], p) <=> j.rev = row[g].revision
  BY <1>1, <1>2, PayloadOfJob DEF Payload, GrantOf
<1>4. p.revision \in verified[g]
  BY <1>1 DEF LedgerInv, HandlersAreSound
<1>5. IInv'
  BY <1>1, HandlerSucceedsInv DEF LedgerInv
<1>6. /\ step' \in [Worker -> Step] /\ step'[w] = "none" /\ pc'[w] = "succeeded"
      /\ \A v \in Worker : v # w => step'[v] = step[v] /\ pc'[v] = pc[v]
  BY <1>1, <1>2 DEF Step
<1>7. CASE ~Matches(grant[g], p)
  <2>1. grant' = grant
    BY <1>1, <1>2, <1>3, <1>7, ProjectedRow
  <2>2. GrantOf(w) \in Key /\ current[w].rev # row[GrantOf(w)].revision
    BY <1>3, <1>7
  <2> HIDE DEF g, j, p
  <2> QED
    BY <1>1, <1>2, <1>5, <1>6, <2>1, <2>2, WorkerStep DEF HandlerStep
<1>8. CASE Matches(grant[g], p)
  <2>1. /\ j.rev = row[g].revision
        /\ p.revision = row[g].revision /\ p.revision = grant[g].revision
        /\ p.desired = grant[g].desired /\ p.desired \in Desired
    BY <1>3, <1>8 DEF Matches, Payload
  <2>2. \A h \in Key : /\ grant'[h] \in Grant
                       /\ grant'[h].revision = grant[h].revision
                       /\ grant'[h].desired = grant[h].desired
                       /\ h # g => grant'[h] = grant[h]
    BY <1>1, <1>2, <1>3, ProjectedRow
  <2>3. grant'[g].projection = "applied"
    BY <1>1, <1>2, <1>3, <1>8, ProjectedRow
  <2>4. \A v \in Worker : GrantOf(v)' = GrantOf(v) /\ PayloadFor(v)' = PayloadFor(v)
                            /\ Wanted(v)' = Wanted(v)
    BY <1>1 DEF GrantOf, PayloadFor, Wanted
  <2>w. Wanted(w) = (p.desired = "granted")
    BY DEF Wanted
  <2> HIDE DEF g, p
  <2>5. LedgerTypeOK'
    BY <1>1, <1>5, <1>6, <2>2 DEF IInv, LedgerInv, LedgerTypeOK
  <2>6. LedgersAgree'
    BY <1>1, <2>1, <2>2, <2>3 DEF LedgerInv, LedgersAgree, PayloadOf, Desired
  <2>7. StepsFit'
    BY <1>1, <1>6 DEF LedgerInv, StepsFit
  <2>8. HandlersAreSound'
    <3> SUFFICES ASSUME NEW v \in Worker
                 PROVE  /\ step'[v] \in {"list", "write"} => Wanted(v)
                        /\ step'[v] = "delete" => ~Wanted(v)
                        /\ step'[v] = "apply" => PayloadFor(v).revision \in verified[GrantOf(v)]
                        /\ pc'[v] = "succeeded" /\ current[v].rev = row[GrantOf(v)].revision
                              => grant'[GrantOf(v)].projection = "applied"
      BY <1>1, <2>4 DEF HandlersAreSound
    <3>1. CASE v = w
      BY <1>6, <2>3, <3>1 DEF g
    <3>2. CASE v # w
      <4>1. step'[v] = step[v] /\ pc'[v] = pc[v]
        BY <1>6, <3>2
      <4>2. pc[v] = "succeeded" => GrantOf(v) \in Key
        BY PayloadOfJob
      <4> QED
        BY <2>2, <2>3, <4>1, <4>2 DEF LedgerInv, HandlersAreSound
    <3> QED
      BY <3>1, <3>2
  <2>9. ScanIsOfGrants'
    BY <1>1, <2>2 DEF LedgerInv, ScanIsOfGrants, Existing
  <2>10. ClaimedIsOutstanding'
    <3> SUFFICES ASSUME overruns = 0, NEW v \in Worker, NEW i \in batch[v],
                        i.rev < row[i.key].revision
                 PROVE  grant'[i.key].projection # "applied"
      BY <1>1 DEF ClaimedIsOutstanding
    <3>1. i.key \in Key /\ i.rev \in Nat /\ row[i.key].revision \in Nat
      BY DEF LedgerInv, IInv, TypeOK, Job, Row
    <3>2. i.key # g
      <4> SUFFICES ASSUME i.key = g PROVE FALSE
        OBVIOUS
      <4>1. HoldsLock(row[g], i.token) /\ HoldsLock(row[g], j.token)
        BY <1>3 DEF LedgerInv, IInv, LocksAreKept
      <4>2. i = j
        BY <1>3, <4>1, ZenonT(40) DEF LedgerInv, IInv, LocksAreDistinct, HoldsLock
      <4> QED
        BY <2>1, <3>1, <4>2
    <3> QED
      BY <2>2, <3>1, <3>2 DEF LedgerInv, ClaimedIsOutstanding
  <2>11. VerifiedStays'
    BY <1>1, <1>6, <2>4 DEF LedgerInv, VerifiedStays
  <2>12. NothingIsStranded'
    BY <1>1, <2>2, <2>3 DEF LedgerInv, NothingIsStranded
  <2>13. AppliedIsVerified'
    BY <1>1, <1>4, <2>1, <2>2 DEF LedgerInv, AppliedIsVerified
  <2>14. AccessIsVerified'
    <3> SUFFICES ASSUME NEW h \in Key, GivesAccess(grant'[h])
                 PROVE  \E n \in verified[h] : n >= since[h]
      BY <1>1 DEF AccessIsVerified
    <3>1. CASE h = g
      <4>1. since[g] <= row[g].revision
        BY <1>3 DEF LedgerInv, LedgersAgree
      <4> QED
        BY <1>2, <1>3, <1>4, <2>1, <3>1, <4>1
    <3>2. CASE h # g
      BY <2>2, <3>2 DEF LedgerInv, AccessIsVerified
    <3> QED
      BY <3>1, <3>2
  <2>15. TupleAgrees'
    <3> SUFFICES ASSUME late = 0, overruns = 0, NEW h \in Key, grant'[h].projection = "applied"
                 PROVE  tuple[h] = (grant[h].desired = "granted")
      BY <1>1, <2>2 DEF TupleAgrees
    <3>1. CASE h = g
      <4>1. tuple[g] = Wanted(w)
        BY <1>1 DEF LedgerInv, VerifiedStays, g
      <4> QED
        BY <2>1, <2>w, <3>1, <4>1
    <3>2. CASE h # g
      BY <2>2, <3>2 DEF LedgerInv, TupleAgrees
    <3> QED
      BY <3>1, <3>2
  <2> QED
    BY <1>5, <2>5, <2>6, <2>7, <2>8, <2>9, <2>10, <2>11, <2>12, <2>13, <2>14, <2>15 DEF LedgerInv
<1> QED
  BY <1>7, <1>8
-----------------------------------------------------------------------------
(* OpenFGA on its own.                                                     *)

\* A request that lands after it was given up keeps it: what it may spoil is what
\* the invariant says of the tuple only as long as nothing was given up.
LEMMA LandInv ==
  ASSUME LedgerInv, NEW o \in inFlight, Land(o)
  PROVE  LedgerInv'
<1>1. /\ inFlight' = inFlight \ {o}
      /\ tuple' = [tuple EXCEPT ![o.grant] = o.op = "write"]
      /\ UNCHANGED <<row, pc, batch, current, cancelled, handled, failures, faults, overruns,
                     grant, payload, since, late, step, seen, scan, verified, mutations, errors>>
  BY DEF Land, ledgerVars, vars
<1>2. late # 0
  BY DEF LedgerInv, VerifiedStays
<1>3. IInv'
  BY <1>1 DEF LedgerInv, IInv, TypeOK, RowsStartAtOne, JobsMatchRows, LocksAreDistinct,
       LocksAreKept, CurrentIsSound, AttemptsAreFailures, CompletedIsHandled, DeadLetterIsExhausted
<1>4. LedgerTypeOK'
  <2>1. tuple \in [Key -> BOOLEAN] /\ (o.op = "write") \in BOOLEAN
    BY DEF LedgerInv, LedgerTypeOK
  <2>2. tuple' \in [Key -> BOOLEAN]
    BY <1>1, <2>1
  <2> QED
    BY <1>1, <1>3, <2>2 DEF IInv, LedgerInv, LedgerTypeOK
<1>5. LedgersAgree' /\ StepsFit' /\ ScanIsOfGrants' /\ ClaimedIsOutstanding'
  BY <1>1 DEF LedgerInv, LedgersAgree, StepsFit, ScanIsOfGrants, Existing, ClaimedIsOutstanding
<1>6. HandlersAreSound'
  BY <1>1 DEF LedgerInv, HandlersAreSound, Wanted, PayloadFor, GrantOf
<1>7. VerifiedStays' /\ TupleAgrees'
  BY <1>1, <1>2 DEF VerifiedStays, TupleAgrees
<1>8. NothingIsStranded' /\ AppliedIsVerified' /\ AccessIsVerified'
  BY <1>1 DEF LedgerInv, NothingIsStranded, AppliedIsVerified, AccessIsVerified
<1> QED
  BY <1>3, <1>4, <1>5, <1>6, <1>7, <1>8 DEF LedgerInv
-----------------------------------------------------------------------------
(* The theorems.                                                           *)

\* Every step of a worker, of its own or a disturbance, keeps the invariant.
LEMMA WorkersInv ==
  ASSUME LedgerInv, NEW w \in Worker, Project(w) \/ DisturbProjection(w)
  PROVE  LedgerInv'
<1>1. CASE SkipStale(w)
  BY <1>1, SkipStaleInv
<1>2. CASE GetGrant(w) \/ ReadTuples(w) \/ DeleteTuples(w)
  BY <1>2, HandlerMovesInv
<1>3. CASE WriteTuples(w)
  <2>1. UNCHANGED vars \/ HandlerFails(w)
    BY <1>3 DEF WriteTuples
  <2> QED
    BY <1>3, <2>1, HandlerMovesInv, HandlerFailsOnLedgerInv
<1>4. CASE TupleExists(w)
  <2>1. UNCHANGED vars \/ HandlerFails(w)
    BY <1>4 DEF TupleExists
  <2> QED
    BY <1>4, <2>1, HandlerMovesInv, HandlerFailsOnLedgerInv
<1>5. CASE MarkProjectionApplied(w)
  BY <1>5, MarkProjectionAppliedInv
<1>6. CASE LoadTerminalPayload(w) \/ MarkProjectionJobFailure(w)
  BY <1>6, LoadTerminalPayloadInv, MarkProjectionJobFailureInv
<1>7. CASE MarkProjectionFailed(w) \/ LoseProjectionFailed(w)
  BY <1>7, MarkProjectionFailedInv
<1>8. CASE Poll(w)
  <2>1. CASE MarkJobDone(w)
    BY <1>8, <2>1, MarkJobDoneOnLedgerInv DEF Poll
  <2>2. CASE \E j \in batch[w] : MarkJobAbandoned(w, j)
    BY <1>8, <2>2, GiveBackOnLedgerInv DEF Poll
  <2>3. CASE AbandonBatch(w) \/ Exit(w) \/ Start(w) \/ \E j \in batch[w] : StartJob(w, j)
    <3>1. step[w] = "none" /\ UNCHANGED <<step, seen>> /\ Keep
      BY <1>8 DEF Poll
    <3>2. \/ AbandonBatch(w) \/ Exit(w) \/ Start(w) \/ Shutdown(w)
          \/ \E j \in batch[w] : StartJob(w, j)
      BY <2>3
    <3> QED
      BY <3>1, <3>2, MovesOnLedgerInv
  <2> QED
    BY <1>8, <2>1, <2>2, <2>3 DEF Poll
<1>9. CASE HandlerError(w) \/ TimeOut(w)
  BY <1>9, HandlerFailsOnLedgerInv
<1>10. CASE LoseProjectionMark(w)
  BY <1>10, GiveBackOnLedgerInv DEF LoseProjectionMark
<1>11. CASE ShutdownProjection(w)
  BY <1>11, MovesOnLedgerInv DEF ShutdownProjection, Shutdown
<1>12. CASE CrashProjection(w)
  BY <1>12, CrashOnLedgerInv
<1> QED
  BY <1>1, <1>2, <1>3, <1>4, <1>5, <1>6, <1>7, <1>8, <1>9, <1>10, <1>11, <1>12
     DEF Project, DisturbProjection

\* The invariant of ledger, outbox, workers, OpenFGA and scan together.
THEOREM LedgerInvariant == LedgerSpec => []LedgerInv
<1>1. LedgerInit => LedgerInv
  BY LedgerInitInv
<1>2. LedgerInv /\ [LedgerNext]_allVars => LedgerInv'
  <2> SUFFICES ASSUME LedgerInv, [LedgerNext]_allVars PROVE LedgerInv'
    OBVIOUS
  <2>1. CASE Change
    BY <2>1, ChangeInv
  <2>2. ASSUME NEW g \in Key, ClaimOfGrant(g) PROVE LedgerInv'
    BY <2>2, ClaimOnLedgerInv DEF ClaimOfGrant
  <2>3. ASSUME NEW w \in Worker, Project(w) \/ DisturbProjection(w) PROVE LedgerInv'
    BY <2>3, WorkersInv
  <2>4. ASSUME NEW o \in inFlight, Land(o) PROVE LedgerInv'
    BY <2>4, LandInv
  <2>5. ASSUME NEW Old \in SUBSET With("pending"), ListGrants(Old) PROVE LedgerInv'
    BY <2>5, ListGrantsInv
  <2>6. CASE Scan \/ FailScan
    BY <2>6, ScanInv
  <2>7. CASE UNCHANGED allVars
    <3>1. /\ UNCHANGED <<vars, grant, payload, since, tuple, inFlight, late, step, seen, verified>>
          /\ UNCHANGED <<scan, mutations, errors>>
      BY <2>7 DEF allVars, ledgerVars, openFGA
    <3>2. /\ mutations \in Nat /\ errors \in Nat
          /\ scan \in [on : BOOLEAN, todo : SUBSET [grant : Key, want : BOOLEAN],
                       drifted : SUBSET Key]
          /\ scan.drifted \cup {t.grant : t \in scan.todo} \subseteq Existing
      BY DEF LedgerInv, LedgerTypeOK, ScanIsOfGrants
    <3> QED
      BY <3>1, <3>2, ScanMoves
  <2> QED
    BY <2>1, <2>2, <2>3, <2>4, <2>5, <2>6, <2>7 DEF LedgerNext
<1> QED
  BY <1>1, <1>2, PTL DEF LedgerSpec

\* Type correctness of every variable.
THEOREM LedgerTypeCorrect == LedgerSpec => []LedgerTypeOK
<1>1. LedgerInv => LedgerTypeOK
  BY DEF LedgerInv
<1> QED
  BY <1>1, LedgerInvariant, PTL

\* No grant with an outstanding or failed projection has a completed job.
THEOREM NothingIsStrandedAlways == LedgerSpec => []NothingIsStranded
<1>1. LedgerInv => NothingIsStranded
  BY DEF LedgerInv
<1> QED
  BY <1>1, LedgerInvariant, PTL

\* A projection is applied only at a revision whose tuple was verified.
THEOREM AppliedIsVerifiedAlways == LedgerSpec => []AppliedIsVerified
<1>1. LedgerInv => AppliedIsVerified
  BY DEF LedgerInv
<1> QED
  BY <1>1, LedgerInvariant, PTL

\* A role is in effect only if its tuple was verified since it was last granted.
THEOREM AccessIsVerifiedAlways == LedgerSpec => []AccessIsVerified
<1>1. LedgerInv => AccessIsVerified
  BY DEF LedgerInv
<1> QED
  BY <1>1, LedgerInvariant, PTL

\* Ledger and OpenFGA agree on applied grants, late requests and takeovers aside.
THEOREM TupleAgreesAlways == LedgerSpec => []TupleAgrees
<1>1. LedgerInv => TupleAgrees
  BY DEF LedgerInv
<1> QED
  BY <1>1, LedgerInvariant, PTL

\* Two workers are in the handler of one grant only after a takeover.
THEOREM ProjectionIsExclusiveAlways == LedgerSpec => []HandlingIsExclusive
<1>1. LedgerInv => HandlingIsExclusive
  BY HandlingExclusive DEF LedgerInv
<1> QED
  BY <1>1, LedgerInvariant, PTL

\* A role in effect is lost by a revocation only.
THEOREM AccessEndsByRevocationAlways == LedgerSpec => AccessEndsByRevocation
<1> DEFINE Ends == \A g \in Key : GivesAccess(grant[g]) /\ ~GivesAccess(grant'[g])
                                      => grant'[g].desired = "revoked"
<1>1. LedgerInv /\ [LedgerNext]_allVars => [Ends]_allVars
  <2> SUFFICES ASSUME LedgerInv, LedgerNext PROVE Ends
    OBVIOUS
  <2>0. grant \in [Key -> Grant]
    BY DEF LedgerInv, LedgerTypeOK
  <2>1. ASSUME NEW g \in Key, Give(g) PROVE Ends
    <3>1. ~GivesAccess(grant[g])
      BY <2>1 DEF Give, GivesAccess
    <3>2. \A h \in Key : h # g => grant'[h] = grant[h]
      BY <2>1 DEF Give, Mutate
    <3> QED
      BY <3>1, <3>2
  <2>2. ASSUME NEW g \in Key, TakeBack(g) PROVE Ends
    <3>1. grant'[g] = Revoked(grant[g])
      BY <2>2 DEF TakeBack, Mutate
    <3>2. grant'[g].desired = "revoked"
      BY <2>0, <3>1, ChangedRow
    <3>3. \A h \in Key : h # g => grant'[h] = grant[h]
      BY <2>2 DEF TakeBack, Mutate
    <3> QED
      BY <3>2, <3>3
  <2>3. ASSUME NEW S, S \subseteq Key, Redo(S) PROVE Ends
    <3>1. \A h \in Key : grant'[h] = grant[h] \/ grant'[h] = Reconciled(grant[h])
      BY <2>3 DEF Redo, Mutate
    <3> QED
      BY <2>0, <3>1, ChangedRow
  <2>4. ASSUME NEW h \in Key, NEW p,
               \/ grant' = [grant EXCEPT ![h] = Applied(grant[h], p)]
               \/ grant' = [grant EXCEPT ![h] = Failed(grant[h], p)]
        PROVE  Ends
    BY <2>0, <2>4, ProjectedRow
  <2>5. ASSUME grant' = grant PROVE Ends
    BY <2>5
  <2> HIDE DEF Ends
  <2>6. CASE Change
    <3>1. Existing \subseteq Key
      BY DEF Existing
    <3> QED
      BY <2>1, <2>2, <2>3, <2>6, <3>1 DEF Change, CreateOrRestoreGrant, RevokeGrant,
         ReconcileGrant, ReconcileAll, SyncCasdoorOrganizationAdmin
  <2>7. ASSUME NEW w \in Worker, MarkProjectionApplied(w) PROVE Ends
    <3>1. GrantOf(w) \in Key
      BY <2>7, PayloadOfJob DEF MarkProjectionApplied, Handling
    <3> QED
      BY <2>4, <2>7, <3>1 DEF MarkProjectionApplied
  <2>8. ASSUME NEW w \in Worker, MarkProjectionFailed(w) PROVE Ends
    <3>1. seen[w].grant \in Key
      BY <2>8 DEF MarkProjectionFailed, FinishFailure, LedgerInv, StepsFit, Payload
    <3> QED
      BY <2>4, <2>8, <3>1 DEF MarkProjectionFailed
  <2>9. CASE RequeueDrifted
    BY <2>3, <2>9 DEF RequeueDrifted, LedgerInv, LedgerTypeOK
  <2>10. ASSUME NEW w \in Worker, Project(w) \/ DisturbProjection(w) PROVE Ends
    <3>1. MarkProjectionApplied(w) \/ MarkProjectionFailed(w) \/ grant' = grant
      BY <2>10 DEF Project, DisturbProjection, SkipStale, GetGrant, ReadTuples, WriteTuples,
         DeleteTuples, TupleExists, LoadTerminalPayload, MarkProjectionJobFailure, Poll,
         HandlerError, TimeOut, LoseProjectionFailed, LoseProjectionMark, ShutdownProjection,
         CrashProjection, Keep, ledgerVars
    <3> QED
      BY <2>5, <2>7, <2>8, <2>10, <3>1
  <2>11. CASE \/ \E g \in Key : ClaimOfGrant(g)
              \/ \E o \in inFlight : Land(o)
              \/ \E Old \in SUBSET With("pending") : ListGrants(Old)
              \/ ExceedLimit \/ FailScan
              \/ \E t \in scan.todo : CompareTuple(t)
    BY <2>5, <2>11 DEF ClaimOfGrant, ClaimProjectionJobs, Keep, ledgerVars, Land, ListGrants,
       ExceedLimit, FailScan, CompareTuple
  <2> QED
    BY <2>6, <2>9, <2>10, <2>11 DEF LedgerNext, Scan
<1> QED
  BY <1>1, LedgerInvariant, PTL DEF LedgerSpec, AccessEndsByRevocation
-----------------------------------------------------------------------------
(* The outbox as the ledger uses it.                                       *)

\* A transaction on the ledger upserts the jobs of the grants it changes.
LEMMA ChangeUpserts ==
  ASSUME LedgerInv, Change \/ RequeueDrifted
  PROVE  \E S \in SUBSET Key : Upsert(S)
<1>2. ASSUME NEW S \in SUBSET Key, Redo(S) PROVE Upsert(S)
  BY <1>2 DEF Redo, Mutate
<1>3. ASSUME NEW g \in Key, Give(g) \/ TakeBack(g) PROVE Upsert({g})
  BY <1>3 DEF Give, TakeBack, Mutate
<1>4. Existing \in SUBSET Key /\ scan.drifted \in SUBSET Key
  BY DEF Existing, LedgerInv, LedgerTypeOK
<1>5. CASE RequeueDrifted
  BY <1>2, <1>4, <1>5 DEF RequeueDrifted
<1>6. CASE ReconcileAll
  BY <1>2, <1>4, <1>6 DEF ReconcileAll
<1>7. ASSUME NEW g \in Key,
             \/ CreateOrRestoreGrant(g) \/ RevokeGrant(g) \/ ReconcileGrant(g)
             \/ \E admin \in BOOLEAN : SyncCasdoorOrganizationAdmin(g, admin)
      PROVE  Upsert({g})
  BY <1>2, <1>3, <1>7
     DEF CreateOrRestoreGrant, RevokeGrant, ReconcileGrant, SyncCasdoorOrganizationAdmin
<1> QED
  BY <1>5, <1>6, <1>7 DEF Change

\* Every step of ledger, handler, OpenFGA and scan is a step of the outbox or none.
LEMMA LedgerStep ==
  ASSUME LedgerInv, [LedgerNext]_allVars
  PROVE  [SharedNext]_vars
<1>1. CASE Change \/ RequeueDrifted
  BY <1>1, ChangeUpserts DEF SharedNext
<1>2. ASSUME NEW g \in Key, ClaimOfGrant(g) PROVE SharedNext
  BY <1>2 DEF ClaimOfGrant, ClaimProjectionJobs, ClaimOf, SharedNext, Next
<1>3. ASSUME NEW w \in Worker, Project(w) PROVE Work(w) \/ UNCHANGED vars
  BY <1>3 DEF Project, SkipStale, GetGrant, ReadTuples, WriteTuples, DeleteTuples, TupleExists,
     MarkProjectionApplied, LoadTerminalPayload, MarkProjectionJobFailure, MarkProjectionFailed,
     FinishFailure, Poll, Work
<1>4. ASSUME NEW w \in Worker, DisturbProjection(w)
      PROVE  Work(w) \/ Disturb(w) \/ UNCHANGED vars
  BY <1>4 DEF DisturbProjection, HandlerError, TimeOut, LoseProjectionFailed, FinishFailure,
     LoseProjectionMark, ShutdownProjection, CrashProjection, Work, Disturb
<1>5. CASE \/ \E o \in inFlight : Land(o)
           \/ \E Old \in SUBSET With("pending") : ListGrants(Old)
           \/ ExceedLimit \/ FailScan \/ \E t \in scan.todo : CompareTuple(t)
  BY <1>5 DEF Land, ListGrants, ExceedLimit, FailScan, CompareTuple
<1>6. CASE UNCHANGED allVars
  BY <1>6 DEF allVars
<1> QED
  BY <1>1, <1>2, <1>3, <1>4, <1>5, <1>6 DEF LedgerNext, Scan, SharedNext, Next

\* The ledger uses the outbox as the outbox is meant to be used: whatever is proved
\* of the outbox holds of the one inside it.
THEOREM LedgerUsesOutbox == LedgerSpec => SharedSpec
<1>1. LedgerInit => Init
  BY DEF LedgerInit
<1> QED
  BY <1>1, LedgerInvariant, LedgerStep, PTL DEF LedgerSpec, SharedSpec

\* No change of a grant is lost: its projection is done at least once, or given up.
THEOREM LedgerKeepsPromise == LedgerSpec => ImplementsAtLeastOnce
BY LedgerUsesOutbox, SharedRefinement, PTL

\* A projection is given up only after MaxAttempts failures of the revision the
\* grant has, although its failures are recorded in three statements.
THEOREM GivenUpIsExhausted == LedgerSpec => []DeadLetterIsExhausted
<1>1. LedgerInv => DeadLetterIsExhausted
  BY DEF LedgerInv, IInv
<1> QED
  BY <1>1, LedgerInvariant, PTL

\* The attempts of a projection count its failures, but for faults and takeovers.
THEOREM ProjectionBudgetIsExact == LedgerSpec => []RetryBudgetIsExact
BY LedgerUsesOutbox, SharedBudgetIsExact, PTL
=============================================================================
