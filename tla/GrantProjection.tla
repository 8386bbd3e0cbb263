-------------------------- MODULE GrantProjection ---------------------------
(***************************************************************************)
(* The grants of modules/authorization and their projection to OpenFGA.    *)
(*                                                                         *)
(* PostgreSQL holds the desired state of every grant.  A transaction that  *)
(* changes it also upserts the grant's job in the outbox; a worker then    *)
(* writes or deletes the grant's tuple in OpenFGA, verifies it and marks   *)
(* the projection applied.  A nightly scan compares ledger and tuples and  *)
(* enqueues what has drifted.  The outbox is module Outbox, with a grant   *)
(* for a key: every action below takes one of its steps, or none.          *)
(*                                                                         *)
(* A grant stands for one (subject, role, scope), so NoGrant is a          *)
(* combination nobody was ever granted.                                    *)
(***************************************************************************)
EXTENDS Outbox, GrantRow, Sequences

CONSTANTS
    Provider,       \* grants of super_admin, owned by Casdoor; Key names the grants
    RepairLimit,    \* projectionReconciliationRepairLimit
    NoPayload,
    MaxMutations,   \* bound: changes by administrators and Casdoor, hasty scans
    MaxErrors,      \* bound: failed calls to PostgreSQL and OpenFGA
    MaxLate         \* bound: OpenFGA writes given up while in flight

Payload == [grant : Key, revision : Nat, desired : Desired]

ASSUME GrantAssumption ==
    /\ IsFiniteSet(Key)
    /\ Provider \subseteq Key
    /\ RepairLimit \in Nat
    /\ NoPayload \notin Payload
    /\ MaxMutations \in Nat
    /\ MaxErrors \in Nat
    /\ MaxLate \in Nat

VARIABLES
    grant,      \* Key -> Grant, the table
    payload,    \* Key -> payloads, indexed by the outbox revision that carried them
    tuple,      \* Key -> the direct tuple exists in OpenFGA
    inFlight,   \* writes and deletes OpenFGA may still perform for nobody
    step,       \* Worker -> where it is in its handler or in a terminal failure
    seen,       \* Worker -> the payload a terminal failure read, or NoPayload
    scan,       \* the nightly reconciliation and what it knows
    verified,   \* history: Key -> revisions whose tuple a handler call verified
    since,      \* history: Key -> revision of the latest insert or restore
    mutations,  \* history: what MaxMutations bounds
    errors,     \* history: what MaxErrors bounds
    late        \* history: what MaxLate bounds

ledgerVars == <<grant, payload, since>>
openFGA == <<tuple, inFlight, late>>
allVars == <<vars, ledgerVars, openFGA, step, seen, scan, verified, mutations, errors>>

Step == {"none", "list", "write", "delete", "verify", "apply", "terminal", "markFailed"}
Op == [grant : Key, op : {"write", "delete"}]
NoScan == [on |-> FALSE, todo |-> {}, drifted |-> {}]

LedgerInit ==
    /\ Init
    /\ grant = [g \in Key |-> NoGrant]
    /\ payload = [g \in Key |-> <<>>]
    /\ tuple = [g \in Key |-> FALSE]
    /\ inFlight = {}
    /\ step = [w \in Worker |-> "none"]
    /\ seen = [w \in Worker |-> NoPayload]
    /\ scan = NoScan
    /\ verified = [g \in Key |-> {}]
    /\ since = [g \in Key |-> 0]
    /\ mutations = 0
    /\ errors = 0
    /\ late = 0
-----------------------------------------------------------------------------
(* The ledger: administrators, and Casdoor's flag at every login.          *)

\* One transaction: the grants that "new" is defined on become what it says and
\* enqueueProjectionTx upserts their jobs.
Mutate(new) ==
    /\ Upsert(DOMAIN new)
    /\ grant' = [g \in Key |-> IF g \in DOMAIN new THEN new[g] ELSE grant[g]]
    /\ payload' = [g \in Key |-> IF g \in DOMAIN new
                                 THEN Append(payload[g], PayloadOf(g, new[g]))
                                 ELSE payload[g]]
    /\ UNCHANGED <<openFGA, step, seen, verified, errors>>

Demand ==
    /\ mutations < MaxMutations
    /\ mutations' = mutations + 1
    /\ UNCHANGED scan

Give(g) ==
    /\ grant[g].desired # "granted"
    /\ Mutate([h \in {g} |-> Granted(grant[h])])
    /\ since' = [since EXCEPT ![g] = grant[g].revision + 1]

TakeBack(g) ==
    /\ grant[g].desired = "granted"
    /\ Mutate([h \in {g} |-> Revoked(grant[h])])
    /\ UNCHANGED since

Redo(S) == Mutate([g \in S |-> Reconciled(grant[g])]) /\ UNCHANGED since

\* A granted grant is left as it is.
CreateOrRestoreGrant(g) == g \notin Provider /\ Demand /\ Give(g)

\* So is a revoked one.
RevokeGrant(g) == g \notin Provider /\ Demand /\ TakeBack(g)

Existing == {g \in Key : grant[g].desired # "none"}

ReconcileGrant(g) == g \in Existing /\ Demand /\ Redo({g})

ReconcileAll == Existing # {} /\ Demand /\ Redo(Existing)

\* The flag was looked up before the transaction began and may be any.
SyncCasdoorOrganizationAdmin(g, admin) ==
    /\ g \in Provider
    /\ Demand
    /\ \/ admin /\ Give(g)
       \/ ~admin /\ TakeBack(g)
       \/ /\ grant[g].desired = (IF admin THEN "granted" ELSE "revoked")
          /\ grant[g].projection = "failed"
          /\ Redo({g})
-----------------------------------------------------------------------------
(* The handler, processProjectionJob.                                      *)

Handling(w, at) == pc[w] = "handling" /\ step[w] = at

GrantOf(w) == current[w].key
PayloadFor(w) == payload[GrantOf(w)][current[w].rev]
Wanted(w) == PayloadFor(w).desired = "granted"

Goto(w, next) == step' = [step EXCEPT ![w] = next]

\* The payload is not of the grant's revision any more: nothing to do.
SkipStale(w) ==
    /\ Handling(w, "none")
    /\ ~Matches(grant[GrantOf(w)], PayloadFor(w))
    /\ HandlerSucceeds(w)
    /\ UNCHANGED <<ledgerVars, openFGA, step, seen, scan, verified, mutations, errors>>

GetGrant(w) ==
    /\ Handling(w, "none")
    /\ Matches(grant[GrantOf(w)], PayloadFor(w))
    /\ Goto(w, IF Wanted(w) THEN "list" ELSE "delete")
    /\ UNCHANGED <<vars, ledgerVars, openFGA, seen, scan, verified, mutations, errors>>

\* WriteMissingTuples reads first and writes what is missing.
ReadTuples(w) ==
    /\ Handling(w, "list")
    /\ Goto(w, IF tuple[GrantOf(w)] THEN "verify" ELSE "write")
    /\ UNCHANGED <<vars, ledgerVars, openFGA, seen, scan, verified, mutations, errors>>

\* OpenFGA refuses to write a tuple that exists by now.
WriteTuples(w) ==
    /\ Handling(w, "write")
    /\ \/ /\ ~tuple[GrantOf(w)]
          /\ tuple' = [tuple EXCEPT ![GrantOf(w)] = TRUE]
          /\ Goto(w, "verify")
          /\ UNCHANGED vars
       \/ /\ tuple[GrantOf(w)]
          /\ HandlerFails(w)
          /\ Goto(w, "none")
          /\ UNCHANGED tuple
    /\ UNCHANGED <<ledgerVars, inFlight, late, seen, scan, verified, mutations, errors>>

DeleteTuples(w) ==
    /\ Handling(w, "delete")
    /\ tuple' = [tuple EXCEPT ![GrantOf(w)] = FALSE]
    /\ Goto(w, "verify")
    /\ UNCHANGED <<vars, ledgerVars, inFlight, late, seen, scan, verified, mutations, errors>>

\* A write or delete that nobody waits for any more is still on its way.
Detach(w) ==
    /\ step[w] \in {"write", "delete"}
    /\ late < MaxLate
    /\ late' = late + 1
    /\ inFlight' = inFlight \cup {[grant |-> GrantOf(w), op |-> step[w]]}
    /\ UNCHANGED tuple

\* fga.DefaultWriteTimeout elapses, or the worker's context is cancelled.
TimeOut(w) ==
    /\ pc[w] = "handling"
    /\ Detach(w)
    /\ HandlerFails(w)
    /\ Goto(w, "none")
    /\ UNCHANGED <<ledgerVars, seen, scan, verified, mutations, errors>>

Land(o) ==
    /\ o \in inFlight
    /\ inFlight' = inFlight \ {o}
    /\ tuple' = [tuple EXCEPT ![o.grant] = o.op = "write"]
    /\ UNCHANGED <<vars, ledgerVars, late, step, seen, scan, verified, mutations, errors>>

TupleExists(w) ==
    /\ Handling(w, "verify")
    /\ \/ /\ tuple[GrantOf(w)] = Wanted(w)
          /\ verified' = [verified EXCEPT ![GrantOf(w)] = @ \cup {PayloadFor(w).revision}]
          /\ Goto(w, "apply")
          /\ UNCHANGED vars
       \/ /\ tuple[GrantOf(w)] # Wanted(w)
          /\ HandlerFails(w)
          /\ Goto(w, "none")
          /\ UNCHANGED verified
    /\ UNCHANGED <<ledgerVars, openFGA, seen, scan, mutations, errors>>

\* The handler returns nil whether or not the fence let the update through.
MarkProjectionApplied(w) ==
    /\ Handling(w, "apply")
    /\ grant' = [grant EXCEPT ![GrantOf(w)] = Applied(@, PayloadFor(w))]
    /\ HandlerSucceeds(w)
    /\ Goto(w, "none")
    /\ UNCHANGED <<payload, since, openFGA, seen, scan, verified, mutations, errors>>

\* Any of the calls above returns an error and has had no effect.
HandlerError(w) ==
    /\ errors < MaxErrors
    /\ errors' = errors + 1
    /\ HandlerFails(w)
    /\ Goto(w, "none")
    /\ UNCHANGED <<ledgerVars, openFGA, seen, scan, verified, mutations>>
-----------------------------------------------------------------------------
(* MarkProjectionJobFailure, in three statements when it is the last one.  *)

\* The row's payload is read by id alone, without the lock.
LoadTerminalPayload(w) ==
    /\ pc[w] = "failed"
    /\ ~cancelled[w]
    /\ step[w] = "none"
    /\ ReachedMaxAttempts(current[w])
    /\ seen' = [seen EXCEPT ![w] = payload[GrantOf(w)][Len(payload[GrantOf(w)])]]
    /\ Goto(w, "terminal")
    /\ UNCHANGED <<vars, ledgerVars, openFGA, scan, verified, mutations, errors>>

\* outbox.MarkJobFailure; ErrJobLockLost skips what follows.
MarkProjectionJobFailure(w) ==
    /\ pc[w] = "failed"
    /\ step[w] = (IF ReachedMaxAttempts(current[w]) THEN "terminal" ELSE "none")
    /\ MarkJobFailure(w)
    /\ \/ /\ step[w] = "terminal"
          /\ HoldsLock(row[GrantOf(w)], current[w].token)
          /\ Goto(w, "markFailed")
          /\ UNCHANGED seen
       \/ /\ step[w] = "none" \/ ~HoldsLock(row[GrantOf(w)], current[w].token)
          /\ Goto(w, "none")
          /\ seen' = [seen EXCEPT ![w] = NoPayload]
    /\ UNCHANGED <<ledgerVars, openFGA, scan, verified, mutations, errors>>

FinishFailure(w) ==
    /\ step[w] = "markFailed"
    /\ Goto(w, "none")
    /\ seen' = [seen EXCEPT ![w] = NoPayload]
    /\ UNCHANGED <<vars, payload, since, openFGA, scan, verified, mutations>>

MarkProjectionFailed(w) ==
    /\ FinishFailure(w)
    /\ grant' = [grant EXCEPT ![seen[w].grant] = Failed(@, seen[w])]
    /\ UNCHANGED errors

\* Its transaction fails: the row is marked and the grant is not.
LoseProjectionFailed(w) ==
    /\ FinishFailure(w)
    /\ errors < MaxErrors
    /\ errors' = errors + 1
    /\ UNCHANGED grant
-----------------------------------------------------------------------------
(* The steps of the worker that only the outbox sees.                      *)

Keep == UNCHANGED <<ledgerVars, openFGA, scan, verified, mutations, errors>>

Poll(w) ==
    /\ step[w] = "none"
    /\ \/ MarkJobDone(w) \/ AbandonBatch(w) \/ Exit(w) \/ Start(w)
       \/ \E j \in batch[w] : StartJob(w, j) \/ MarkJobAbandoned(w, j)
    /\ UNCHANGED <<step, seen>>
    /\ Keep

ClaimProjectionJobs(w, S, t) ==
    /\ step[w] = "none"
    /\ Claim(w, S, t)
    /\ UNCHANGED <<step, seen>>
    /\ Keep

\* Loading the terminal payload may be what fails.
LoseProjectionMark(w) ==
    /\ step[w] \in {"none", "terminal"}
    /\ LoseMark(w) \/ \E j \in batch[w] : LoseAbandon(w, j)
    /\ Goto(w, "none")
    /\ seen' = [seen EXCEPT ![w] = NoPayload]
    /\ Keep

\* A terminal failure does not look at the context again: a cancellation in the
\* middle of it counts from its end on.
ShutdownProjection(w) ==
    /\ step[w] # "terminal"
    /\ Shutdown(w)
    /\ UNCHANGED <<step, seen>>
    /\ Keep

CrashProjection(w) ==
    /\ Crash(w)
    /\ Goto(w, "none")
    /\ seen' = [seen EXCEPT ![w] = NoPayload]
    /\ Detach(w) \/ UNCHANGED openFGA
    /\ UNCHANGED <<ledgerVars, scan, verified, mutations, errors>>
-----------------------------------------------------------------------------
(* The nightly scan, ReconcileProjectionDrift.                             *)

With(projection) == {g \in Key : grant[g].projection = projection}

\* Mutant of ListGrants: a pending grant is trusted to have a job.
ListGrantsButPending(Old) ==
    /\ ~scan.on
    /\ Old \subseteq With("pending")
    /\ scan' = [on      |-> TRUE,
                todo    |-> {[grant |-> g, want |-> grant[g].desired = "granted"] :
                                g \in With("applied")},
                drifted |-> With("failed")]
    /\ UNCHANGED <<vars, ledgerVars, openFGA, step, seen, verified, mutations, errors>>

\* ListGrantsForReconciliation and the grants that need no look at OpenFGA.
\* "Old" are the pending grants whose updated_at is ten minutes back; a scan
\* that takes one whose job is still to be done uses up a mutation.
ListGrants(Old) ==
    /\ ~scan.on
    /\ Old \subseteq With("pending")
    /\ mutations' = mutations + Cardinality({g \in Old : row[g].status # "dead_letter"})
    /\ mutations' <= MaxMutations
    /\ scan' = [on      |-> TRUE,
                todo    |-> {[grant |-> g, want |-> grant[g].desired = "granted"] :
                                g \in With("applied")},
                drifted |-> With("failed") \cup Old]
    /\ UNCHANGED <<vars, ledgerVars, openFGA, step, seen, verified, errors>>

CompareTuple(t) ==
    /\ t \in scan.todo
    /\ scan' = [scan EXCEPT !.todo = @ \ {t},
                            !.drifted = IF tuple[t.grant] # t.want THEN @ \cup {t.grant} ELSE @]
    /\ UNCHANGED <<vars, ledgerVars, openFGA, step, seen, verified, mutations, errors>>

\* ReconcileGrantsAsSystem, with what the scan saw.
RequeueDrifted ==
    /\ scan.on
    /\ scan.todo = {}
    /\ Cardinality(scan.drifted) <= RepairLimit
    /\ Redo(scan.drifted)
    /\ scan' = NoScan
    /\ UNCHANGED mutations

\* ErrReconciliationLimit: nothing is repaired.
ExceedLimit ==
    /\ Cardinality(scan.drifted) > RepairLimit
    /\ scan' = NoScan
    /\ UNCHANGED <<vars, ledgerVars, openFGA, step, seen, verified, mutations, errors>>

FailScan ==
    /\ scan.on
    /\ errors < MaxErrors
    /\ errors' = errors + 1
    /\ scan' = NoScan
    /\ UNCHANGED <<vars, ledgerVars, openFGA, step, seen, verified, mutations>>
-----------------------------------------------------------------------------
Change ==
    \/ \E g \in Key :
          \/ CreateOrRestoreGrant(g) \/ RevokeGrant(g) \/ ReconcileGrant(g)
          \/ \E admin \in BOOLEAN : SyncCasdoorOrganizationAdmin(g, admin)
    \/ ReconcileAll

ClaimOfGrant(g) ==
    \E w \in Worker, S \in SUBSET Key, t \in Token : g \in S /\ ClaimProjectionJobs(w, S, t)

Project(w) ==
    \/ SkipStale(w) \/ GetGrant(w) \/ ReadTuples(w) \/ WriteTuples(w) \/ DeleteTuples(w)
    \/ TupleExists(w) \/ MarkProjectionApplied(w)
    \/ LoadTerminalPayload(w) \/ MarkProjectionJobFailure(w) \/ MarkProjectionFailed(w)
    \/ Poll(w)

DisturbProjection(w) ==
    \/ HandlerError(w) \/ TimeOut(w) \/ LoseProjectionFailed(w) \/ LoseProjectionMark(w)
    \/ ShutdownProjection(w) \/ CrashProjection(w)

Scan == RequeueDrifted \/ ExceedLimit \/ \E t \in scan.todo : CompareTuple(t)

LedgerNext ==
    \/ Change
    \/ \E g \in Key : ClaimOfGrant(g)
    \/ \E w \in Worker : Project(w) \/ DisturbProjection(w)
    \/ \E o \in inFlight : Land(o)
    \/ \E Old \in SUBSET With("pending") : ListGrants(Old)
    \/ Scan \/ FailScan

LedgerSpec == LedgerInit /\ [][LedgerNext]_allVars

\* A grant left pending by a given-up job is found old by some nightly scan.
ListForgotten == ListGrants({g \in With("pending") : row[g].status = "dead_letter"})

LedgerFairness ==
    /\ \A w \in Worker : WF_allVars(Project(w))
    /\ \A g \in Key : SF_allVars(ClaimOfGrant(g))
    /\ WF_allVars(\E o \in inFlight : Land(o))
    /\ WF_allVars(Scan)
    /\ SF_allVars(ListForgotten)

FairLedgerSpec == LedgerSpec /\ LedgerFairness
-----------------------------------------------------------------------------
LedgerTypeOK ==
    /\ TypeOK
    /\ grant \in [Key -> Grant]
    /\ payload \in [Key -> Seq(Payload)]
    /\ tuple \in [Key -> BOOLEAN]
    /\ inFlight \subseteq Op
    /\ step \in [Worker -> Step]
    /\ seen \in [Worker -> Payload \cup {NoPayload}]
    /\ scan \in [on : BOOLEAN, todo : SUBSET [grant : Key, want : BOOLEAN], drifted : SUBSET Key]
    /\ verified \in [Key -> SUBSET Nat]
    /\ since \in [Key -> Nat]
    /\ {mutations, errors, late} \subseteq Nat

\* A grant whose projection is outstanding or failed never has a completed job:
\* whatever was superseded, retried or taken over, the outbox still owes it a
\* handler call or has given it up where the nightly scan will find it.
NothingIsStranded ==
    \A g \in Key : grant[g].projection \in {"pending", "failed"} => row[g].status # "completed"

\* A projection counts as applied only at a revision for which a handler call saw
\* OpenFGA agree: a late worker never applies the revision that superseded its own.
AppliedIsVerified ==
    \A g \in Key : grant[g].projection = "applied" => grant[g].revision \in verified[g]

\* A role is in effect only if its tuple was verified since it was last granted:
\* no revoke, restore, repair or slow worker in between carries an old activation
\* over.
AccessIsVerified ==
    \A g \in Key : GivesAccess(grant[g]) => \E n \in verified[g] : n >= since[g]

\* An applied grant's tuple agrees with the ledger, unless a write arrived after
\* the worker had given it up or two workers had the job at once.
TupleAgrees ==
    late = 0 /\ overruns = 0 =>
        \A g \in Key : grant[g].projection = "applied" =>
            tuple[g] = (grant[g].desired = "granted")

\* A role in effect is lost by a revocation only: no failure, repair or restore
\* step takes it away.
AccessEndsByRevocation ==
    [][\A g \in Key : GivesAccess(grant[g]) /\ ~GivesAccess(grant'[g])
                          => grant'[g].desired = "revoked"]_allVars

\* A grant is marked failed only after a handler call for its revision failed.
FailureIsOfThisRevision ==
    \A g \in Key : grant[g].projection = "failed" => failures[g] > 0

\* Once changes and errors stop, every projection is applied and OpenFGA agrees
\* with the ledger for good: workers, replays and the nightly scan repair what
\* crashes, lost marks and late writes left behind.
Converges ==
    <>[](\A g \in Existing :
            grant[g].projection = "applied" /\ tuple[g] = (grant[g].desired = "granted"))
-----------------------------------------------------------------------------
(* The inductive invariant behind them.                                    *)

\* The outbox row of a grant carries the grant's revision and desired state.
LedgersAgree ==
    \A g \in Key :
        LET n == row[g].revision
        IN /\ grant[g].revision = n
           /\ Len(payload[g]) = n
           /\ n > 0 => payload[g][n] = PayloadOf(g, grant[g])
           /\ \A i \in 1 .. n : payload[g][i].revision = i
           /\ since[g] <= n
           /\ grant[g].projection = "none" <=> grant[g].desired = "none"

\* A worker is in its handler or in a terminal failure only when the outbox lets it.
StepsFit ==
    \A w \in Worker :
        /\ step[w] \in {"list", "write", "delete", "verify", "apply"} => pc[w] = "handling"
        /\ step[w] = "terminal" => pc[w] = "failed"
        /\ step[w] \in {"terminal", "markFailed"} => seen[w] \in Payload

\* What a handler call knows of the tuple and its payload.
HandlersAreSound ==
    \A w \in Worker :
        /\ step[w] \in {"list", "write"} => Wanted(w)
        /\ step[w] = "delete" => ~Wanted(w)
        /\ step[w] = "apply" => PayloadFor(w).revision \in verified[GrantOf(w)]
        /\ pc[w] = "succeeded" /\ current[w].rev = row[GrantOf(w)].revision
               => grant[GrantOf(w)].projection = "applied"

\* The scan is about grants that exist.
ScanIsOfGrants == scan.drifted \cup {t.grant : t \in scan.todo} \subseteq Existing

\* Without a takeover, nobody applies a grant whose older payload is still claimed.
ClaimedIsOutstanding ==
    overruns = 0 =>
        \A w \in Worker : \A j \in batch[w] :
            j.rev < row[j.key].revision => grant[j.key].projection # "applied"

\* Without late writes and takeovers, what was verified stays so until it is applied.
VerifiedStays ==
    /\ late = 0 => inFlight = {}
    /\ late = 0 /\ overruns = 0 =>
           \A w \in Worker : step[w] = "apply" => tuple[GrantOf(w)] = Wanted(w)

LedgerInv ==
    /\ IInv
    /\ LedgerTypeOK
    /\ LedgersAgree
    /\ StepsFit
    /\ HandlersAreSound
    /\ ScanIsOfGrants
    /\ ClaimedIsOutstanding
    /\ VerifiedStays
    /\ NothingIsStranded
    /\ AppliedIsVerified
    /\ AccessIsVerified
    /\ TupleAgrees
=============================================================================
