------------------------------ MODULE GrantRow ------------------------------
(***************************************************************************)
(* One row of authorization_grants and the statements of the authorization *)
(* repository that change it, each as a function from a row to a row.      *)
(*                                                                         *)
(* activated_at matters only as set or NULL.  Reasons, actors and the      *)
(* other time stamps are left out, and so are the audit events written in  *)
(* the same transactions.                                                  *)
(***************************************************************************)
EXTENDS Naturals

Desired == {"granted", "revoked"}

Grant == [desired    : Desired \cup {"none"},
          projection : {"none", "pending", "applied", "failed"},
          revision   : Nat,
          activated  : BOOLEAN]

\* There is no row for the role and scope.
NoGrant == [desired |-> "none", projection |-> "none", revision |-> 0, activated |-> FALSE]

\* The outbox payload (ProjectionPayload) that enqueueProjectionTx makes of the
\* row of grant g.
PayloadOf(g, r) == [grant |-> g, revision |-> r.revision, desired |-> r.desired]

\* The fence in front of every projection update: WHERE revision = $2 AND
\* desired_state = $3.
Matches(r, p) == r.revision = p.revision /\ r.desired = p.desired

\* Mutant of Granted: a restored grant keeps its old activation.
GrantedKeepingActivation(r) == [r EXCEPT !.desired = "granted", !.projection = "pending",
                                         !.revision = @ + 1]

\* insertGrantTx and restoreGrantTx: the grant has to be activated (again).
Granted(r) == [desired |-> "granted", projection |-> "pending",
               revision |-> r.revision + 1, activated |-> FALSE]

\* revokeGrantTx: activated_at stays.
Revoked(r) == [r EXCEPT !.desired = "revoked", !.projection = "pending", !.revision = @ + 1]

\* Mutants of Reconciled: a repair keeps the revision; it starts from an unverified
\* grant.
ReconciledInPlace(r) == [r EXCEPT !.projection = "pending"]
ReconciledAnew(r) == [r EXCEPT !.projection = "pending", !.revision = @ + 1, !.activated = FALSE]

\* reconcileGrantTx: a new revision of the same desired state.
Reconciled(r) == [r EXCEPT !.projection = "pending", !.revision = @ + 1]

\* Mutant of Applied: without the fence.
AppliedUnfenced(r, p) ==
    [r EXCEPT !.projection = "applied", !.activated = @ \/ r.desired = "granted"]

\* MarkProjectionApplied, of a payload.
Applied(r, p) ==
    IF Matches(r, p) /\ r.projection # "applied"
    THEN [r EXCEPT !.projection = "applied", !.activated = @ \/ r.desired = "granted"]
    ELSE r

\* Mutant of Failed: an applied grant is failed too.
FailedOverApplied(r, p) == IF Matches(r, p) THEN [r EXCEPT !.projection = "failed"] ELSE r

\* MarkProjectionFailed, of a payload.
Failed(r, p) ==
    IF Matches(r, p) /\ r.projection # "applied"
    THEN [r EXCEPT !.projection = "failed"]
    ELSE r

\* The rows ResolveAccessSnapshotByUserID counts: the role is in effect.
GivesAccess(r) == r.desired = "granted" /\ r.activated
=============================================================================
