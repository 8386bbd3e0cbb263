---------------------------- MODULE Eligibility ----------------------------
(***************************************************************************)
(* A student's eligibility as modules/studentverification keeps it: the    *)
(* revision that every change of the credentials raises, and the events    *)
(* about it in student_verification_event_outbox, which several server     *)
(* processes publish to one consumer.                                      *)
(*                                                                         *)
(* Whether the student qualifies is derived from the credentials on each   *)
(* reading; of the credentials only that answer is kept.  One user and one *)
(* school are enough: nothing relates two.                                 *)
(* Back-off and leases are not timed: a pending event may be due, and a    *)
(* lease may have lapsed, at any time.  Expiry of a credential, which      *)
(* raises no revision, is left out.                                        *)
(***************************************************************************)
EXTENDS Naturals, FiniteSets

CONSTANTS
    Publisher,         \* processes that run runEligibilityEventPublisher
    Nobody,            \* claim_owner is NULL
    MaxEventAttempts,  \* eligibilityOutboxMaxAttempts
    MaxRevision,       \* bound: changes of the credentials
    MaxFaults          \* bound: failures and crashes

ASSUME EligibilityAssumption ==
    /\ Nobody \notin Publisher
    /\ MaxEventAttempts \in Nat \ {0}
    /\ MaxRevision \in Nat
    /\ MaxFaults \in Nat

VARIABLES
    revision,   \* student_eligibility_revisions, 0 if there is no row
    qualified,  \* whether the credentials, as they are now, qualify the student
    event,      \* revision -> row of student_verification_event_outbox
    batch,      \* Publisher -> events it has claimed and not yet begun
    current,    \* Publisher -> the event it is handling, 0 if none
    faults

eligibilityVars == <<revision, qualified>>
publisherVars == <<event, batch, current>>

Revision == 1..MaxRevision
Event == [status   : {"absent", "pending", "claimed", "published", "dead_letter"},
          owner    : Publisher \cup {Nobody},
          attempts : 0..MaxEventAttempts]

EligibilityInit ==
    /\ revision = 0
    /\ qualified = FALSE
    /\ event = [r \in Revision |-> [status |-> "absent", owner |-> Nobody, attempts |-> 0]]
    /\ batch = [p \in Publisher |-> {}]
    /\ current = [p \in Publisher |-> 0]
    /\ faults = 0

\* GetEligibilityRevision.  A student without a row is at revision 1, as is one whose
\* credentials have changed once.
RevisionRead == IF revision = 0 THEN 1 ELSE revision

Fault ==
    /\ faults < MaxFaults
    /\ faults' = faults + 1

\* The credentials change: a transaction that ends in BumpEligibilityRevisionTx.  The
\* student may qualify as before, by another credential.
Bump(qualifies) ==
    LET r == revision + 1
    IN  /\ r <= MaxRevision
        /\ revision' = r
        /\ qualified' = qualifies
        /\ event' = [event EXCEPT ![r].status = "pending"]
        /\ UNCHANGED <<batch, current, faults>>
-----------------------------------------------------------------------------
(* processEligibilityOutboxBatch.                                          *)

\* Mutant of Open: a claim is for ever.
OpenWhenPending(r) == event[r].status = "pending"

Open(r) == event[r].status \in {"pending", "claimed"}

\* Mutant of Exhausted: one attempt too many.
ExhaustedLate(r) == event[r].attempts > MaxEventAttempts

Exhausted(r) == event[r].attempts >= MaxEventAttempts

\* ClaimEligibilityOutboxEvents.  Its first part gives up every event that has used its
\* attempts, also one whose last call is under way.
ClaimEvents(p, S) ==
    /\ batch[p] = {} /\ current[p] = 0
    /\ \E r \in Revision : r \in S \/ (Open(r) /\ Exhausted(r))
    /\ \A r \in S : Open(r) /\ ~Exhausted(r)
    /\ event' = [r \in Revision |->
          CASE r \in S                -> [status |-> "claimed", owner |-> p,
                                          attempts |-> event[r].attempts + 1]
            [] Open(r) /\ Exhausted(r) -> [event[r] EXCEPT !.status = "dead_letter",
                                                           !.owner = Nobody]
            [] OTHER                  -> event[r]]
    /\ batch' = [batch EXCEPT ![p] = S]
    /\ UNCHANGED <<eligibilityVars, current, faults>>

\* The consumer is called for the next event of the batch.
Take(p, r) ==
    /\ current[p] = 0
    /\ r \in batch[p]
    /\ batch' = [batch EXCEPT ![p] = @ \ {r}]
    /\ current' = [current EXCEPT ![p] = r]
    /\ UNCHANGED <<eligibilityVars, event, faults>>

Owns(p, r) == event[r].status = "claimed" /\ event[r].owner = p

\* The statement that ends the handling of an event; an error is logged only.
Settle(p, status) ==
    /\ \/ /\ Owns(p, current[p])
          /\ event' = [event EXCEPT ![current[p]].status = status, ![current[p]].owner = Nobody]
          /\ UNCHANGED faults
       \/ ~Owns(p, current[p]) /\ UNCHANGED <<event, faults>>
       \/ Fault /\ UNCHANGED event
    /\ current' = [current EXCEPT ![p] = 0]
    /\ UNCHANGED <<eligibilityVars, batch>>

CompleteEvent(p) == Settle(p, "published")

\* The attempts that the publisher remembers are the row's as long as it owns the row.
RetryEvent(p) == Settle(p, IF Exhausted(current[p]) THEN "dead_letter" ELSE "pending")

\* The process dies; it comes back with another claim_owner, but the old name does no harm
\* to anyone once the batch is forgotten.
Abort(p) ==
    /\ Fault
    /\ batch' = [batch EXCEPT ![p] = {}]
    /\ current' = [current EXCEPT ![p] = 0]
    /\ UNCHANGED <<eligibilityVars, event>>
=============================================================================
