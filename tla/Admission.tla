----------------------------- MODULE Admission -----------------------------
(***************************************************************************)
(* A member's admission session and the release action that lifts the mute *)
(* in the group: modules/admission over PostgreSQL, driven by the student's *)
(* eligibility (Eligibility), by requests of the user and by the bots.     *)
(*                                                                         *)
(* An evaluation reads the credentials and then the revision, in two       *)
(* statements, and is applied later in a transaction of its own.  That     *)
(* transaction runs at READ COMMITTED: it supersedes the release action    *)
(* first and looks at the session afterwards, so it is two steps here, and *)
(* holds the lock of the action's row from the one to the other.  All      *)
(* other transactions are one step.                                        *)
(*                                                                         *)
(* One session, of one user, is modelled: policies, deadlines, reminders   *)
(* and kicks only matter for what may end the session.  The status         *)
(* pending_manual_review is left out: no handler sets it.                  *)
(***************************************************************************)
EXTENDS Eligibility

CONSTANTS
    Request,      \* requests of the user or a bot that evaluate, in progress at one time
    MaxAttempts   \* admissionBotActionMaxAttempts

Evaluator == Publisher \cup Request

ASSUME AdmissionAssumption ==
    /\ Nobody \notin Request
    /\ Publisher \cap Request = {}
    /\ MaxAttempts \in Nat \ {0}

VARIABLES
    session,     \* the row of group_admission_sessions
    action,      \* its release row in admission_bot_action_outbox
    lock,        \* the evaluator whose transaction has updated the action's row
    at,          \* Evaluator -> the step it takes next
    task,        \* Evaluator -> what it evaluates for
    decision,    \* Evaluator -> StudentEligibilityDecision
    prepared,    \* dispatch attempts that ClaimQueuedAdmissionActions prepares
    sent,        \* dispatch attempts a bot was given
    void,        \* history: attempts older than the last decision against the session
    admittedBy,  \* history: the attempt whose report admitted the member, 0 if none
    misled,      \* history: the session follows a decision that was wrong when applied
    overtaken    \* history: an older decision has superseded the action of a newer one

rowVars == <<session, action>>
evaluatorVars == <<at, task, decision, lock>>
botVars == <<prepared, sent>>
historyVars == <<void, admittedBy, misled, overtaken>>
vars == <<eligibilityVars, publisherVars, faults, rowVars, evaluatorVars, botVars, historyVars>>

Attempt == 1..MaxAttempts
Decision == [eligible : BOOLEAN,
             read     : 0..MaxRevision,      \* history: the revision the credentials were of
             revision : 0..(MaxRevision + 1)]
NoDecision == [eligible |-> FALSE, read |-> 0, revision |-> 0]

\* A session without a revision has 0 here: NULL and 0 are below every decision.
Session == [status   : {"absent", "awaiting_account_link", "awaiting_requirements",
                        "action_pending", "admitted", "ended"},
            revision : 0..(MaxRevision + 1)]
Action == [status   : {"absent", "pending", "dispatched", "succeeded", "failed", "dead_letter",
                       "stale"},
           attempts : 0..MaxAttempts,
           revision : 0..(MaxRevision + 1)]

Init ==
    /\ EligibilityInit
    /\ session = [status |-> "absent", revision |-> 0]
    /\ action = [status |-> "absent", attempts |-> 0, revision |-> 0]
    /\ lock = Nobody
    /\ at = [p \in Evaluator |-> "idle"]
    /\ task = [p \in Evaluator |-> "none"]
    /\ decision = [p \in Evaluator |-> NoDecision]
    /\ prepared = {} /\ sent = {} /\ void = {}
    /\ admittedBy = 0
    /\ misled = FALSE /\ overtaken = FALSE

\* Sessions with a user and without cancelled_at, which every end sets.
Deciding == {"awaiting_requirements", "action_pending"}
Waiting == {"awaiting_account_link", "awaiting_requirements"}

Begin(p, what) ==
    /\ at[p] = "idle"
    /\ at' = [at EXCEPT ![p] = "reading"]
    /\ task' = [task EXCEPT ![p] = what]
    /\ UNCHANGED <<decision, lock>>

GoTo(p, to) ==
    /\ at' = [at EXCEPT ![p] = to]
    /\ UNCHANGED <<task, decision, lock>>

\* The evaluation is over, its transaction committed or rolled back.
Leave(p, to) ==
    /\ at' = [at EXCEPT ![p] = to]
    /\ task' = [task EXCEPT ![p] = IF to = "idle" THEN "none" ELSE @]
    /\ decision' = [decision EXCEPT ![p] = NoDecision]
    /\ lock' = IF lock = p THEN Nobody ELSE lock

Succeed(p) == Leave(p, IF task[p] = "event" THEN "completing" ELSE "idle")

\* Mutant of Fail: the error of an evaluation is swallowed.
FailSilently(p) == Succeed(p)

Fail(p) == Leave(p, IF task[p] = "event" THEN "retrying" ELSE "idle")
-----------------------------------------------------------------------------
(* Evaluations.                                                            *)

\* ReevaluateStudentEligibility, called by a publisher.  Its check of the minimum revision
\* always succeeds: the event was committed with the revision.
Consume(p, r) ==
    /\ Take(p, r)
    /\ Begin(p, "event")
    /\ UNCHANGED <<rowVars, botVars, historyVars>>

\* GetAdmissionMe evaluates twice; the first evaluation only bounds the second.
GetAdmissionMe(p) ==
    /\ session.status \in Deciding
    /\ Begin(p, "me")
    /\ UNCHANGED <<eligibilityVars, publisherVars, faults, rowVars, botVars, historyVars>>

\* CreateBotSession for a QQ number that is bound to the user.
Join(p) ==
    /\ session.status = "absent"
    /\ \A q \in Request : task[q] # "join"
    /\ Begin(p, "join")
    /\ UNCHANGED <<eligibilityVars, publisherVars, faults, rowVars, botVars, historyVars>>

\* LinkTokenToUser locks the session until it commits.
Linking == \E q \in Request : task[q] = "link"
Link(p) ==
    /\ session.status = "awaiting_account_link"
    /\ ~Linking
    /\ Begin(p, "link")
    /\ UNCHANGED <<eligibilityVars, publisherVars, faults, rowVars, botVars, historyVars>>

\* EvaluateStudentEligibility.
ReadCredentials(p) ==
    /\ at[p] = "reading"
    /\ decision' = [decision EXCEPT ![p].eligible = qualified, ![p].read = revision]
    /\ at' = [at EXCEPT ![p] = "fencing"]
    /\ UNCHANGED <<eligibilityVars, publisherVars, faults, rowVars, task, lock, botVars, historyVars>>

ReadRevision(p) ==
    /\ at[p] = "fencing"
    /\ decision' = [decision EXCEPT ![p].revision = RevisionRead]
    /\ at' = [at EXCEPT ![p] = IF task[p] \in {"event", "me"} THEN "superseding" ELSE "committing"]
    /\ UNCHANGED <<eligibilityVars, publisherVars, faults, rowVars, task, lock, botVars, historyVars>>

\* A statement fails: the evaluation, or the transaction that applies it, is undone.
FailEvaluation(p) ==
    /\ at[p] \in {"reading", "fencing", "superseding", "deciding", "committing"}
    /\ Fault
    /\ Fail(p)
    /\ UNCHANGED <<eligibilityVars, publisherVars, rowVars, botVars, historyVars>>
-----------------------------------------------------------------------------
(* ApplyStudentEligibilityDecisionTx and the release action.               *)

\* supersedeReleaseActionsForEligibilityTx.
Supersedes(p) ==
    /\ action.status \in {"pending", "failed", "dispatched", "dead_letter"}
    /\ session.status \in Deciding
    /\ ~decision[p].eligible \/ action.revision # decision[p].revision

Supersede(p) ==
    /\ at[p] = "superseding"
    /\ \/ Supersedes(p) /\ lock = Nobody /\ lock' = p
       \/ ~Supersedes(p) /\ UNCHANGED lock
    /\ at' = [at EXCEPT ![p] = "deciding"]
    /\ UNCHANGED <<eligibilityVars, publisherVars, faults, rowVars, task, decision, botVars,
                   historyVars>>

\* The action as the transaction of p sees it.
Seen(p) == IF lock = p THEN [action EXCEPT !.status = "stale"] ELSE action

\* Mutant of Queued: an action that is queued again starts with a new budget.
QueuedAnew(a, r) == [status |-> "pending", attempts |-> 0, revision |-> r]

\* Mutant of Queued: a dispatched row keeps its revision.
QueuedBehind(a, r) == IF a.status = "dispatched" THEN a
                      ELSE [a EXCEPT !.status = "pending", !.revision = r]

\* QueueBotActionTx.  The attempts are kept; a dispatched row takes over the revision.
Queued(a, r) ==
    CASE a.status \in {"absent", "pending", "failed", "stale"}
                                 -> [a EXCEPT !.status = "pending", !.revision = r]
      [] a.status = "dispatched" -> [a EXCEPT !.revision = r]
      [] OTHER                   -> a

Published(r) == event[r].status = "published"

\* An event that will be published without another look at the session.
Consumed(r) ==
    \/ Published(r)
    \/ \E p \in Publisher : at[p] = "completing" /\ current[p] = r

\* A decision was wrong when it was applied, and the session could not tell: its credentials
\* and its revision are not of one instant, or a newer event has been consumed that left no
\* trace in the session.
Wrong(d) ==
    \/ d.read # d.revision
    \/ \E r \in Revision : r > d.revision /\ r > session.revision /\ Consumed(r)

\* The decision takes the session, and with it the dispatch that is under way, if any.
Grant(p) ==
    LET a == Seen(p)
    IN  /\ lock \in {p, Nobody}
        /\ session' = [status |-> "action_pending", revision |-> decision[p].revision]
        /\ action' = Queued(a, decision[p].revision)
        /\ void' = IF a.status = "dispatched" THEN void \ {a.attempts} ELSE void
        /\ overtaken' = FALSE

Refuse(p) ==
    /\ session' = [status |-> "awaiting_requirements", revision |-> decision[p].revision]
    /\ action' = Seen(p)
    /\ void' = sent \cup prepared
    /\ UNCHANGED overtaken

\* Mutant of Applies: a decision is applied whatever the session's revision.
AppliesAnyway(p) == session.status \in Deciding

Applies(p) == session.status \in Deciding /\ session.revision <= decision[p].revision

\* The rest of the transaction.  A decision older than the session's changes nothing but
\* the action it has superseded.
Decide(p) ==
    /\ at[p] = "deciding"
    /\ \/ Applies(p) /\ decision[p].eligible /\ Grant(p) /\ misled' = Wrong(decision[p])
       \/ Applies(p) /\ ~decision[p].eligible /\ Refuse(p) /\ misled' = Wrong(decision[p])
       \/ /\ ~Applies(p)
          /\ action' = Seen(p)
          /\ overtaken' = (overtaken \/ lock = p)
          /\ UNCHANGED <<session, void, misled>>
    /\ Succeed(p)
    /\ UNCHANGED <<eligibilityVars, publisherVars, faults, botVars, admittedBy>>

\* The end of LinkTokenToUser and of CreateBotSession: the session of a user who does not
\* qualify is left at its first step.  If another CreateBotSession came first, its session is
\* used, or cancelled for one that is not followed here.
CommitLink(p) ==
    /\ task[p] = "link"
    /\ \/ decision[p].eligible /\ Grant(p)
       \/ /\ ~decision[p].eligible
          /\ session' = [session EXCEPT !.status = "awaiting_requirements"]
          /\ UNCHANGED <<action, void, overtaken>>

CommitJoin(p) ==
    /\ task[p] = "join"
    /\ \/ session.status = "absent" /\ decision[p].eligible /\ Grant(p)
       \/ /\ session.status = "absent" /\ ~decision[p].eligible
          /\ session' = [session EXCEPT !.status = "awaiting_account_link"]
          /\ UNCHANGED <<action, void, overtaken>>
       \/ /\ session.status \in Waiting /\ decision[p].eligible
          /\ ~Linking
          /\ session' = [session EXCEPT !.status = "ended"]
          /\ UNCHANGED <<action, void, overtaken>>
       \/ /\ session.status # "absent"
          /\ session.status \in Waiting => ~decision[p].eligible
          /\ UNCHANGED <<rowVars, void, overtaken>>

CommitNew(p) ==
    /\ at[p] = "committing"
    /\ CommitLink(p) \/ CommitJoin(p)
    /\ misled' = IF session' = session THEN misled ELSE Wrong(decision[p])
    /\ Leave(p, "idle")
    /\ UNCHANGED <<eligibilityVars, publisherVars, faults, botVars, admittedBy>>

\* CreateBotSession for a number that is bound to nobody.
CreatePending ==
    /\ session.status = "absent"
    /\ session' = [session EXCEPT !.status = "awaiting_account_link"]
    /\ UNCHANGED <<eligibilityVars, publisherVars, faults, action, evaluatorVars, botVars, historyVars>>

\* The publisher ends the event.
Finish(p) ==
    /\ \/ at[p] = "completing" /\ CompleteEvent(p)
       \/ at[p] = "retrying" /\ RetryEvent(p)
    /\ Leave(p, "idle")
    /\ UNCHANGED <<rowVars, botVars, historyVars>>

\* The process of a publisher or of a request dies, and its transaction with it.
Crash(p) ==
    /\ at[p] # "idle" \/ (p \in Publisher /\ batch[p] # {})
    /\ \/ p \in Publisher /\ Abort(p)
       \/ p \in Request /\ Fault /\ UNCHANGED <<eligibilityVars, publisherVars>>
    /\ Leave(p, "idle")
    /\ UNCHANGED <<rowVars, botVars, historyVars>>
-----------------------------------------------------------------------------
(* Bots.                                                                   *)

\* Mutant of Live: a dispatch that is never reported is not claimed again.
Due == {"pending", "failed"}

Live == {"pending", "failed", "dispatched"}

\* The fence of claimDueBotActionsSQL and of RecordBotActionEvent.
Matches == session.status = "action_pending" /\ session.revision = action.revision

\* ClaimDueBotActions.  A dispatch that is not reported in time is claimed again.
ClaimAction ==
    /\ lock = Nobody
    /\ action.status \in Live
    /\ \/ /\ ~Matches
          /\ action' = [action EXCEPT !.status = "stale"]
          /\ UNCHANGED prepared
       \/ /\ Matches
          /\ action.attempts >= MaxAttempts
          /\ action' = [action EXCEPT !.status = "dead_letter"]
          /\ UNCHANGED prepared
       \/ /\ Matches
          /\ action.attempts < MaxAttempts
          /\ action' = [action EXCEPT !.status = "dispatched", !.attempts = @ + 1]
          /\ prepared' = prepared \cup {action.attempts + 1}
    /\ UNCHANGED <<eligibilityVars, publisherVars, faults, session, evaluatorVars, sent, historyVars>>

\* The claimed action is in the response.
Expose(n) ==
    /\ n \in prepared
    /\ prepared' = prepared \ {n}
    /\ sent' = sent \cup {n}
    /\ UNCHANGED <<eligibilityVars, publisherVars, faults, rowVars, evaluatorVars, historyVars>>

\* Mutant of Abandon: the claim is given back although the response may have gone out.
AbandonLate(n) ==
    /\ n \in prepared \cup sent
    /\ Fault
    /\ lock = Nobody
    /\ prepared' = prepared \ {n}
    /\ IF action.status = "dispatched" /\ action.attempts = n
       THEN action' = [action EXCEPT !.status = IF n <= 1 THEN "pending" ELSE "failed",
                                     !.attempts = n - 1]
       ELSE UNCHANGED action
    /\ UNCHANGED <<eligibilityVars, publisherVars, session, evaluatorVars, sent, historyVars>>

\* The preparation fails, and abandonBotActionClaims gives the attempt back; or this fails as
\* well, or the process dies.
Abandon(n) ==
    /\ n \in prepared
    /\ Fault
    /\ prepared' = prepared \ {n}
    /\ \/ /\ lock = Nobody
          /\ action.status = "dispatched" /\ action.attempts = n
          /\ action' = [action EXCEPT !.status = IF n <= 1 THEN "pending" ELSE "failed",
                                      !.attempts = n - 1]
          /\ void' = void \ {n}
       \/ UNCHANGED <<action, void>>
    /\ UNCHANGED <<eligibilityVars, publisherVars, session, evaluatorVars, sent, admittedBy, misled,
                   overtaken>>

\* RecordBotActionEvent: a bot reports, at any time and as often as it likes.
Report(n) ==
    /\ n \in sent
    /\ lock = Nobody
    /\ action.status = "dispatched" /\ action.attempts = n
    /\ \/ /\ ~Matches
          /\ action' = [action EXCEPT !.status = "stale"]
          /\ UNCHANGED <<session, admittedBy>>
       \/ /\ Matches
          /\ action' = [action EXCEPT !.status = IF n >= MaxAttempts THEN "dead_letter" ELSE "failed"]
          /\ UNCHANGED <<session, admittedBy>>
       \/ /\ Matches
          /\ action' = [action EXCEPT !.status = "succeeded"]
          /\ session' = [session EXCEPT !.status = "admitted"]
          /\ admittedBy' = n
    /\ UNCHANGED <<eligibilityVars, publisherVars, faults, evaluatorVars, botVars, void, misled,
                   overtaken>>

\* RecordBotEvent: a report for the session instead of a dispatch.
ReportSession ==
    /\ session.status = "action_pending"
    /\ session' = [session EXCEPT !.status = "admitted"]
    /\ UNCHANGED <<eligibilityVars, publisherVars, faults, action, evaluatorVars, botVars, historyVars>>

\* The member is kicked after a deadline, or the session is cancelled: it is expired or cancelled.
End ==
    /\ session.status \in Waiting
    /\ ~Linking
    /\ session' = [session EXCEPT !.status = "ended"]
    /\ UNCHANGED <<eligibilityVars, publisherVars, faults, action, evaluatorVars, botVars, historyVars>>
-----------------------------------------------------------------------------
Publish(p) ==
    \/ \E S \in SUBSET Revision : ClaimEvents(p, S)
           /\ at[p] = "idle" /\ UNCHANGED <<rowVars, evaluatorVars, botVars, historyVars>>
    \/ \E r \in Revision : Consume(p, r)
    \/ Finish(p)

Evaluate(p) ==
    \/ ReadCredentials(p) \/ ReadRevision(p) \/ Supersede(p) \/ Decide(p) \/ CommitNew(p)

Bot ==
    \/ ClaimAction
    \/ \E n \in Attempt : Expose(n) \/ Abandon(n) \/ Report(n)
    \/ ReportSession

Next ==
    \/ \E q \in BOOLEAN : Bump(q) /\ UNCHANGED <<rowVars, evaluatorVars, botVars, historyVars>>
    \/ \E p \in Publisher : Publish(p)
    \/ \E p \in Request : GetAdmissionMe(p) \/ Join(p) \/ Link(p)
    \/ \E p \in Evaluator : Evaluate(p) \/ FailEvaluation(p) \/ Crash(p)
    \/ CreatePending \/ End \/ Bot

Spec == Init /\ [][Next]_vars
-----------------------------------------------------------------------------
(* Properties.                                                             *)

Steps == {"idle", "reading", "fencing", "superseding", "deciding", "committing", "completing",
          "retrying"}
Tasks == {"none", "event", "me", "join", "link"}

\* The state is of its type.
TypeOK ==
    /\ revision \in 0..MaxRevision /\ qualified \in BOOLEAN
    /\ event \in [Revision -> Event] /\ batch \in [Publisher -> SUBSET Revision]
    /\ current \in [Publisher -> 0..MaxRevision] /\ faults \in 0..MaxFaults
    /\ session \in Session /\ action \in Action /\ lock \in Evaluator \cup {Nobody}
    /\ at \in [Evaluator -> Steps] /\ task \in [Evaluator -> Tasks]
    /\ decision \in [Evaluator -> Decision]
    /\ prepared \subseteq Attempt /\ sent \subseteq Attempt /\ void \subseteq Attempt
    /\ admittedBy \in 0..MaxAttempts /\ misled \in BOOLEAN /\ overtaken \in BOOLEAN

\* When the last change of the credentials has been published, the session agrees with the
\* student: it waits for release, at that revision, if and only if the student qualifies
\* (ReevaluateStudentEligibility under the claim of its event, and the revision fence of
\* the session).  Excepted is a session that took a decision which was wrong on arrival.
AgreesWithStudent ==
    revision > 0 /\ Published(revision) /\ session.status \in Deciding /\ ~misled
      => /\ session.status = "action_pending" <=> qualified
         /\ session.status = "action_pending" => session.revision = revision

\* A dispatch that is older than the last decision against the session admits nobody when it
\* is reported late, even if the session has been granted again since (attempt_count, which
\* neither QueueBotActionTx nor a supersession resets).
WithdrawnNeverAdmits == admittedBy \notin void

\* A granted session has a release action at its revision, or one that was given up, unless
\* an older decision superseded the newer one's.
ReleaseIsUnderWay ==
    session.status = "action_pending" /\ ~overtaken
      => \/ action.status \in Live /\ action.revision = session.revision
         \/ action.status = "dead_letter"

\* What else holds in every state, which makes the four properties inductive.

\* An evaluator has a task until it is idle, and a publisher an event that exists.
EvaluatorsFit ==
    /\ \A p \in Evaluator : at[p] = "idle" <=> task[p] = "none"
    /\ \A p \in Publisher : /\ task[p] \in {"none", "event"}
                            /\ current[p] = 0 <=> at[p] = "idle"
                            /\ current[p] <= revision
    /\ \A p \in Request : task[p] # "event"

\* Every revision that was reached has its event.
EventsFit ==
    /\ \A r \in Revision : event[r].status = "absent" <=> r > revision
    /\ \A p \in Publisher : \A r \in batch[p] : r <= revision

\* A verdict is right as long as the credentials are those it was read of; a publisher has
\* read after the change that its event is about.
DecisionsAreSound ==
    /\ \A p \in Evaluator :
          /\ decision[p].read <= revision /\ decision[p].revision <= RevisionRead
          /\ at[p] \in {"fencing", "superseding", "deciding", "committing"}
               => (decision[p].read = revision => decision[p].eligible = qualified)
    /\ \A p \in Publisher :
          /\ at[p] \in {"fencing", "superseding", "deciding"} => decision[p].read >= current[p]
          /\ at[p] \in {"superseding", "deciding"} => decision[p].revision >= current[p]

\* A session starts without a revision, a link has it for itself, and its end is its end.
SessionFits ==
    /\ session.status \in {"absent", "awaiting_account_link"} => session.revision = 0
    /\ session.revision <= RevisionRead
    /\ \A p \in Request : task[p] = "link" => session.status = "awaiting_account_link"
    /\ \A p, q \in Request : task[p] = "link" /\ task[q] = "link" => p = q
    /\ action.status = "succeeded" \/ admittedBy # 0 => session.status = "admitted"

\* A number is dispatched once, unless it was given back before anybody saw it.
AttemptsFit ==
    /\ prepared \cup sent \cup void \subseteq 1..action.attempts
    /\ prepared \cap sent = {}
    /\ session.status = "action_pending" /\ action.status = "dispatched"
         => action.attempts \notin void

\* AgreesWithStudent, from the moment the change has been consumed.
SessionAgrees ==
    revision > 0 /\ Consumed(revision) /\ session.status \in Deciding /\ ~misled
      => /\ session.status = "action_pending" <=> qualified
         /\ session.status = "action_pending" => session.revision = revision

\* The inductive invariant.
AdmissionInv ==
    /\ TypeOK /\ EvaluatorsFit /\ EventsFit /\ DecisionsAreSound /\ SessionFits
    /\ AttemptsFit /\ SessionAgrees /\ ReleaseIsUnderWay /\ WithdrawnNeverAdmits

\* A session never goes back to an older revision, and never leaves its end (the fence of
\* ApplyStudentEligibilityDecisionTx, the statuses its statements accept).
DecisionsAreMonotone ==
    [][/\ session'.revision >= session.revision
       /\ session.status \in {"admitted", "ended"} => session' = session]_vars

\* STATE-004 of the product specification: when the credentials are revoked, a release that
\* has not been executed is not executed any more.  At least it is not when the revocation
\* has been published and nothing else is under way.
RevokedIsNotReleased ==
    (revision > 0 /\ Published(revision) /\ ~qualified /\ \A p \in Evaluator : at[p] = "idle")
      => session.status # "action_pending"
-----------------------------------------------------------------------------
(* Liveness.                                                               *)

\* A publisher goes on with its batch, its ticker makes it claim what is due, and an evaluation
\* that has begun goes on; the order of the claim lets no event wait for ever.
Handles(p) == Evaluate(p) \/ (p \in Publisher /\ (Finish(p) \/ \E r \in Revision : Consume(p, r)))
Claims(r) ==
    \E p \in Publisher, S \in SUBSET Revision :
       /\ r \in S \/ (Open(r) /\ Exhausted(r))
       /\ ClaimEvents(p, S) /\ at[p] = "idle"
       /\ UNCHANGED <<rowVars, evaluatorVars, botVars, historyVars>>
Fairness ==
    /\ \A p \in Evaluator : WF_vars(Handles(p))
    /\ \A r \in Revision : SF_vars(Claims(r))
    /\ WF_vars(ClaimAction)

FairSpec == Spec /\ Fairness

\* Every change of the credentials is published in the end, or given up.
ChangesSettle ==
    \A r \in Revision :
       event[r].status = "pending" ~> event[r].status \in {"published", "dead_letter"}

\* A granted release is executed, withdrawn, superseded or given up, as long as bots ask for
\* work (the lapse of a dispatch, the limit of attempts).
ReleaseSettles ==
    session.status = "action_pending"
      ~> session.status # "action_pending" \/ action.status \in {"stale", "dead_letter"}
=============================================================================
