-------------------------- MODULE AdmissionProofs --------------------------
(***************************************************************************)
(* Proofs about Admission, for any number of publishers, of requests at a  *)
(* time, of revisions, of attempts and of faults.                          *)
(*                                                                         *)
(* AgreesWithStudent is not inductive: whether a session agrees is decided *)
(* when a decision is applied, and this one may be older than the event it *)
(* is applied for, than the session, or than the student.  AdmissionInv    *)
(* bounds all of them: a decision is not newer than the student            *)
(* (DecisionsAreSound) nor the session newer than a decision can be        *)
(* (SessionFits); a decision for an event is not older than the event, so  *)
(* what is applied when the last event is consumed is the last revision.   *)
(* WithdrawnNeverAdmits rests on AttemptsFit: attempts only go up, except  *)
(* where one is given back that nobody has seen.                           *)
(***************************************************************************)
EXTENDS Admission, TLAPS

USE EligibilityAssumption, AdmissionAssumption
USE DEF AdmissionInv, TypeOK, Evaluator, Revision, Attempt, Session, Action, Decision, NoDecision, Event, Deciding,
        Waiting, Steps, Tasks, rowVars, evaluatorVars, botVars, historyVars, eligibilityVars, publisherVars

(* The action of a transaction.                                            *)

\* What a transaction sees of the release action is the action, or a stale one if it has
\* superseded it.
LEMMA SeenAction ==
    ASSUME TypeOK, NEW p \in Evaluator
    PROVE  /\ Seen(p) \in Action /\ Seen(p).attempts = action.attempts
           /\ \/ Seen(p) = action /\ lock # p
              \/ Seen(p).status = "stale" /\ lock = p
  BY DEF Seen

\* Queueing keeps the attempts, and leaves a live action at the new revision unless the
\* action has succeeded or was given up.
LEMMA QueuedAction ==
    ASSUME NEW a \in Action, NEW r \in 0..(MaxRevision + 1)
    PROVE  /\ Queued(a, r) \in Action /\ Queued(a, r).attempts = a.attempts
           /\ Queued(a, r).status = "dispatched" <=> a.status = "dispatched"
           /\ \/ Queued(a, r).status \in Live /\ Queued(a, r).revision = r
              \/ Queued(a, r) = a /\ a.status \in {"succeeded", "dead_letter"}
<1>1. CASE a.status \in {"absent", "pending", "failed", "stale"}
  <2>1. Queued(a, r) = [a EXCEPT !.status = "pending", !.revision = r]
    BY <1>1 DEF Queued
  <2> QED
    BY <1>1, <2>1 DEF Live
<1>2. CASE a.status = "dispatched"
  <2>1. Queued(a, r) = [a EXCEPT !.revision = r]
    BY <1>2 DEF Queued
  <2> QED
    BY <1>2, <2>1 DEF Live
<1>3. CASE a.status \in {"succeeded", "dead_letter"}
  <2>1. Queued(a, r) = a
    BY <1>3 DEF Queued
  <2> QED
    BY <1>3, <2>1
<1> QED
  BY <1>1, <1>2, <1>3

\* A grant leaves the session pending at the revision of the decision, and its action on
\* its way there unless it has succeeded or was given up; a dispatch that it takes over is
\* no longer void.
LEMMA GrantGives ==
    ASSUME TypeOK, NEW p \in Evaluator, Grant(p)
    PROVE  /\ session' \in Session /\ session'.status = "action_pending"
           /\ session'.revision = decision[p].revision
           /\ action' \in Action /\ action'.attempts = action.attempts
           /\ action'.status = "succeeded" => action.status = "succeeded"
           /\ \/ action'.status \in Live /\ action'.revision = session'.revision
              \/ action'.status \in {"succeeded", "dead_letter"}
           /\ void' \subseteq void /\ overtaken' = FALSE
           /\ action'.status = "dispatched" => action.attempts \notin void'
<1> DEFINE a == Seen(p)
           r == decision[p].revision
<1>1. /\ session' = [status |-> "action_pending", revision |-> r] /\ action' = Queued(a, r)
      /\ void' = (IF a.status = "dispatched" THEN void \ {a.attempts} ELSE void)
      /\ overtaken' = FALSE
  BY DEF Grant
<1>2. /\ a \in Action /\ a.attempts = action.attempts
      /\ a = action \/ a.status = "stale"
  BY SeenAction
<1>3. decision[p] \in Decision /\ r \in 0..(MaxRevision + 1)
  <2>1. decision[p] \in Decision
    OBVIOUS
  <2> QED
    BY <2>1
<1> HIDE DEF a, r
<1>4. /\ Queued(a, r) \in Action /\ Queued(a, r).attempts = a.attempts
      /\ Queued(a, r).status = "dispatched" <=> a.status = "dispatched"
      /\ \/ Queued(a, r).status \in Live /\ Queued(a, r).revision = r
         \/ Queued(a, r) = a /\ a.status \in {"succeeded", "dead_letter"}
  <2>1. a \in Action
    BY <1>2
  <2>2. r \in 0..(MaxRevision + 1)
    BY <1>3
  <2> QED
    BY <2>1, <2>2, QueuedAction, ZenonT(30)
<1> QED
  BY <1>1, <1>2, <1>3, <1>4 DEF Live, r

\* Whether a decision is wrong is true or false.
LEMMA WrongIsBoolean == ASSUME NEW d PROVE Wrong(d) \in BOOLEAN
  BY DEF Wrong
-----------------------------------------------------------------------------
(* The steps.                                                              *)

\* A change of the credentials is not consumed yet: no publisher handles a revision to come.
LEMMA BumpKeepsInv ==
    ASSUME AdmissionInv, NEW q \in BOOLEAN,
           Bump(q), UNCHANGED <<rowVars, evaluatorVars, botVars, historyVars>>
    PROVE  AdmissionInv'
<1>1. TypeOK'
  <2>1. (event \in [Revision -> Event])'
    <3>1. revision + 1 \in Revision /\ event[revision + 1] \in Event
      BY SMTT(30) DEF Bump
    <3>2. [event[revision + 1] EXCEPT !.status = "pending"] \in Event
      BY <3>1
    <3> QED
      BY <3>1, <3>2 DEF Bump
  <2>2. (revision \in 0..MaxRevision)'
    BY SMTT(30) DEF Bump
  <2>3. (qualified \in BOOLEAN)'
    BY DEF Bump
  <2>4. (/\ batch \in [Publisher -> SUBSET Revision]
      /\ current \in [Publisher -> 0..MaxRevision] /\ faults \in 0..MaxFaults
      /\ session \in Session /\ action \in Action /\ lock \in Evaluator \cup {Nobody}
      /\ at \in [Evaluator -> Steps] /\ task \in [Evaluator -> Tasks]
      /\ decision \in [Evaluator -> Decision] /\ prepared \subseteq Attempt
      /\ sent \subseteq Attempt /\ void \subseteq Attempt
      /\ admittedBy \in 0..MaxAttempts /\ misled \in BOOLEAN /\ overtaken \in BOOLEAN)'
    <3>1. UNCHANGED <<batch, current, faults, session, action, lock, at, task, decision, prepared,
                      sent, void, admittedBy, misled, overtaken>>
      BY DEF Bump
    <3> QED
      BY <3>1
  <2> QED
    BY <2>1, <2>2, <2>3, <2>4
<1>2. EvaluatorsFit'
  BY SMTT(30) DEF Bump, EvaluatorsFit, EventsFit
<1>3. EventsFit'
  <2> USE DEF EventsFit
  <2>1. revision + 1 \in Revision /\ revision' = revision + 1 /\ batch' = batch
    BY SMTT(30) DEF Bump
  <2>2. \A r \in Revision : event'[r] = IF r = revision + 1 THEN [event[r] EXCEPT !.status = "pending"]
                                                             ELSE event[r]
    BY DEF Bump
  <2>3. \A r \in Revision : event'[r].status = "absent" <=> r > revision + 1
    <3> TAKE r \in Revision
    <3>1. CASE r = revision + 1
      <4>1. event[r] \in Event
        OBVIOUS
      <4>2. event'[r] = [event[r] EXCEPT !.status = "pending"]
        BY <2>2, <3>1
      <4>3. event'[r].status = "pending"
        BY <4>1, <4>2
      <4> QED
        BY <3>1, <4>3
    <3>2. CASE r # revision + 1
      <4>1. event'[r] = event[r]
        BY <2>2, <3>2
      <4> QED
        BY <3>2, <4>1
    <3> QED
      BY <3>1, <3>2
  <2> QED
    BY SMTT(30), <2>1, <2>3
<1>4. DecisionsAreSound'
  <2>1. /\ revision' = revision + 1 /\ RevisionRead <= revision'
        /\ RevisionRead' = revision' /\ UNCHANGED <<at, decision, current>>
    BY SMTT(30) DEF Bump, RevisionRead
  <2>2. \A e \in Evaluator : decision[e] \in Decision
    OBVIOUS
  <2>3. RevisionRead \in Nat
    BY DEF RevisionRead
  <2> QED
    BY <2>1, <2>2, <2>3, SMTT(30) DEF DecisionsAreSound
<1>5. SessionFits'
  BY SMTT(30) DEF Bump, SessionFits, EvaluatorsFit, DecisionsAreSound, RevisionRead, Linking
<1>6. AttemptsFit'
  BY DEF Bump, AttemptsFit, SessionFits
<1>7. SessionAgrees'
  BY DEF Bump, SessionAgrees, EvaluatorsFit, EventsFit, DecisionsAreSound, SessionFits, Consumed,
     Published, RevisionRead
<1>8. ReleaseIsUnderWay'
  BY DEF Bump, ReleaseIsUnderWay, SessionFits, Live
<1>9. WithdrawnNeverAdmits'
  BY DEF Bump, WithdrawnNeverAdmits, SessionFits, AttemptsFit
<1> QED
  BY <1>1, <1>2, <1>3, <1>4, <1>5, <1>6, <1>7, <1>8, <1>9

\* Claiming publishes nothing; what it gives up is not published either.
LEMMA ClaimEventsKeepsInv ==
    ASSUME AdmissionInv, NEW p \in Publisher, NEW S \in SUBSET Revision,
           ClaimEvents(p, S), at[p] = "idle",
           UNCHANGED <<rowVars, evaluatorVars, botVars, historyVars>>
    PROVE  AdmissionInv'
<1>1. TypeOK'
  <2>1. (event \in [Revision -> Event])'
    <3> SUFFICES ASSUME NEW r \in Revision
                 PROVE  event'[r] \in Event
      BY DEF ClaimEvents
    <3>1. event[r] \in Event
      OBVIOUS
    <3>2. CASE r \in S
      <4>1. event'[r] = [status |-> "claimed", owner |-> p, attempts |-> event[r].attempts + 1]
        BY <3>2 DEF ClaimEvents
      <4>2. event[r].attempts + 1 \in 0..MaxEventAttempts
        <5>1. ~Exhausted(r)
          BY <3>2 DEF ClaimEvents
        <5>2. event[r].attempts \in 0..MaxEventAttempts
          BY <3>1
        <5>3. MaxEventAttempts \in Nat
          OBVIOUS
        <5>4. ~(event[r].attempts >= MaxEventAttempts)
          BY <5>1 DEF Exhausted
        <5> HIDE DEF Event
        <5> QED
          BY SMTT(30), <5>2, <5>3, <5>4
      <4> QED
        BY <4>1, <4>2
    <3>3. CASE r \notin S /\ Open(r) /\ Exhausted(r)
      <4>1. event'[r] = [event[r] EXCEPT !.status = "dead_letter", !.owner = Nobody]
        BY <3>3 DEF ClaimEvents
      <4> QED
        BY <3>1, <4>1
    <3>4. CASE r \notin S /\ ~(Open(r) /\ Exhausted(r))
      <4>1. event'[r] = event[r]
        BY <3>4 DEF ClaimEvents
      <4> QED
        BY <3>1, <4>1
    <3> QED
      BY <3>2, <3>3, <3>4
  <2>2. (batch \in [Publisher -> SUBSET Revision])'
    BY DEF ClaimEvents, Open, Exhausted
  <2>3. (/\ revision \in 0..MaxRevision /\ qualified \in BOOLEAN
      /\ current \in [Publisher -> 0..MaxRevision] /\ faults \in 0..MaxFaults
      /\ session \in Session /\ action \in Action /\ lock \in Evaluator \cup {Nobody}
      /\ at \in [Evaluator -> Steps] /\ task \in [Evaluator -> Tasks]
      /\ decision \in [Evaluator -> Decision] /\ prepared \subseteq Attempt
      /\ sent \subseteq Attempt /\ void \subseteq Attempt
      /\ admittedBy \in 0..MaxAttempts /\ misled \in BOOLEAN /\ overtaken \in BOOLEAN)'
    <3>1. UNCHANGED <<revision, qualified, current, faults, session, action, lock, at, task, decision,
                      prepared, sent, void, admittedBy, misled, overtaken>>
      BY DEF ClaimEvents, Open, Exhausted
    <3> QED
      BY <3>1
  <2> QED
    BY <2>1, <2>2, <2>3
<1>2. EvaluatorsFit'
  BY DEF ClaimEvents, Open, Exhausted, EvaluatorsFit, EventsFit
<1>3. EventsFit'
  <2> USE DEF EventsFit
  <2>1. ASSUME NEW r \in Revision
        PROVE  event'[r].status = "absent" <=> event[r].status = "absent"
    <3>1. CASE r \in S
      BY <3>1 DEF ClaimEvents, Open
    <3>2. CASE r \notin S /\ Open(r) /\ Exhausted(r)
      <4>1. event[r] \in Event
        OBVIOUS
      <4>2. event'[r] = [event[r] EXCEPT !.status = "dead_letter", !.owner = Nobody]
        BY <3>2 DEF ClaimEvents
      <4> QED
        BY <3>2, <4>1, <4>2 DEF Open
    <3>3. CASE r \notin S /\ ~(Open(r) /\ Exhausted(r))
      BY <3>3 DEF ClaimEvents
    <3> QED
      BY <3>1, <3>2, <3>3
  <2>2. revision' = revision /\ batch' = [batch EXCEPT ![p] = S]
    BY DEF ClaimEvents
  <2>3. ASSUME NEW r \in S
        PROVE  r <= revision
    <3>1. event[r].status # "absent"
      BY DEF ClaimEvents, Open
    <3>2. r \in Revision
      OBVIOUS
    <3> QED
      BY <3>1, <3>2
  <2> QED
    BY <2>1, <2>2, <2>3
<1>4. DecisionsAreSound'
  BY DEF ClaimEvents, Open, Exhausted, DecisionsAreSound, EvaluatorsFit, EventsFit, RevisionRead
<1>5. SessionFits'
  <2>1. UNCHANGED <<session, action, task, revision, admittedBy>>
    BY DEF ClaimEvents
  <2> QED
    BY <2>1 DEF SessionFits, RevisionRead
<1>6. AttemptsFit'
  BY DEF ClaimEvents, Open, Exhausted, AttemptsFit, SessionFits
<1>7. SessionAgrees'
  <2>1. UNCHANGED <<session, at, revision, qualified, misled, current>>
    BY DEF ClaimEvents
  <2>2. revision > 0 /\ Published(revision)' => Published(revision)
    <3> SUFFICES ASSUME revision \in Revision, event'[revision].status = "published"
                 PROVE  event[revision].status = "published"
      BY <2>1 DEF Published
    <3>1. CASE revision \in S
      BY <3>1 DEF ClaimEvents
    <3>2. CASE revision \notin S /\ Open(revision) /\ Exhausted(revision)
      <4>1. event'[revision] = [event[revision] EXCEPT !.status = "dead_letter", !.owner = Nobody]
        BY <3>2 DEF ClaimEvents
      <4> QED
        BY <3>2, <4>1
    <3>3. CASE revision \notin S /\ ~(Open(revision) /\ Exhausted(revision))
      BY <3>3 DEF ClaimEvents
    <3> QED
      BY <3>1, <3>2, <3>3
  <2> QED
    BY <2>1, <2>2 DEF SessionAgrees, Consumed, Published
<1>8. ReleaseIsUnderWay'
  BY DEF ClaimEvents, Open, Exhausted, ReleaseIsUnderWay, SessionFits, Live
<1>9. WithdrawnNeverAdmits'
  BY DEF ClaimEvents, Open, Exhausted, WithdrawnNeverAdmits, SessionFits, AttemptsFit
<1> QED
  BY <1>1, <1>2, <1>3, <1>4, <1>5, <1>6, <1>7, <1>8, <1>9

\* An event is taken before anything is read for it.
LEMMA ConsumeKeepsInv ==
    ASSUME AdmissionInv, NEW p \in Publisher, NEW r \in Revision,
           Consume(p, r)
    PROVE  AdmissionInv'
<1>1. TypeOK'
  <2>1. (at \in [Evaluator -> Steps])'
    BY DEF Consume, Take, Begin
  <2>2. (task \in [Evaluator -> Tasks])'
    BY DEF Consume, Take, Begin
  <2>3. (batch \in [Publisher -> SUBSET Revision])'
    BY DEF Consume, Take, Begin
  <2>4. (current \in [Publisher -> 0..MaxRevision])'
    BY DEF Consume, Take, Begin
  <2>5. (/\ revision \in 0..MaxRevision /\ qualified \in BOOLEAN
      /\ event \in [Revision -> Event] /\ faults \in 0..MaxFaults /\ session \in Session
      /\ action \in Action /\ lock \in Evaluator \cup {Nobody}
      /\ decision \in [Evaluator -> Decision] /\ prepared \subseteq Attempt
      /\ sent \subseteq Attempt /\ void \subseteq Attempt
      /\ admittedBy \in 0..MaxAttempts /\ misled \in BOOLEAN /\ overtaken \in BOOLEAN)'
    BY SMTT(30) DEF Consume, Take, Begin
  <2> QED
    BY <2>1, <2>2, <2>3, <2>4, <2>5
<1>2. EvaluatorsFit'
  <2>1. /\ at[p] = "idle" /\ at' = [at EXCEPT ![p] = "reading"] /\ task' = [task EXCEPT ![p] = "event"]
        /\ current' = [current EXCEPT ![p] = r] /\ revision' = revision
        /\ r <= revision /\ r # 0
    BY DEF Consume, Take, Begin, EventsFit
  <2>2. p \notin Request
    OBVIOUS
  <2> QED
    BY <2>1, <2>2 DEF EvaluatorsFit
<1>3. EventsFit'
  BY DEF Consume, Take, Begin, EventsFit, EvaluatorsFit
<1>4. DecisionsAreSound'
  BY SMTT(30) DEF Consume, Take, Begin, DecisionsAreSound, EvaluatorsFit, EventsFit, RevisionRead
<1>5. SessionFits'
  BY SMTT(30) DEF Consume, Take, Begin, SessionFits, EvaluatorsFit, DecisionsAreSound, RevisionRead, Linking
<1>6. AttemptsFit'
  BY DEF Consume, Take, Begin, AttemptsFit, SessionFits
<1>7. SessionAgrees'
  BY DEF Consume, Take, Begin, SessionAgrees, EvaluatorsFit, EventsFit, DecisionsAreSound,
     SessionFits, Consumed, Published, RevisionRead
<1>8. ReleaseIsUnderWay'
  BY DEF Consume, Take, Begin, ReleaseIsUnderWay, SessionFits, Live
<1>9. WithdrawnNeverAdmits'
  BY DEF Consume, Take, Begin, WithdrawnNeverAdmits, SessionFits, AttemptsFit
<1> QED
  BY <1>1, <1>2, <1>3, <1>4, <1>5, <1>6, <1>7, <1>8, <1>9

\* What is published was consumed before.
LEMMA FinishKeepsInv ==
    ASSUME AdmissionInv, NEW p \in Publisher,
           Finish(p)
    PROVE  AdmissionInv'
<1>1. TypeOK'
  <2>1. (event \in [Revision -> Event])'
    <3>1. current[p] \in Revision /\ event[current[p]] \in Event
      BY SMTT(30) DEF Finish, EvaluatorsFit
    <3>2. PICK s \in {"published", "pending", "dead_letter"} : Settle(p, s)
      BY DEF Finish, CompleteEvent, RetryEvent
    <3>3. [event[current[p]] EXCEPT !.status = s, !.owner = Nobody] \in Event
      BY <3>1
    <3>4. CASE event' = event
      BY <3>4
    <3>5. CASE event' # event
      <4>1. event' = [event EXCEPT ![current[p]] =
                        [event[current[p]] EXCEPT !.status = s, !.owner = Nobody]]
        BY <3>2, <3>5 DEF Settle
      <4> QED
        BY <3>3, <4>1
    <3> QED
      BY <3>4, <3>5
  <2>2. (faults \in 0..MaxFaults)'
    BY DEF Finish, CompleteEvent, RetryEvent, Settle, Owns, Exhausted, Fault, Leave
  <2>3. (current \in [Publisher -> 0..MaxRevision])'
    <3>1. current' = [current EXCEPT ![p] = 0]
      BY DEF Finish, CompleteEvent, RetryEvent, Settle
    <3> QED
      BY <3>1
  <2>4. (at \in [Evaluator -> Steps])'
    BY DEF Finish, CompleteEvent, RetryEvent, Settle, Owns, Exhausted, Fault, Leave
  <2>5. (task \in [Evaluator -> Tasks])'
    BY DEF Finish, CompleteEvent, RetryEvent, Settle, Owns, Exhausted, Fault, Leave
  <2>6. (decision \in [Evaluator -> Decision])'
    BY SMTT(30) DEF Finish, CompleteEvent, RetryEvent, Settle, Owns, Exhausted, Fault, Leave
  <2>7. (lock \in Evaluator \cup {Nobody})'
    BY DEF Finish, CompleteEvent, RetryEvent, Settle, Owns, Exhausted, Fault, Leave
  <2>8. (/\ revision \in 0..MaxRevision /\ qualified \in BOOLEAN
      /\ batch \in [Publisher -> SUBSET Revision] /\ session \in Session
      /\ action \in Action /\ prepared \subseteq Attempt /\ sent \subseteq Attempt
      /\ void \subseteq Attempt /\ admittedBy \in 0..MaxAttempts /\ misled \in BOOLEAN
      /\ overtaken \in BOOLEAN)'
    <3>1. UNCHANGED <<revision, qualified, batch, session, action, prepared, sent, void, admittedBy, misled,
                      overtaken>>
      BY DEF Finish, CompleteEvent, RetryEvent, Settle, Owns, Exhausted, Fault, Leave
    <3> QED
      BY <3>1
  <2> QED
    BY <2>1, <2>2, <2>3, <2>4, <2>5, <2>6, <2>7, <2>8
<1>2. EvaluatorsFit'
  <2>1. PICK s \in {"published", "pending", "dead_letter"} : Settle(p, s)
    BY DEF Finish, CompleteEvent, RetryEvent
  <2>2. /\ at[p] \in {"completing", "retrying"} /\ at' = [at EXCEPT ![p] = "idle"]
        /\ task' = [task EXCEPT ![p] = "none"] /\ decision' = [decision EXCEPT ![p] = NoDecision]
    BY <2>1 DEF Finish, CompleteEvent, RetryEvent, Settle, Leave
  <2>3. /\ UNCHANGED <<revision, qualified, batch>> /\ current' = [current EXCEPT ![p] = 0]
    BY <2>1 DEF Settle
  <2> QED
    BY <2>2, <2>3 DEF EvaluatorsFit
<1>3. EventsFit'
  <2>1. PICK s \in {"published", "pending", "dead_letter"} : Settle(p, s)
    BY DEF Finish, CompleteEvent, RetryEvent
  <2>2. /\ at[p] \in {"completing", "retrying"} /\ at' = [at EXCEPT ![p] = "idle"]
        /\ task' = [task EXCEPT ![p] = "none"] /\ decision' = [decision EXCEPT ![p] = NoDecision]
    BY <2>1 DEF Finish, CompleteEvent, RetryEvent, Settle, Leave
  <2>3. /\ UNCHANGED <<revision, qualified, batch>> /\ current' = [current EXCEPT ![p] = 0]
    BY <2>1 DEF Settle
  <2>4. current[p] \in Revision
    BY <2>2 DEF EvaluatorsFit
  <2>5. ASSUME NEW r \in Revision
        PROVE  event'[r].status = "absent" <=> event[r].status = "absent"
    <3>1. CASE event'[r] = event[r]
      BY <3>1
    <3>2. CASE event'[r] # event[r]
      <4>1. /\ r = current[p] /\ event[r].status = "claimed"
            /\ event'[r] = [event[r] EXCEPT !.status = s, !.owner = Nobody]
        <5>1. event' # event /\ current[p] \in Revision
          BY <2>4, <3>2
        <5>2. /\ Owns(p, current[p])
              /\ event' = [event EXCEPT ![current[p]] =
                             [event[current[p]] EXCEPT !.status = s, !.owner = Nobody]]
          BY <2>1, <5>1 DEF Settle
        <5> QED
          BY <3>2, <5>1, <5>2 DEF Owns
      <4>2. event[r] \in Event
        OBVIOUS
      <4> QED
        BY <4>1, <4>2
    <3> QED
      BY <3>1, <3>2
  <2> QED
    BY <2>3, <2>5 DEF EventsFit
<1>4. DecisionsAreSound'
  <2>1. PICK s \in {"published", "pending", "dead_letter"} : Settle(p, s)
    BY DEF Finish, CompleteEvent, RetryEvent
  <2>2. /\ at[p] \in {"completing", "retrying"} /\ at' = [at EXCEPT ![p] = "idle"]
        /\ task' = [task EXCEPT ![p] = "none"] /\ decision' = [decision EXCEPT ![p] = NoDecision]
    BY <2>1 DEF Finish, CompleteEvent, RetryEvent, Settle, Leave
  <2>3. /\ UNCHANGED <<revision, qualified, batch>> /\ current' = [current EXCEPT ![p] = 0]
    BY <2>1 DEF Settle
  <2>4. at'[p] = "idle" /\ decision'[p].read = 0 /\ decision'[p].revision = 0
    BY <2>2
  <2>5. \A e \in Evaluator \ {p} : at'[e] = at[e] /\ decision'[e] = decision[e]
    BY <2>2
  <2>6. \A e \in Publisher \ {p} : current'[e] = current[e]
    BY <2>3
  <2>7. RevisionRead' = RevisionRead /\ RevisionRead \in Nat /\ revision \in Nat
    BY <2>3 DEF RevisionRead
  <2>8. ASSUME NEW e \in Evaluator
        PROVE  /\ decision'[e].read <= revision /\ decision'[e].revision <= RevisionRead
               /\ at'[e] \in {"fencing", "superseding", "deciding", "committing"}
                    => (decision'[e].read = revision => decision'[e].eligible = qualified)
    <3>1. CASE e = p
      BY <2>4, <2>7, <3>1
    <3>2. CASE e # p
      BY <2>5, <3>2 DEF DecisionsAreSound
    <3> QED
      BY <3>1, <3>2
  <2>9. ASSUME NEW e \in Publisher
        PROVE  /\ at'[e] \in {"fencing", "superseding", "deciding"} => decision'[e].read >= current'[e]
               /\ at'[e] \in {"superseding", "deciding"} => decision'[e].revision >= current'[e]
    <3>1. CASE e = p
      BY <2>4, <3>1
    <3>2. CASE e # p
      BY <2>5, <2>6, <3>2 DEF DecisionsAreSound
    <3> QED
      BY <3>1, <3>2
  <2> QED
    BY <2>3, <2>7, <2>8, <2>9 DEF DecisionsAreSound
<1>5. SessionFits'
  BY SMTT(30) DEF Finish, CompleteEvent, RetryEvent, Settle, Owns, Exhausted, Fault, Leave, SessionFits,
     EvaluatorsFit, DecisionsAreSound, RevisionRead, Linking
<1>6. AttemptsFit'
  BY DEF Finish, CompleteEvent, RetryEvent, Settle, Owns, Exhausted, Fault, Leave, AttemptsFit,
     SessionFits
<1>7. SessionAgrees'
  <2> SUFFICES ASSUME revision > 0, Consumed(revision)'
               PROVE  Consumed(revision)
    BY DEF SessionAgrees, Finish, CompleteEvent, RetryEvent, Settle, Leave
  <2>1. PICK s \in {"published", "pending", "dead_letter"} :
               Settle(p, s) /\ (s = "published" => at[p] = "completing")
    BY DEF Finish, CompleteEvent, RetryEvent
  <2>2. /\ at' = [at EXCEPT ![p] = "idle"] /\ current' = [current EXCEPT ![p] = 0]
        /\ revision' = revision
    BY <2>1 DEF Finish, Settle, Leave
  <2>3. CASE \E e \in Publisher : at'[e] = "completing" /\ current'[e] = revision
    BY <2>2, <2>3 DEF Consumed
  <2>4. CASE event'[revision].status = "published"
    <3>1. CASE event'[revision] = event[revision]
      BY <2>4, <3>1 DEF Consumed, Published
    <3>2. CASE event'[revision] # event[revision]
      <4>1. /\ revision = current[p]
            /\ event'[revision] = [event[revision] EXCEPT !.status = s, !.owner = Nobody]
        <5>1. event' # event /\ current[p] \in Revision
          <6>1. at[p] # "idle"
            BY DEF Finish
          <6>2. current[p] # 0 /\ current[p] \in 0..MaxRevision
            BY <6>1 DEF EvaluatorsFit
          <6>3. event' # event
            BY <3>2, Zenon
          <6>4. current[p] \in Revision
            BY <6>2
          <6> QED
            BY <6>3, <6>4
        <5>2. event' = [event EXCEPT ![current[p]] =
                          [event[current[p]] EXCEPT !.status = s, !.owner = Nobody]]
          BY <2>1, <5>1 DEF Settle
        <5>3. revision \in Revision
          OBVIOUS
        <5>4. revision # current[p] => event'[revision] = event[revision]
          BY <5>2, <5>3
        <5>5. revision = current[p] =>
                event'[revision] = [event[revision] EXCEPT !.status = s, !.owner = Nobody]
          BY <5>2, <5>3
        <5> QED
          BY <3>2, <5>4, <5>5
      <4>2. event[revision] \in Event
        OBVIOUS
      <4>3. s = "published"
        BY <2>4, <4>1, <4>2
      <4> QED
        BY <2>1, <4>1, <4>3 DEF Consumed
    <3> QED
      BY <3>1, <3>2
  <2> QED
    BY <2>2, <2>3, <2>4 DEF Consumed, Published
<1>8. ReleaseIsUnderWay'
  BY DEF Finish, CompleteEvent, RetryEvent, Settle, Owns, Exhausted, Fault, Leave, ReleaseIsUnderWay,
     SessionFits, Live
<1>9. WithdrawnNeverAdmits'
  BY DEF Finish, CompleteEvent, RetryEvent, Settle, Owns, Exhausted, Fault, Leave,
     WithdrawnNeverAdmits, SessionFits, AttemptsFit
<1> QED
  BY <1>1, <1>2, <1>3, <1>4, <1>5, <1>6, <1>7, <1>8, <1>9

\* A request that begins has decided nothing.
LEMMA GetAdmissionMeKeepsInv ==
    ASSUME AdmissionInv, NEW p \in Request,
           GetAdmissionMe(p)
    PROVE  AdmissionInv'
<1>1. TypeOK'
  BY DEF GetAdmissionMe, Begin, EvaluatorsFit, EventsFit, AttemptsFit
<1>2. EvaluatorsFit'
  BY DEF GetAdmissionMe, Begin, EvaluatorsFit, EventsFit
<1>3. EventsFit'
  BY DEF GetAdmissionMe, Begin, EventsFit, EvaluatorsFit
<1>4. DecisionsAreSound'
  BY DEF GetAdmissionMe, Begin, DecisionsAreSound, EvaluatorsFit, EventsFit, RevisionRead
<1>5. SessionFits'
  BY DEF GetAdmissionMe, Begin, SessionFits, EvaluatorsFit, DecisionsAreSound, RevisionRead, Linking
<1>6. AttemptsFit'
  BY DEF GetAdmissionMe, Begin, AttemptsFit, SessionFits
<1>7. SessionAgrees'
  BY DEF GetAdmissionMe, Begin, SessionAgrees, EvaluatorsFit, EventsFit, DecisionsAreSound,
     SessionFits, Consumed, Published, RevisionRead
<1>8. ReleaseIsUnderWay'
  BY DEF GetAdmissionMe, Begin, ReleaseIsUnderWay, SessionFits, Live
<1>9. WithdrawnNeverAdmits'
  BY DEF GetAdmissionMe, Begin, WithdrawnNeverAdmits, SessionFits, AttemptsFit
<1> QED
  BY <1>1, <1>2, <1>3, <1>4, <1>5, <1>6, <1>7, <1>8, <1>9

\* A request that begins has decided nothing.
LEMMA JoinKeepsInv ==
    ASSUME AdmissionInv, NEW p \in Request,
           Join(p)
    PROVE  AdmissionInv'
<1>1. TypeOK'
  BY DEF Join, Begin, EvaluatorsFit, EventsFit, AttemptsFit
<1>2. EvaluatorsFit'
  BY DEF Join, Begin, EvaluatorsFit, EventsFit
<1>3. EventsFit'
  BY DEF Join, Begin, EventsFit, EvaluatorsFit
<1>4. DecisionsAreSound'
  BY DEF Join, Begin, DecisionsAreSound, EvaluatorsFit, EventsFit, RevisionRead
<1>5. SessionFits'
  BY DEF Join, Begin, SessionFits, EvaluatorsFit, DecisionsAreSound, RevisionRead, Linking
<1>6. AttemptsFit'
  BY DEF Join, Begin, AttemptsFit, SessionFits
<1>7. SessionAgrees'
  BY DEF Join, Begin, SessionAgrees, EvaluatorsFit, EventsFit, DecisionsAreSound, SessionFits,
     Consumed, Published, RevisionRead
<1>8. ReleaseIsUnderWay'
  BY DEF Join, Begin, ReleaseIsUnderWay, SessionFits, Live
<1>9. WithdrawnNeverAdmits'
  BY DEF Join, Begin, WithdrawnNeverAdmits, SessionFits, AttemptsFit
<1> QED
  BY <1>1, <1>2, <1>3, <1>4, <1>5, <1>6, <1>7, <1>8, <1>9

\* The session a request links is locked, so it is the only link.
LEMMA LinkKeepsInv ==
    ASSUME AdmissionInv, NEW p \in Request,
           Link(p)
    PROVE  AdmissionInv'
<1>1. TypeOK'
  BY DEF Link, Begin, Linking, EvaluatorsFit, EventsFit, AttemptsFit
<1>2. EvaluatorsFit'
  BY DEF Link, Begin, Linking, EvaluatorsFit, EventsFit
<1>3. EventsFit'
  BY DEF Link, Begin, Linking, EventsFit, EvaluatorsFit
<1>4. DecisionsAreSound'
  BY DEF Link, Begin, Linking, DecisionsAreSound, EvaluatorsFit, EventsFit, RevisionRead
<1>5. SessionFits'
  BY DEF Link, Begin, Linking, SessionFits, EvaluatorsFit, DecisionsAreSound, RevisionRead
<1>6. AttemptsFit'
  BY DEF Link, Begin, Linking, AttemptsFit, SessionFits
<1>7. SessionAgrees'
  BY DEF Link, Begin, Linking, SessionAgrees, EvaluatorsFit, EventsFit, DecisionsAreSound,
     SessionFits, Consumed, Published, RevisionRead
<1>8. ReleaseIsUnderWay'
  BY DEF Link, Begin, Linking, ReleaseIsUnderWay, SessionFits, Live
<1>9. WithdrawnNeverAdmits'
  BY DEF Link, Begin, Linking, WithdrawnNeverAdmits, SessionFits, AttemptsFit
<1> QED
  BY <1>1, <1>2, <1>3, <1>4, <1>5, <1>6, <1>7, <1>8, <1>9

\* The verdict is that of the credentials as they are, after the event's change.
LEMMA ReadCredentialsKeepsInv ==
    ASSUME AdmissionInv, NEW p \in Evaluator,
           ReadCredentials(p)
    PROVE  AdmissionInv'
<1>1. TypeOK'
  <2>1. (decision \in [Evaluator -> Decision])'
    <3>1. decision[p] \in Decision
      OBVIOUS
    <3>2. [decision[p] EXCEPT !.eligible = qualified, !.read = revision] \in Decision
      BY <3>1
    <3>3. decision' = [decision EXCEPT ![p] = [decision[p] EXCEPT !.eligible = qualified, !.read = revision]]
      BY DEF ReadCredentials
    <3> QED
      BY <3>2, <3>3
  <2>2. (at \in [Evaluator -> Steps])'
    BY DEF ReadCredentials
  <2>3. (/\ revision \in 0..MaxRevision /\ qualified \in BOOLEAN
      /\ event \in [Revision -> Event] /\ batch \in [Publisher -> SUBSET Revision]
      /\ current \in [Publisher -> 0..MaxRevision] /\ faults \in 0..MaxFaults
      /\ session \in Session /\ action \in Action /\ lock \in Evaluator \cup {Nobody}
      /\ task \in [Evaluator -> Tasks] /\ prepared \subseteq Attempt
      /\ sent \subseteq Attempt /\ void \subseteq Attempt
      /\ admittedBy \in 0..MaxAttempts /\ misled \in BOOLEAN /\ overtaken \in BOOLEAN)'
    <3>1. UNCHANGED <<revision, qualified, event, batch, current, faults, session, action, lock, task,
                      prepared, sent, void, admittedBy, misled, overtaken>>
      BY DEF ReadCredentials
    <3> QED
      BY SMTT(30), <3>1
  <2> QED
    BY <2>1, <2>2, <2>3
<1>2. EvaluatorsFit'
  BY DEF ReadCredentials, EvaluatorsFit, EventsFit
<1>3. EventsFit'
  BY DEF ReadCredentials, EventsFit, EvaluatorsFit
<1>4. DecisionsAreSound'
  <2> USE DEF DecisionsAreSound
  <2>1. /\ UNCHANGED <<revision, qualified, current>>
        /\ at' = [at EXCEPT ![p] = "fencing"] /\ at[p] = "reading"
    BY DEF ReadCredentials
  <2>2. \A e \in Evaluator : decision'[e] = IF e = p THEN [decision[p] EXCEPT !.eligible = qualified,
                                                                           !.read = revision]
                                                   ELSE decision[e]
    BY DEF ReadCredentials
  <2>3. ASSUME NEW e \in Evaluator, e = p
        PROVE  /\ decision'[e].read = revision /\ decision'[e].revision = decision[e].revision
               /\ decision'[e].eligible = qualified
    <3>1. decision[p] \in Decision
      OBVIOUS
    <3> QED
      BY <2>2, <2>3, <3>1
  <2>4. \A e \in Publisher : current[e] <= revision /\ current[e] \in Nat
    BY DEF EvaluatorsFit
  <2>5. revision' <= revision /\ RevisionRead' = RevisionRead
    BY <2>1 DEF RevisionRead
  <2>6. ASSUME NEW e \in Evaluator
        PROVE  /\ decision'[e].read <= revision /\ decision'[e].revision <= RevisionRead
               /\ at'[e] \in {"fencing", "superseding", "deciding", "committing"}
                    => (decision'[e].read = revision => decision'[e].eligible = qualified)
    <3>1. CASE e = p
      BY SMTT(30), <2>3, <3>1
    <3>2. CASE e # p
      BY <2>1, <2>2, <3>2
    <3> QED
      BY <3>1, <3>2
  <2>7. ASSUME NEW e \in Publisher
        PROVE  /\ at'[e] \in {"fencing", "superseding", "deciding"}
                    => decision'[e].read >= current[e]
               /\ at'[e] \in {"superseding", "deciding"} => decision'[e].revision >= current[e]
    <3>1. CASE e = p
      BY <2>1, <2>3, <2>4, <3>1
    <3>2. CASE e # p
      BY <2>1, <2>2, <3>2
    <3> QED
      BY <3>1, <3>2
  <2> QED
    BY <2>1, <2>5, <2>6, <2>7
<1>5. SessionFits'
  <2>1. UNCHANGED <<session, action, task, revision, admittedBy>>
    BY DEF ReadCredentials
  <2> QED
    BY <2>1 DEF SessionFits, RevisionRead
<1>6. AttemptsFit'
  BY DEF ReadCredentials, AttemptsFit, SessionFits
<1>7. SessionAgrees'
  BY DEF ReadCredentials, SessionAgrees, EvaluatorsFit, EventsFit, DecisionsAreSound, SessionFits,
     Consumed, Published, RevisionRead
<1>8. ReleaseIsUnderWay'
  BY DEF ReadCredentials, ReleaseIsUnderWay, SessionFits, Live
<1>9. WithdrawnNeverAdmits'
  BY DEF ReadCredentials, WithdrawnNeverAdmits, SessionFits, AttemptsFit
<1> QED
  BY <1>1, <1>2, <1>3, <1>4, <1>5, <1>6, <1>7, <1>8, <1>9

\* The revision is read after the credentials, and is the last one or older later.
LEMMA ReadRevisionKeepsInv ==
    ASSUME AdmissionInv, NEW p \in Evaluator,
           ReadRevision(p)
    PROVE  AdmissionInv'
<1>1. TypeOK'
  <2>1. (decision \in [Evaluator -> Decision])'
    <3>1. decision[p] \in Decision
      OBVIOUS
    <3>2. [decision[p] EXCEPT !.revision = RevisionRead] \in Decision
      <4>1. RevisionRead \in 0..(MaxRevision + 1)
        BY DEF RevisionRead
      <4> QED
        BY <3>1, <4>1
    <3>3. decision' = [decision EXCEPT ![p] = [decision[p] EXCEPT !.revision = RevisionRead]]
      BY DEF ReadRevision
    <3> QED
      BY <3>2, <3>3
  <2>2. (at \in [Evaluator -> Steps])'
    BY DEF ReadRevision, RevisionRead
  <2>3. (/\ revision \in 0..MaxRevision /\ qualified \in BOOLEAN
      /\ event \in [Revision -> Event] /\ batch \in [Publisher -> SUBSET Revision]
      /\ current \in [Publisher -> 0..MaxRevision] /\ faults \in 0..MaxFaults
      /\ session \in Session /\ action \in Action /\ lock \in Evaluator \cup {Nobody}
      /\ task \in [Evaluator -> Tasks] /\ prepared \subseteq Attempt
      /\ sent \subseteq Attempt /\ void \subseteq Attempt
      /\ admittedBy \in 0..MaxAttempts /\ misled \in BOOLEAN /\ overtaken \in BOOLEAN)'
    <3>1. UNCHANGED <<revision, qualified, event, batch, current, faults, session, action, lock, task,
                      prepared, sent, void, admittedBy, misled, overtaken>>
      BY DEF ReadRevision, RevisionRead
    <3> QED
      BY SMTT(30), <3>1
  <2> QED
    BY <2>1, <2>2, <2>3
<1>2. EvaluatorsFit'
  BY DEF ReadRevision, RevisionRead, EvaluatorsFit, EventsFit
<1>3. EventsFit'
  BY DEF ReadRevision, RevisionRead, EventsFit, EvaluatorsFit
<1>4. DecisionsAreSound'
  BY SMTT(30) DEF ReadRevision, RevisionRead, DecisionsAreSound, EvaluatorsFit, EventsFit
<1>5. SessionFits'
  BY SMTT(30) DEF ReadRevision, RevisionRead, SessionFits, EvaluatorsFit, DecisionsAreSound, Linking
<1>6. AttemptsFit'
  BY DEF ReadRevision, RevisionRead, AttemptsFit, SessionFits
<1>7. SessionAgrees'
  BY DEF ReadRevision, RevisionRead, SessionAgrees, EvaluatorsFit, EventsFit, DecisionsAreSound,
     SessionFits, Consumed, Published
<1>8. ReleaseIsUnderWay'
  BY DEF ReadRevision, RevisionRead, ReleaseIsUnderWay, SessionFits, Live
<1>9. WithdrawnNeverAdmits'
  BY DEF ReadRevision, RevisionRead, WithdrawnNeverAdmits, SessionFits, AttemptsFit
<1> QED
  BY <1>1, <1>2, <1>3, <1>4, <1>5, <1>6, <1>7, <1>8, <1>9

\* The first statement only takes the lock.
LEMMA SupersedeKeepsInv ==
    ASSUME AdmissionInv, NEW p \in Evaluator,
           Supersede(p)
    PROVE  AdmissionInv'
<1>1. TypeOK'
  BY SMTT(30) DEF Supersede, Supersedes, EvaluatorsFit, EventsFit, AttemptsFit
<1>2. EvaluatorsFit'
  BY DEF Supersede, Supersedes, EvaluatorsFit, EventsFit
<1>3. EventsFit'
  BY DEF Supersede, Supersedes, EventsFit, EvaluatorsFit
<1>4. DecisionsAreSound'
  BY DEF Supersede, Supersedes, DecisionsAreSound, EvaluatorsFit, EventsFit, RevisionRead
<1>5. SessionFits'
  BY DEF Supersede, Supersedes, SessionFits, EvaluatorsFit, DecisionsAreSound, RevisionRead, Linking
<1>6. AttemptsFit'
  BY DEF Supersede, Supersedes, AttemptsFit, SessionFits
<1>7. SessionAgrees'
  BY DEF Supersede, Supersedes, SessionAgrees, EvaluatorsFit, EventsFit, DecisionsAreSound,
     SessionFits, Consumed, Published, RevisionRead
<1>8. ReleaseIsUnderWay'
  BY DEF Supersede, Supersedes, ReleaseIsUnderWay, SessionFits, Live
<1>9. WithdrawnNeverAdmits'
  BY DEF Supersede, Supersedes, WithdrawnNeverAdmits, SessionFits, AttemptsFit
<1> QED
  BY <1>1, <1>2, <1>3, <1>4, <1>5, <1>6, <1>7, <1>8, <1>9

\* A decision is at most as new as the student, and the session gives way to no older one; the
\* decision for an event is as new as the event.
LEMMA DecideKeepsInv ==
    ASSUME AdmissionInv, NEW p \in Evaluator,
           Decide(p)
    PROVE  AdmissionInv'
<1>1. TypeOK'
  <2>1. (session \in Session)'
    <3>1. CASE Grant(p)
      BY <3>1, GrantGives
    <3>2. CASE Refuse(p)
      <4>1. decision[p] \in Decision /\ Seen(p) \in Action
        BY SeenAction
      <4> QED
        BY <3>2, <4>1 DEF Refuse
    <3>3. CASE action' = Seen(p) /\ session' = session /\ void' = void /\ overtaken' = (overtaken \/ lock = p)
      BY <3>3, SeenAction
    <3> QED
      BY <3>1, <3>2, <3>3 DEF Decide
  <2>2. (action \in Action)'
    <3>1. CASE Grant(p)
      BY <3>1, GrantGives
    <3>2. CASE Refuse(p)
      <4>1. decision[p] \in Decision /\ Seen(p) \in Action
        BY SeenAction
      <4> QED
        BY <3>2, <4>1 DEF Refuse
    <3>3. CASE action' = Seen(p) /\ session' = session /\ void' = void /\ overtaken' = (overtaken \/ lock = p)
      BY <3>3, SeenAction
    <3> QED
      BY <3>1, <3>2, <3>3 DEF Decide
  <2>3. (void \subseteq Attempt)'
    <3>1. CASE Grant(p)
      BY <3>1, GrantGives
    <3>2. CASE Refuse(p)
      <4>1. decision[p] \in Decision /\ Seen(p) \in Action
        BY SeenAction
      <4> QED
        BY <3>2, <4>1 DEF Refuse
    <3>3. CASE action' = Seen(p) /\ session' = session /\ void' = void /\ overtaken' = (overtaken \/ lock = p)
      BY <3>3, SeenAction
    <3> QED
      BY <3>1, <3>2, <3>3 DEF Decide
  <2>4. (overtaken \in BOOLEAN)'
    <3>1. CASE Grant(p)
      BY <3>1, GrantGives
    <3>2. CASE Refuse(p)
      <4>1. decision[p] \in Decision /\ Seen(p) \in Action
        BY SeenAction
      <4> QED
        BY <3>2, <4>1 DEF Refuse
    <3>3. CASE action' = Seen(p) /\ session' = session /\ void' = void /\ overtaken' = (overtaken \/ lock = p)
      BY <3>3, SeenAction
    <3> QED
      BY <3>1, <3>2, <3>3 DEF Decide
  <2>5. (misled \in BOOLEAN)'
    <3>1. Wrong(decision[p]) \in BOOLEAN
      BY WrongIsBoolean
    <3>2. misled' = misled \/ misled' = Wrong(decision[p])
      BY DEF Decide
    <3> QED
      BY <3>1, <3>2
  <2>6. (at \in [Evaluator -> Steps])'
    BY DEF Decide, Applies, Grant, Refuse, Seen, Queued, Succeed, Leave
  <2>7. (task \in [Evaluator -> Tasks])'
    BY DEF Decide, Applies, Grant, Refuse, Seen, Queued, Succeed, Leave
  <2>8. (decision \in [Evaluator -> Decision])'
    BY SMTT(30) DEF Decide, Applies, Grant, Refuse, Seen, Queued, Succeed, Leave
  <2>9. (lock \in Evaluator \cup {Nobody})'
    BY DEF Decide, Applies, Grant, Refuse, Seen, Queued, Succeed, Leave
  <2>10. (/\ revision \in 0..MaxRevision /\ qualified \in BOOLEAN
      /\ event \in [Revision -> Event] /\ batch \in [Publisher -> SUBSET Revision]
      /\ current \in [Publisher -> 0..MaxRevision] /\ faults \in 0..MaxFaults
      /\ prepared \subseteq Attempt /\ sent \subseteq Attempt
      /\ admittedBy \in 0..MaxAttempts)'
    <3>1. UNCHANGED <<revision, qualified, event, batch, current, faults, prepared, sent, admittedBy>>
      BY DEF Decide, Applies, Grant, Refuse, Seen, Queued, Succeed, Leave
    <3> QED
      BY <3>1
  <2> QED
    BY <2>1, <2>2, <2>3, <2>4, <2>5, <2>6, <2>7, <2>8, <2>9, <2>10
<1>2. EvaluatorsFit'
  BY DEF Decide, Applies, Grant, Refuse, Seen, Queued, Succeed, Leave, EvaluatorsFit, EventsFit
<1>3. EventsFit'
  BY DEF Decide, Applies, Grant, Refuse, Seen, Queued, Succeed, Leave, EventsFit, EvaluatorsFit
<1>4. DecisionsAreSound'
  BY SMTT(30) DEF Decide, Applies, Grant, Refuse, Seen, Queued, Succeed, Leave, DecisionsAreSound,
     EvaluatorsFit, EventsFit, RevisionRead
<1>5. SessionFits'
  <2>0. /\ UNCHANGED <<revision, qualified, prepared, sent, admittedBy, current, event>>
        /\ action \in Action /\ decision[p] \in Decision /\ at[p] = "deciding"
        /\ \/ Applies(p) /\ Grant(p) /\ decision[p].eligible /\ misled' = Wrong(decision[p])
           \/ Applies(p) /\ Refuse(p) /\ ~decision[p].eligible /\ misled' = Wrong(decision[p])
           \/ /\ ~Applies(p) /\ action' = Seen(p) /\ overtaken' = (overtaken \/ lock = p)
              /\ UNCHANGED <<session, void, misled>>
        /\ \/ task[p] = "event" /\ at' = [at EXCEPT ![p] = "completing"]
           \/ task[p] # "event" /\ at' = [at EXCEPT ![p] = "idle"]
        /\ task' = task \/ task' = [task EXCEPT ![p] = "none"]
    BY DEF Decide, Succeed, Leave
  <2>1. /\ \A q \in Request : task'[q] = "link" => task[q] = "link"
        /\ RevisionRead' = RevisionRead
    BY <2>0 DEF RevisionRead
  <2>2. decision[p].revision <= RevisionRead
    BY DEF DecisionsAreSound
  <2>3. CASE Applies(p)
    <3>1. /\ session.status \in Deciding /\ action.status # "succeeded" /\ admittedBy = 0
          /\ \A q \in Request : task[q] # "link"
      BY <2>3 DEF Applies, SessionFits
    <3>2. /\ session'.status \in Deciding /\ session'.revision = decision[p].revision
          /\ action'.status # "succeeded"
      <4>1. CASE Grant(p)
        BY <3>1, <4>1, GrantGives
      <4>2. CASE Refuse(p)
        BY <3>1, <4>2, SeenAction DEF Refuse
      <4> QED
        BY <2>0, <2>3, <4>1, <4>2
    <3> QED
      BY <2>0, <2>1, <2>2, <3>1, <3>2 DEF SessionFits
  <2>4. CASE ~Applies(p)
    <3>1. action'.status = "succeeded" => action.status = "succeeded"
      BY <2>0, <2>4, SeenAction
    <3> QED
      BY <2>0, <2>1, <2>4, <3>1 DEF SessionFits
  <2> QED
    BY <2>3, <2>4
<1>6. AttemptsFit'
  <2>0. /\ UNCHANGED <<revision, qualified, prepared, sent, admittedBy, current, event>>
        /\ action \in Action /\ decision[p] \in Decision /\ at[p] = "deciding"
        /\ \/ Applies(p) /\ Grant(p) /\ decision[p].eligible /\ misled' = Wrong(decision[p])
           \/ Applies(p) /\ Refuse(p) /\ ~decision[p].eligible /\ misled' = Wrong(decision[p])
           \/ /\ ~Applies(p) /\ action' = Seen(p) /\ overtaken' = (overtaken \/ lock = p)
              /\ UNCHANGED <<session, void, misled>>
        /\ \/ task[p] = "event" /\ at' = [at EXCEPT ![p] = "completing"]
           \/ task[p] # "event" /\ at' = [at EXCEPT ![p] = "idle"]
        /\ task' = task \/ task' = [task EXCEPT ![p] = "none"]
    BY DEF Decide, Succeed, Leave
  <2>1. CASE Grant(p)
    BY <2>0, <2>1, GrantGives DEF AttemptsFit
  <2>2. CASE Refuse(p)
    <3>1. action'.attempts = action.attempts /\ session'.status # "action_pending"
      BY <2>2, SeenAction DEF Refuse
    <3> QED
      BY <2>0, <2>2, <3>1 DEF AttemptsFit, Refuse
  <2>3. CASE action' = Seen(p) /\ UNCHANGED <<session, void>>
    BY <2>0, <2>3, SeenAction DEF AttemptsFit
  <2> QED
    BY <2>0, <2>1, <2>2, <2>3
<1>7. SessionAgrees'
  <2>0. /\ UNCHANGED <<revision, qualified, prepared, sent, admittedBy, current, event>>
        /\ action \in Action /\ decision[p] \in Decision /\ at[p] = "deciding"
        /\ \/ Applies(p) /\ Grant(p) /\ decision[p].eligible /\ misled' = Wrong(decision[p])
           \/ Applies(p) /\ Refuse(p) /\ ~decision[p].eligible /\ misled' = Wrong(decision[p])
           \/ /\ ~Applies(p) /\ action' = Seen(p) /\ overtaken' = (overtaken \/ lock = p)
              /\ UNCHANGED <<session, void, misled>>
        /\ \/ task[p] = "event" /\ at' = [at EXCEPT ![p] = "completing"]
           \/ task[p] # "event" /\ at' = [at EXCEPT ![p] = "idle"]
        /\ task' = task \/ task' = [task EXCEPT ![p] = "none"]
    BY DEF Decide, Succeed, Leave
  <2> SUFFICES ASSUME revision > 0, Consumed(revision)', session'.status \in Deciding, ~misled'
               PROVE  /\ session'.status = "action_pending" <=> qualified
                      /\ session'.status = "action_pending" => session'.revision = revision
    BY <2>0 DEF SessionAgrees
  <2>1. /\ decision[p].revision <= revision /\ session.revision <= revision
        /\ decision[p].read = revision => decision[p].eligible = qualified
        /\ decision[p].revision \in Nat /\ session.revision \in Nat /\ RevisionRead = revision
    <3>1. /\ decision[p].read \in Nat /\ decision[p].revision \in Nat /\ session.revision \in Nat
          /\ RevisionRead = revision
      BY <2>0, SMTT(30) DEF RevisionRead
    <3>2. /\ decision[p].revision <= RevisionRead
          /\ decision[p].read = revision => decision[p].eligible = qualified
      BY <2>0 DEF DecisionsAreSound
    <3>3. session.revision <= RevisionRead
      BY DEF SessionFits
    <3> QED
      BY <3>1, <3>2, <3>3
  <2>2. \/ Consumed(revision)
        \/ p \in Publisher /\ current[p] = revision
    BY <2>0 DEF Consumed, Published
  <2>3. p \in Publisher /\ current[p] = revision => decision[p].revision = revision
    BY <2>0, <2>1 DEF DecisionsAreSound
  <2>4. CASE Applies(p)
    <3>1. decision[p].read = decision[p].revision /\ session.revision <= decision[p].revision
      BY <2>0, <2>4 DEF Wrong, Applies
    <3>2. decision[p].revision = revision
      <4>1. CASE Consumed(revision)
        <5>1. ~(revision > decision[p].revision /\ revision > session.revision)
          <6>1. revision \in Revision
            OBVIOUS
          <6> QED
            BY <2>0, <2>4, <4>1, <6>1 DEF Wrong
        <5> QED
          BY <2>1, <3>1, <5>1
      <4> QED
        BY <2>2, <2>3, <4>1
    <3>3. decision[p].eligible = qualified
      BY <2>1, <3>1, <3>2
    <3>4. CASE Grant(p) /\ decision[p].eligible
      BY <3>2, <3>3, <3>4, GrantGives
    <3>5. CASE Refuse(p) /\ ~decision[p].eligible
      BY <3>3, <3>5 DEF Refuse
    <3> QED
      BY <2>0, <2>4, <3>4, <3>5
  <2>5. CASE ~Applies(p)
    <3>1. UNCHANGED <<session, misled>>
      BY <2>0, <2>5
    <3>2. CASE Consumed(revision)
      BY <3>1, <3>2 DEF SessionAgrees
    <3>3. CASE decision[p].revision = revision
      BY <2>1, <2>5, <3>1, <3>3 DEF Applies
    <3> QED
      BY <2>2, <2>3, <3>2, <3>3
  <2> QED
    BY <2>4, <2>5
<1>8. ReleaseIsUnderWay'
  <2>0. /\ UNCHANGED <<revision, qualified, prepared, sent, admittedBy, current, event>>
        /\ action \in Action /\ decision[p] \in Decision /\ at[p] = "deciding"
        /\ \/ Applies(p) /\ Grant(p) /\ decision[p].eligible /\ misled' = Wrong(decision[p])
           \/ Applies(p) /\ Refuse(p) /\ ~decision[p].eligible /\ misled' = Wrong(decision[p])
           \/ /\ ~Applies(p) /\ action' = Seen(p) /\ overtaken' = (overtaken \/ lock = p)
              /\ UNCHANGED <<session, void, misled>>
        /\ \/ task[p] = "event" /\ at' = [at EXCEPT ![p] = "completing"]
           \/ task[p] # "event" /\ at' = [at EXCEPT ![p] = "idle"]
        /\ task' = task \/ task' = [task EXCEPT ![p] = "none"]
    BY DEF Decide, Succeed, Leave
  <2> USE DEF ReleaseIsUnderWay
  <2>1. CASE Applies(p) /\ Grant(p)
    <3>1. action.status # "succeeded"
      BY <2>1 DEF Applies, SessionFits
    <3> QED
      BY <2>1, <3>1, GrantGives
  <2>2. CASE Refuse(p)
    BY <2>2 DEF Refuse
  <2>3. CASE action' = Seen(p) /\ session' = session /\ overtaken' = (overtaken \/ lock = p)
    BY <2>0, <2>3, SeenAction
  <2> QED
    BY <2>0, <2>1, <2>2, <2>3
<1>9. WithdrawnNeverAdmits'
  BY SMTT(30) DEF Decide, Applies, Grant, Refuse, Seen, Queued, Succeed, Leave, WithdrawnNeverAdmits,
     SessionFits, AttemptsFit
<1> QED
  BY <1>1, <1>2, <1>3, <1>4, <1>5, <1>6, <1>7, <1>8, <1>9

\* A session without a revision takes the first decision that comes.
LEMMA CommitNewKeepsInv ==
    ASSUME AdmissionInv, NEW p \in Evaluator,
           CommitNew(p)
    PROVE  AdmissionInv'
<1>1. TypeOK'
  <2>1. (session \in Session)'
    <3>1. CASE Grant(p)
      BY <3>1, GrantGives
    <3>2. CASE ~Grant(p)
      BY <3>2 DEF CommitNew, CommitLink, CommitJoin
    <3> QED
      BY <3>1, <3>2
  <2>2. (action \in Action)'
    <3>1. CASE Grant(p)
      BY <3>1, GrantGives
    <3>2. CASE ~Grant(p)
      BY <3>2 DEF CommitNew, CommitLink, CommitJoin
    <3> QED
      BY <3>1, <3>2
  <2>3. (void \subseteq Attempt)'
    <3>1. CASE Grant(p)
      BY <3>1, GrantGives
    <3>2. CASE ~Grant(p)
      BY <3>2 DEF CommitNew, CommitLink, CommitJoin
    <3> QED
      BY <3>1, <3>2
  <2>4. (overtaken \in BOOLEAN)'
    <3>1. CASE Grant(p)
      BY <3>1, GrantGives
    <3>2. CASE ~Grant(p)
      BY <3>2 DEF CommitNew, CommitLink, CommitJoin
    <3> QED
      BY <3>1, <3>2
  <2>5. (misled \in BOOLEAN)'
    <3>1. Wrong(decision[p]) \in BOOLEAN
      BY WrongIsBoolean
    <3>2. misled' = misled \/ misled' = Wrong(decision[p])
      BY DEF CommitNew
    <3> QED
      BY <3>1, <3>2
  <2>6. (at \in [Evaluator -> Steps])'
    BY DEF CommitNew, CommitLink, CommitJoin, Grant, Seen, Queued, Leave
  <2>7. (task \in [Evaluator -> Tasks])'
    BY DEF CommitNew, CommitLink, CommitJoin, Grant, Seen, Queued, Leave
  <2>8. (decision \in [Evaluator -> Decision])'
    BY SMTT(30) DEF CommitNew, CommitLink, CommitJoin, Grant, Seen, Queued, Leave
  <2>9. (lock \in Evaluator \cup {Nobody})'
    BY DEF CommitNew, CommitLink, CommitJoin, Grant, Seen, Queued, Leave
  <2>10. (/\ revision \in 0..MaxRevision /\ qualified \in BOOLEAN
      /\ event \in [Revision -> Event] /\ batch \in [Publisher -> SUBSET Revision]
      /\ current \in [Publisher -> 0..MaxRevision] /\ faults \in 0..MaxFaults
      /\ prepared \subseteq Attempt /\ sent \subseteq Attempt
      /\ admittedBy \in 0..MaxAttempts)'
    <3>1. UNCHANGED <<revision, qualified, event, batch, current, faults, prepared, sent, admittedBy>>
      BY DEF CommitNew, CommitLink, CommitJoin, Grant, Seen, Queued, Leave
    <3> QED
      BY <3>1
  <2> QED
    BY <2>1, <2>2, <2>3, <2>4, <2>5, <2>6, <2>7, <2>8, <2>9, <2>10
<1>2. EvaluatorsFit'
  BY DEF CommitNew, CommitLink, CommitJoin, Grant, Seen, Queued, Leave, EvaluatorsFit, EventsFit
<1>3. EventsFit'
  BY DEF CommitNew, CommitLink, CommitJoin, Grant, Seen, Queued, Leave, EventsFit, EvaluatorsFit
<1>4. DecisionsAreSound'
  BY DEF CommitNew, CommitLink, CommitJoin, Grant, Seen, Queued, Leave, DecisionsAreSound,
     EvaluatorsFit, EventsFit, RevisionRead
<1>5. SessionFits'
  <2>0. /\ UNCHANGED <<revision, qualified, prepared, sent, admittedBy, current, event>>
        /\ action \in Action /\ decision[p] \in Decision /\ at[p] = "committing"
        /\ at' = [at EXCEPT ![p] = "idle"] /\ task' = [task EXCEPT ![p] = "none"]
        /\ misled' = IF session' = session THEN misled ELSE Wrong(decision[p])
    BY DEF CommitNew, Leave
  <2>1. /\ task[p] \in {"link", "join"} /\ p \in Request
        /\ task[p] = "link" => session.status = "awaiting_account_link"
    BY <2>0 DEF CommitNew, CommitLink, CommitJoin, EvaluatorsFit, SessionFits
  <2>2. \/ /\ Grant(p) /\ decision[p].eligible
           /\ session.status \in {"absent", "awaiting_account_link"}
           /\ session.status = "absent" \/ task[p] = "link"
        \/ /\ \/ /\ task[p] = "link" /\ ~decision[p].eligible
                 /\ session' = [session EXCEPT !.status = "awaiting_requirements"]
              \/ /\ session.status = "absent"
                 /\ session' = [session EXCEPT !.status = "awaiting_account_link"]
              \/ /\ session.status \in Waiting /\ ~Linking
                 /\ session' = [session EXCEPT !.status = "ended"]
              \/ session' = session /\ task[p] = "join"
           /\ UNCHANGED <<action, void, overtaken>>
    BY <2>1 DEF CommitNew, CommitLink, CommitJoin
  <2>3. session \in Session
    OBVIOUS
  <2>4. /\ \A q \in Request : task'[q] = "link" => task[q] = "link" /\ q # p
        /\ RevisionRead' = RevisionRead
    BY <2>0 DEF RevisionRead
  <2>5. decision[p].revision <= RevisionRead
    BY DEF DecisionsAreSound
  <2>6. CASE Grant(p) /\ (session.status = "absent" \/ task[p] = "link")
    <3>1. /\ action.status # "succeeded" /\ admittedBy = 0
          /\ \A q \in Request : task'[q] # "link"
      BY <2>1, <2>4, <2>6 DEF SessionFits
    <3> QED
      BY <2>0, <2>4, <2>5, <2>6, <3>1, GrantGives DEF SessionFits
  <2>7. CASE /\ task[p] = "link" /\ action' = action
             /\ session' = [session EXCEPT !.status = "awaiting_requirements"]
    BY <2>0, <2>1, <2>3, <2>4, <2>7 DEF SessionFits
  <2>8. CASE /\ session.status = "absent" /\ action' = action
             /\ session' = [session EXCEPT !.status = "awaiting_account_link"]
    BY <2>0, <2>1, <2>3, <2>4, <2>8 DEF SessionFits
  <2>9. CASE /\ session.status \in Waiting /\ ~Linking /\ action' = action
             /\ session' = [session EXCEPT !.status = "ended"]
    BY <2>0, <2>1, <2>3, <2>4, <2>9 DEF SessionFits, Linking
  <2>10. CASE session' = session /\ action' = action
    BY <2>0, <2>1, <2>3, <2>4, <2>10 DEF SessionFits
  <2> QED
    BY <2>2, <2>6, <2>7, <2>8, <2>9, <2>10
<1>6. AttemptsFit'
  <2>0. /\ UNCHANGED <<revision, qualified, prepared, sent, admittedBy, current, event>>
        /\ action \in Action /\ decision[p] \in Decision /\ at[p] = "committing"
        /\ at' = [at EXCEPT ![p] = "idle"] /\ task' = [task EXCEPT ![p] = "none"]
        /\ misled' = IF session' = session THEN misled ELSE Wrong(decision[p])
    BY DEF CommitNew, Leave
  <2>1. /\ task[p] \in {"link", "join"} /\ p \in Request
        /\ task[p] = "link" => session.status = "awaiting_account_link"
    BY <2>0 DEF CommitNew, CommitLink, CommitJoin, EvaluatorsFit, SessionFits
  <2>2. \/ /\ Grant(p) /\ decision[p].eligible
           /\ session.status \in {"absent", "awaiting_account_link"}
           /\ session.status = "absent" \/ task[p] = "link"
        \/ /\ \/ /\ task[p] = "link" /\ ~decision[p].eligible
                 /\ session' = [session EXCEPT !.status = "awaiting_requirements"]
              \/ /\ session.status = "absent"
                 /\ session' = [session EXCEPT !.status = "awaiting_account_link"]
              \/ /\ session.status \in Waiting /\ ~Linking
                 /\ session' = [session EXCEPT !.status = "ended"]
              \/ session' = session /\ task[p] = "join"
           /\ UNCHANGED <<action, void, overtaken>>
    BY <2>1 DEF CommitNew, CommitLink, CommitJoin
  <2>3. session \in Session
    OBVIOUS
  <2>4. CASE Grant(p)
    BY <2>0, <2>4, GrantGives DEF AttemptsFit
  <2>5. CASE /\ UNCHANGED <<action, void>>
             /\ session'.status = "action_pending" => session.status = "action_pending"
    BY <2>0, <2>5 DEF AttemptsFit
  <2> QED
    BY <2>2, <2>3, <2>4, <2>5
<1>7. SessionAgrees'
  <2>0. /\ UNCHANGED <<revision, qualified, prepared, sent, admittedBy, current, event>>
        /\ action \in Action /\ decision[p] \in Decision /\ at[p] = "committing"
        /\ at' = [at EXCEPT ![p] = "idle"] /\ task' = [task EXCEPT ![p] = "none"]
        /\ misled' = IF session' = session THEN misled ELSE Wrong(decision[p])
    BY DEF CommitNew, Leave
  <2>1. /\ task[p] \in {"link", "join"} /\ p \in Request
        /\ task[p] = "link" => session.status = "awaiting_account_link"
    BY <2>0 DEF CommitNew, CommitLink, CommitJoin, EvaluatorsFit, SessionFits
  <2>2. \/ /\ Grant(p) /\ decision[p].eligible
           /\ session.status \in {"absent", "awaiting_account_link"}
           /\ session.status = "absent" \/ task[p] = "link"
        \/ /\ \/ /\ task[p] = "link" /\ ~decision[p].eligible
                 /\ session' = [session EXCEPT !.status = "awaiting_requirements"]
              \/ /\ session.status = "absent"
                 /\ session' = [session EXCEPT !.status = "awaiting_account_link"]
              \/ /\ session.status \in Waiting /\ ~Linking
                 /\ session' = [session EXCEPT !.status = "ended"]
              \/ session' = session /\ task[p] = "join"
           /\ UNCHANGED <<action, void, overtaken>>
    BY <2>1 DEF CommitNew, CommitLink, CommitJoin
  <2>3. session \in Session
    OBVIOUS
  <2> SUFFICES ASSUME revision > 0, Consumed(revision)', session'.status \in Deciding, ~misled'
               PROVE  /\ session'.status = "action_pending" <=> qualified
                      /\ session'.status = "action_pending" => session'.revision = revision
    BY <2>0 DEF SessionAgrees
  <2>4. Consumed(revision)
    BY <2>0, <2>1 DEF Consumed, Published
  <2>5. CASE session' = session
    BY <2>0, <2>4, <2>5 DEF SessionAgrees
  <2>6. CASE session' # session
    <3>1. session.status \in {"absent", "awaiting_account_link"} /\ session.revision = 0
      BY <2>1, <2>2, <2>3, <2>6 DEF SessionFits
    <3>2. /\ decision[p].revision <= revision /\ decision[p].revision \in Nat
          /\ decision[p].read = revision => decision[p].eligible = qualified
      BY <2>0 DEF DecisionsAreSound, RevisionRead
    <3>3. decision[p].read = revision /\ decision[p].revision = revision
      BY <2>0, <2>4, <2>6, <3>1, <3>2 DEF Wrong
    <3>4. CASE Grant(p) /\ decision[p].eligible
      BY <3>2, <3>3, <3>4, GrantGives
    <3>5. CASE /\ ~decision[p].eligible
               /\ session' = [session EXCEPT !.status = "awaiting_requirements"]
      BY <2>3, <3>2, <3>3, <3>5
    <3> QED
      BY <2>2, <2>3, <2>6, <3>4, <3>5
  <2> QED
    BY <2>5, <2>6
<1>8. ReleaseIsUnderWay'
  <2>0. /\ UNCHANGED <<revision, qualified, prepared, sent, admittedBy, current, event>>
        /\ action \in Action /\ decision[p] \in Decision /\ at[p] = "committing"
        /\ at' = [at EXCEPT ![p] = "idle"] /\ task' = [task EXCEPT ![p] = "none"]
        /\ misled' = IF session' = session THEN misled ELSE Wrong(decision[p])
    BY DEF CommitNew, Leave
  <2>1. /\ task[p] \in {"link", "join"} /\ p \in Request
        /\ task[p] = "link" => session.status = "awaiting_account_link"
    BY <2>0 DEF CommitNew, CommitLink, CommitJoin, EvaluatorsFit, SessionFits
  <2>2. \/ /\ Grant(p) /\ decision[p].eligible
           /\ session.status \in {"absent", "awaiting_account_link"}
           /\ session.status = "absent" \/ task[p] = "link"
        \/ /\ \/ /\ task[p] = "link" /\ ~decision[p].eligible
                 /\ session' = [session EXCEPT !.status = "awaiting_requirements"]
              \/ /\ session.status = "absent"
                 /\ session' = [session EXCEPT !.status = "awaiting_account_link"]
              \/ /\ session.status \in Waiting /\ ~Linking
                 /\ session' = [session EXCEPT !.status = "ended"]
              \/ session' = session /\ task[p] = "join"
           /\ UNCHANGED <<action, void, overtaken>>
    BY <2>1 DEF CommitNew, CommitLink, CommitJoin
  <2>3. session \in Session
    OBVIOUS
  <2> USE DEF ReleaseIsUnderWay
  <2>4. CASE Grant(p) /\ session.status \in {"absent", "awaiting_account_link"}
    <3>1. action.status # "succeeded"
      BY <2>4 DEF SessionFits
    <3> QED
      BY <2>4, <3>1, GrantGives
  <2>5. CASE UNCHANGED <<session, action, overtaken>>
    BY <2>5
  <2>6. CASE session'.status # "action_pending"
    BY <2>6
  <2> QED
    BY <2>2, <2>3, <2>4, <2>5, <2>6
<1>9. WithdrawnNeverAdmits'
  BY DEF CommitNew, CommitLink, CommitJoin, Grant, Seen, Queued, Leave, WithdrawnNeverAdmits,
     SessionFits, AttemptsFit
<1> QED
  BY <1>1, <1>2, <1>3, <1>4, <1>5, <1>6, <1>7, <1>8, <1>9

\* A decision that fails leaves no trace.
LEMMA FailEvaluationKeepsInv ==
    ASSUME AdmissionInv, NEW p \in Evaluator,
           FailEvaluation(p)
    PROVE  AdmissionInv'
<1>1. TypeOK'
  <2>1. (faults \in 0..MaxFaults)'
    BY DEF FailEvaluation, Fault, Fail, Leave
  <2>2. (at \in [Evaluator -> Steps])'
    BY DEF FailEvaluation, Fault, Fail, Leave
  <2>3. (task \in [Evaluator -> Tasks])'
    BY DEF FailEvaluation, Fault, Fail, Leave
  <2>4. (decision \in [Evaluator -> Decision])'
    BY DEF FailEvaluation, Fault, Fail, Leave
  <2>5. (lock \in Evaluator \cup {Nobody})'
    BY DEF FailEvaluation, Fault, Fail, Leave
  <2>6. (/\ revision \in 0..MaxRevision /\ qualified \in BOOLEAN
      /\ event \in [Revision -> Event] /\ batch \in [Publisher -> SUBSET Revision]
      /\ current \in [Publisher -> 0..MaxRevision] /\ session \in Session
      /\ action \in Action /\ prepared \subseteq Attempt /\ sent \subseteq Attempt
      /\ void \subseteq Attempt /\ admittedBy \in 0..MaxAttempts /\ misled \in BOOLEAN
      /\ overtaken \in BOOLEAN)'
    BY DEF FailEvaluation, Fault, Fail, Leave
  <2> QED
    BY <2>1, <2>2, <2>3, <2>4, <2>5, <2>6
<1>2. EvaluatorsFit'
  BY DEF FailEvaluation, Fault, Fail, Leave, EvaluatorsFit, EventsFit
<1>3. EventsFit'
  BY DEF FailEvaluation, Fault, Fail, Leave, EventsFit, EvaluatorsFit
<1>4. DecisionsAreSound'
  BY SMTT(30) DEF FailEvaluation, Fault, Fail, Leave, DecisionsAreSound, EvaluatorsFit, EventsFit,
     RevisionRead
<1>5. SessionFits'
  BY SMTT(30) DEF FailEvaluation, Fault, Fail, Leave, SessionFits, EvaluatorsFit, DecisionsAreSound,
     RevisionRead, Linking
<1>6. AttemptsFit'
  BY DEF FailEvaluation, Fault, Fail, Leave, AttemptsFit, SessionFits
<1>7. SessionAgrees'
  BY DEF FailEvaluation, Fault, Fail, Leave, SessionAgrees, EvaluatorsFit, EventsFit,
     DecisionsAreSound, SessionFits, Consumed, Published, RevisionRead
<1>8. ReleaseIsUnderWay'
  BY DEF FailEvaluation, Fault, Fail, Leave, ReleaseIsUnderWay, SessionFits, Live
<1>9. WithdrawnNeverAdmits'
  BY DEF FailEvaluation, Fault, Fail, Leave, WithdrawnNeverAdmits, SessionFits, AttemptsFit
<1> QED
  BY <1>1, <1>2, <1>3, <1>4, <1>5, <1>6, <1>7, <1>8, <1>9

\* A decision that is lost leaves no trace.
LEMMA CrashKeepsInv ==
    ASSUME AdmissionInv, NEW p \in Evaluator,
           Crash(p)
    PROVE  AdmissionInv'
<1>1. TypeOK'
  <2>1. (faults \in 0..MaxFaults)'
    BY DEF Crash, Abort, Fault, Leave
  <2>2. (batch \in [Publisher -> SUBSET Revision])'
    BY DEF Crash, Abort, Fault, Leave
  <2>3. (current \in [Publisher -> 0..MaxRevision])'
    <3>1. current' = current \/ current' = [current EXCEPT ![p] = 0]
      BY DEF Crash, Abort
    <3>2. 0 \in 0..MaxRevision
      OBVIOUS
    <3> QED
      BY <3>1, <3>2
  <2>4. (at \in [Evaluator -> Steps])'
    BY DEF Crash, Abort, Fault, Leave
  <2>5. (task \in [Evaluator -> Tasks])'
    BY DEF Crash, Abort, Fault, Leave
  <2>6. (decision \in [Evaluator -> Decision])'
    BY DEF Crash, Abort, Fault, Leave
  <2>7. (lock \in Evaluator \cup {Nobody})'
    BY DEF Crash, Abort, Fault, Leave
  <2>8. (/\ revision \in 0..MaxRevision /\ qualified \in BOOLEAN
      /\ event \in [Revision -> Event] /\ session \in Session /\ action \in Action
      /\ prepared \subseteq Attempt /\ sent \subseteq Attempt /\ void \subseteq Attempt
      /\ admittedBy \in 0..MaxAttempts /\ misled \in BOOLEAN /\ overtaken \in BOOLEAN)'
    BY DEF Crash, Abort, Fault, Leave
  <2> QED
    BY <2>1, <2>2, <2>3, <2>4, <2>5, <2>6, <2>7, <2>8
<1>2. EvaluatorsFit'
  BY SMTT(30) DEF Crash, Abort, Fault, Leave, EvaluatorsFit, EventsFit
<1>3. EventsFit'
  <2>1. /\ UNCHANGED <<event, revision>>
        /\ batch' = batch \/ batch' = [batch EXCEPT ![p] = {}]
    BY DEF Crash, Abort
  <2> QED
    BY <2>1 DEF EventsFit
<1>4. DecisionsAreSound'
  <2>1. /\ at' = [at EXCEPT ![p] = "idle"] /\ decision' = [decision EXCEPT ![p] = NoDecision]
        /\ UNCHANGED <<revision, qualified>>
        /\ current' = current \/ current' = [current EXCEPT ![p] = 0]
    BY DEF Crash, Abort, Leave
  <2> QED
    BY <2>1, SMTT(30) DEF DecisionsAreSound, RevisionRead
<1>5. SessionFits'
  BY DEF Crash, Abort, Fault, Leave, SessionFits, EvaluatorsFit, DecisionsAreSound, RevisionRead,
     Linking
<1>6. AttemptsFit'
  BY DEF Crash, Abort, Fault, Leave, AttemptsFit, SessionFits
<1>7. SessionAgrees'
  BY SMTT(30) DEF Crash, Abort, Fault, Leave, SessionAgrees, EvaluatorsFit, EventsFit, DecisionsAreSound,
     SessionFits, Consumed, Published, RevisionRead
<1>8. ReleaseIsUnderWay'
  BY DEF Crash, Abort, Fault, Leave, ReleaseIsUnderWay, SessionFits, Live
<1>9. WithdrawnNeverAdmits'
  BY DEF Crash, Abort, Fault, Leave, WithdrawnNeverAdmits, SessionFits, AttemptsFit
<1> QED
  BY <1>1, <1>2, <1>3, <1>4, <1>5, <1>6, <1>7, <1>8, <1>9

\* A session of nobody has no decision.
LEMMA CreatePendingKeepsInv ==
    ASSUME AdmissionInv,
           CreatePending
    PROVE  AdmissionInv'
<1>1. TypeOK'
  BY DEF CreatePending, EvaluatorsFit, EventsFit, AttemptsFit
<1>2. EvaluatorsFit'
  BY DEF CreatePending, EvaluatorsFit, EventsFit
<1>3. EventsFit'
  BY DEF CreatePending, EventsFit, EvaluatorsFit
<1>4. DecisionsAreSound'
  BY DEF CreatePending, DecisionsAreSound, EvaluatorsFit, EventsFit, RevisionRead
<1>5. SessionFits'
  BY DEF CreatePending, SessionFits, EvaluatorsFit, DecisionsAreSound, RevisionRead, Linking
<1>6. AttemptsFit'
  BY DEF CreatePending, AttemptsFit, SessionFits
<1>7. SessionAgrees'
  BY DEF CreatePending, SessionAgrees, EvaluatorsFit, EventsFit, DecisionsAreSound, SessionFits,
     Consumed, Published, RevisionRead
<1>8. ReleaseIsUnderWay'
  BY DEF CreatePending, ReleaseIsUnderWay, SessionFits, Live
<1>9. WithdrawnNeverAdmits'
  BY DEF CreatePending, WithdrawnNeverAdmits, SessionFits, AttemptsFit
<1> QED
  BY <1>1, <1>2, <1>3, <1>4, <1>5, <1>6, <1>7, <1>8, <1>9

\* A session ends only before it is granted, and not while it is linked.
LEMMA EndKeepsInv ==
    ASSUME AdmissionInv,
           End
    PROVE  AdmissionInv'
<1>1. TypeOK'
  BY DEF End, Linking, EvaluatorsFit, EventsFit, AttemptsFit
<1>2. EvaluatorsFit'
  BY DEF End, Linking, EvaluatorsFit, EventsFit
<1>3. EventsFit'
  BY DEF End, Linking, EventsFit, EvaluatorsFit
<1>4. DecisionsAreSound'
  BY DEF End, Linking, DecisionsAreSound, EvaluatorsFit, EventsFit, RevisionRead
<1>5. SessionFits'
  BY DEF End, Linking, SessionFits, EvaluatorsFit, DecisionsAreSound, RevisionRead
<1>6. AttemptsFit'
  BY DEF End, Linking, AttemptsFit, SessionFits
<1>7. SessionAgrees'
  BY DEF End, Linking, SessionAgrees, EvaluatorsFit, EventsFit, DecisionsAreSound, SessionFits,
     Consumed, Published, RevisionRead
<1>8. ReleaseIsUnderWay'
  BY DEF End, Linking, ReleaseIsUnderWay, SessionFits, Live
<1>9. WithdrawnNeverAdmits'
  BY DEF End, Linking, WithdrawnNeverAdmits, SessionFits, AttemptsFit
<1> QED
  BY <1>1, <1>2, <1>3, <1>4, <1>5, <1>6, <1>7, <1>8, <1>9

\* The attempt that is claimed is new: void, sent and prepared attempts are below it.
LEMMA ClaimActionKeepsInv ==
    ASSUME AdmissionInv,
           ClaimAction
    PROVE  AdmissionInv'
<1>1. TypeOK'
  <2>1. (action \in Action)'
    <3>1. \/ ~Matches /\ action' = [action EXCEPT !.status = "stale"] /\ prepared' = prepared
          \/ Matches /\ action' = [action EXCEPT !.status = "dead_letter"] /\ prepared' = prepared
          \/ /\ Matches /\ action.attempts < MaxAttempts
             /\ action' = [action EXCEPT !.status = "dispatched", !.attempts = action.attempts + 1]
             /\ prepared' = prepared \cup {action.attempts + 1}
      BY DEF ClaimAction
    <3>2. action \in Action /\ UNCHANGED <<session, sent, void, overtaken>> /\ action.status \in Live
      BY DEF ClaimAction
    <3>3. CASE action' = [action EXCEPT !.status = "stale"]
      BY <3>2, <3>3
    <3>4. CASE action' = [action EXCEPT !.status = "dead_letter"]
      BY <3>2, <3>4
    <3>5. CASE /\ action.attempts < MaxAttempts
               /\ action' = [action EXCEPT !.status = "dispatched", !.attempts = action.attempts + 1]
      <4>1. action.attempts + 1 \in 0..MaxAttempts
        BY SMTT(30), <3>2, <3>5
      <4> QED
        BY <3>2, <3>5, <4>1
    <3> QED
      BY <3>1, <3>3, <3>4, <3>5
  <2>2. (prepared \subseteq Attempt)'
    BY DEF ClaimAction, Matches, Live
  <2>3. (/\ revision \in 0..MaxRevision /\ qualified \in BOOLEAN
      /\ event \in [Revision -> Event] /\ batch \in [Publisher -> SUBSET Revision]
      /\ current \in [Publisher -> 0..MaxRevision] /\ faults \in 0..MaxFaults
      /\ session \in Session /\ lock \in Evaluator \cup {Nobody}
      /\ at \in [Evaluator -> Steps] /\ task \in [Evaluator -> Tasks]
      /\ decision \in [Evaluator -> Decision] /\ sent \subseteq Attempt
      /\ void \subseteq Attempt /\ admittedBy \in 0..MaxAttempts /\ misled \in BOOLEAN
      /\ overtaken \in BOOLEAN)'
    BY DEF ClaimAction, Matches, Live
  <2> QED
    BY <2>1, <2>2, <2>3
<1>2. EvaluatorsFit'
  BY DEF ClaimAction, Matches, Live, EvaluatorsFit, EventsFit
<1>3. EventsFit'
  BY DEF ClaimAction, Matches, Live, EventsFit, EvaluatorsFit
<1>4. DecisionsAreSound'
  BY DEF ClaimAction, Matches, Live, DecisionsAreSound, EvaluatorsFit, EventsFit, RevisionRead
<1>5. SessionFits'
  <2>1. UNCHANGED <<session, task, revision, admittedBy>> /\ action'.status # "succeeded"
    BY DEF ClaimAction, Live
  <2> QED
    BY <2>1 DEF SessionFits, RevisionRead
<1>6. AttemptsFit'
  <2>1. \/ ~Matches /\ action' = [action EXCEPT !.status = "stale"] /\ prepared' = prepared
        \/ Matches /\ action' = [action EXCEPT !.status = "dead_letter"] /\ prepared' = prepared
        \/ /\ Matches /\ action.attempts < MaxAttempts
           /\ action' = [action EXCEPT !.status = "dispatched", !.attempts = action.attempts + 1]
           /\ prepared' = prepared \cup {action.attempts + 1}
    BY DEF ClaimAction
  <2>2. action \in Action /\ UNCHANGED <<session, sent, void, overtaken>> /\ action.status \in Live
    BY DEF ClaimAction
  <2>3. CASE action' = [action EXCEPT !.status = "stale"] /\ prepared' = prepared
    BY <2>2, <2>3 DEF AttemptsFit
  <2>4. CASE action' = [action EXCEPT !.status = "dead_letter"] /\ prepared' = prepared
    BY <2>2, <2>4 DEF AttemptsFit
  <2>5. CASE /\ action' = [action EXCEPT !.status = "dispatched", !.attempts = action.attempts + 1]
             /\ prepared' = prepared \cup {action.attempts + 1}
    <3>1. action'.attempts = action.attempts + 1 /\ action.attempts \in Nat
      BY <2>2, <2>5
    <3> QED
      BY <2>2, <2>5, <3>1, SMTT(30) DEF AttemptsFit
  <2> QED
    BY <2>1, <2>3, <2>4, <2>5
<1>7. SessionAgrees'
  BY DEF ClaimAction, Matches, Live, SessionAgrees, EvaluatorsFit, EventsFit, DecisionsAreSound,
     SessionFits, Consumed, Published, RevisionRead
<1>8. ReleaseIsUnderWay'
  <2>1. \/ ~Matches /\ action' = [action EXCEPT !.status = "stale"] /\ prepared' = prepared
        \/ Matches /\ action' = [action EXCEPT !.status = "dead_letter"] /\ prepared' = prepared
        \/ /\ Matches /\ action.attempts < MaxAttempts
           /\ action' = [action EXCEPT !.status = "dispatched", !.attempts = action.attempts + 1]
           /\ prepared' = prepared \cup {action.attempts + 1}
    BY DEF ClaimAction
  <2>2. action \in Action /\ UNCHANGED <<session, sent, void, overtaken>> /\ action.status \in Live
    BY DEF ClaimAction
  <2> USE DEF ReleaseIsUnderWay, Matches, Live
  <2>3. CASE ~Matches /\ action' = [action EXCEPT !.status = "stale"]
    BY <2>2, <2>3
  <2>4. CASE action' = [action EXCEPT !.status = "dead_letter"]
    BY <2>2, <2>4
  <2>5. CASE /\ Matches
             /\ action' = [action EXCEPT !.status = "dispatched", !.attempts = action.attempts + 1]
    <3>1. action'.status = "dispatched" /\ action'.revision = action.revision
      BY <2>2, <2>5
    <3> QED
      BY <2>2, <2>5, <3>1
  <2> QED
    BY <2>1, <2>3, <2>4, <2>5
<1>9. WithdrawnNeverAdmits'
  BY DEF ClaimAction, Matches, Live, WithdrawnNeverAdmits, SessionFits, AttemptsFit
<1> QED
  BY <1>1, <1>2, <1>3, <1>4, <1>5, <1>6, <1>7, <1>8, <1>9

\* An attempt that is sent is not prepared any more.
LEMMA ExposeKeepsInv ==
    ASSUME AdmissionInv, NEW n \in Attempt,
           Expose(n)
    PROVE  AdmissionInv'
<1>1. TypeOK'
  BY SMTT(90) DEF Expose, EvaluatorsFit, EventsFit, AttemptsFit
<1>2. EvaluatorsFit'
  BY DEF Expose, EvaluatorsFit, EventsFit
<1>3. EventsFit'
  BY DEF Expose, EventsFit, EvaluatorsFit
<1>4. DecisionsAreSound'
  BY DEF Expose, DecisionsAreSound, EvaluatorsFit, EventsFit, RevisionRead
<1>5. SessionFits'
  BY DEF Expose, SessionFits, EvaluatorsFit, DecisionsAreSound, RevisionRead, Linking
<1>6. AttemptsFit'
  BY DEF Expose, AttemptsFit, SessionFits
<1>7. SessionAgrees'
  BY DEF Expose, SessionAgrees, EvaluatorsFit, EventsFit, DecisionsAreSound, SessionFits, Consumed,
     Published, RevisionRead
<1>8. ReleaseIsUnderWay'
  BY DEF Expose, ReleaseIsUnderWay, SessionFits, Live
<1>9. WithdrawnNeverAdmits'
  BY DEF Expose, WithdrawnNeverAdmits, SessionFits, AttemptsFit
<1> QED
  BY <1>1, <1>2, <1>3, <1>4, <1>5, <1>6, <1>7, <1>8, <1>9

\* An attempt is given back only if nobody was given it, and is then not void.
LEMMA AbandonKeepsInv ==
    ASSUME AdmissionInv, NEW n \in Attempt,
           Abandon(n)
    PROVE  AdmissionInv'
<1>1. TypeOK'
  <2>1. (action \in Action)'
    <3>1. /\ action \in Action /\ n \in prepared /\ prepared' = prepared \ {n}
          /\ UNCHANGED <<session, sent, overtaken>>
      BY DEF Abandon
    <3>2. \/ UNCHANGED <<action, void>>
          \/ /\ action.status = "dispatched" /\ action.attempts = n /\ void' = void \ {n}
             /\ \E s \in {"pending", "failed"} :
                   action' = [action EXCEPT !.status = s, !.attempts = n - 1]
      BY DEF Abandon
    <3>3. CASE UNCHANGED <<action, void>>
      BY <3>1, <3>3
    <3>4. CASE /\ action.status = "dispatched" /\ action.attempts = n /\ void' = void \ {n}
               /\ \E s \in {"pending", "failed"} :
                     action' = [action EXCEPT !.status = s, !.attempts = n - 1]
      <4>1. PICK s \in {"pending", "failed"} :
                   action' = [action EXCEPT !.status = s, !.attempts = n - 1]
        BY <3>4
      <4>2. n - 1 \in 0..MaxAttempts
        OBVIOUS
      <4>3. [action EXCEPT !.status = s, !.attempts = n - 1] \in Action
        BY <3>1, <4>2
      <4>4. /\ action'.status = s /\ action'.attempts = n - 1 /\ action'.revision = action.revision
            /\ action' \in Action
        BY <3>1, <4>1, <4>3
      <4>5. \A k \in 1..n : k # n => k \in 1..(n - 1)
        OBVIOUS
      <4> QED
        BY <3>1, <3>4, <4>4, <4>5
    <3> QED
      BY <3>2, <3>3, <3>4
  <2>2. (prepared \subseteq Attempt)'
    BY DEF Abandon, Fault
  <2>3. (void \subseteq Attempt)'
    BY DEF Abandon, Fault
  <2>4. (faults \in 0..MaxFaults)'
    BY DEF Abandon, Fault
  <2>5. (/\ revision \in 0..MaxRevision /\ qualified \in BOOLEAN
      /\ event \in [Revision -> Event] /\ batch \in [Publisher -> SUBSET Revision]
      /\ current \in [Publisher -> 0..MaxRevision] /\ session \in Session
      /\ lock \in Evaluator \cup {Nobody} /\ at \in [Evaluator -> Steps]
      /\ task \in [Evaluator -> Tasks] /\ decision \in [Evaluator -> Decision]
      /\ sent \subseteq Attempt /\ admittedBy \in 0..MaxAttempts /\ misled \in BOOLEAN
      /\ overtaken \in BOOLEAN)'
    BY DEF Abandon, Fault
  <2> QED
    BY <2>1, <2>2, <2>3, <2>4, <2>5
<1>2. EvaluatorsFit'
  BY DEF Abandon, Fault, EvaluatorsFit, EventsFit
<1>3. EventsFit'
  BY DEF Abandon, Fault, EventsFit, EvaluatorsFit
<1>4. DecisionsAreSound'
  BY DEF Abandon, Fault, DecisionsAreSound, EvaluatorsFit, EventsFit, RevisionRead
<1>5. SessionFits'
  <2>1. /\ UNCHANGED <<session, task, revision, admittedBy>>
        /\ action'.status = "succeeded" => action.status = "succeeded"
    BY DEF Abandon
  <2> QED
    BY <2>1 DEF SessionFits, RevisionRead
<1>6. AttemptsFit'
  <2>1. /\ action \in Action /\ n \in prepared /\ prepared' = prepared \ {n}
        /\ UNCHANGED <<session, sent, overtaken>>
    BY DEF Abandon
  <2>2. \/ UNCHANGED <<action, void>>
        \/ /\ action.status = "dispatched" /\ action.attempts = n /\ void' = void \ {n}
           /\ \E s \in {"pending", "failed"} :
                 action' = [action EXCEPT !.status = s, !.attempts = n - 1]
    BY DEF Abandon
  <2>3. CASE UNCHANGED <<action, void>>
    BY <2>1, <2>3 DEF AttemptsFit
  <2>4. CASE /\ action.status = "dispatched" /\ action.attempts = n /\ void' = void \ {n}
             /\ \E s \in {"pending", "failed"} :
                   action' = [action EXCEPT !.status = s, !.attempts = n - 1]
    <3>1. PICK s \in {"pending", "failed"} :
                 action' = [action EXCEPT !.status = s, !.attempts = n - 1]
      BY <2>4
    <3>2. n - 1 \in 0..MaxAttempts
      OBVIOUS
    <3>3. [action EXCEPT !.status = s, !.attempts = n - 1] \in Action
      BY <2>1, <3>2
    <3>4. /\ action'.status = s /\ action'.attempts = n - 1 /\ action'.revision = action.revision
          /\ action' \in Action
      BY <2>1, <3>1, <3>3
    <3>5. \A k \in 1..n : k # n => k \in 1..(n - 1)
      OBVIOUS
    <3> QED
      BY <2>1, <2>4, <3>4, <3>5, SMTT(30) DEF AttemptsFit
  <2> QED
    BY <2>2, <2>3, <2>4
<1>7. SessionAgrees'
  BY DEF Abandon, Fault, SessionAgrees, EvaluatorsFit, EventsFit, DecisionsAreSound, SessionFits,
     Consumed, Published, RevisionRead
<1>8. ReleaseIsUnderWay'
  <2>1. /\ action \in Action /\ n \in prepared /\ prepared' = prepared \ {n}
        /\ UNCHANGED <<session, sent, overtaken>>
    BY DEF Abandon
  <2>2. \/ UNCHANGED <<action, void>>
        \/ /\ action.status = "dispatched" /\ action.attempts = n /\ void' = void \ {n}
           /\ \E s \in {"pending", "failed"} :
                 action' = [action EXCEPT !.status = s, !.attempts = n - 1]
    BY DEF Abandon
  <2>3. CASE UNCHANGED <<action, void>>
    BY <2>1, <2>3 DEF ReleaseIsUnderWay, Live
  <2>4. CASE /\ action.status = "dispatched" /\ action.attempts = n /\ void' = void \ {n}
             /\ \E s \in {"pending", "failed"} :
                   action' = [action EXCEPT !.status = s, !.attempts = n - 1]
    <3>1. PICK s \in {"pending", "failed"} :
                 action' = [action EXCEPT !.status = s, !.attempts = n - 1]
      BY <2>4
    <3>2. n - 1 \in 0..MaxAttempts
      OBVIOUS
    <3>3. [action EXCEPT !.status = s, !.attempts = n - 1] \in Action
      BY <2>1, <3>2
    <3>4. /\ action'.status = s /\ action'.attempts = n - 1 /\ action'.revision = action.revision
          /\ action' \in Action
      BY <2>1, <3>1, <3>3
    <3>5. \A k \in 1..n : k # n => k \in 1..(n - 1)
      OBVIOUS
    <3> QED
      BY <2>1, <2>4, <3>4, <3>5 DEF ReleaseIsUnderWay, Live
  <2> QED
    BY <2>2, <2>3, <2>4
<1>9. WithdrawnNeverAdmits'
  BY DEF Abandon, Fault, WithdrawnNeverAdmits, SessionFits, AttemptsFit
<1> QED
  BY <1>1, <1>2, <1>3, <1>4, <1>5, <1>6, <1>7, <1>8, <1>9

\* What admits is the attempt that is dispatched under the session's revision, and is not void.
LEMMA ReportKeepsInv ==
    ASSUME AdmissionInv, NEW n \in Attempt,
           Report(n)
    PROVE  AdmissionInv'
<1>1. TypeOK'
  BY SMTT(30) DEF Report, Matches, EvaluatorsFit, EventsFit, AttemptsFit
<1>2. EvaluatorsFit'
  BY DEF Report, Matches, EvaluatorsFit, EventsFit
<1>3. EventsFit'
  BY DEF Report, Matches, EventsFit, EvaluatorsFit
<1>4. DecisionsAreSound'
  BY DEF Report, Matches, DecisionsAreSound, EvaluatorsFit, EventsFit, RevisionRead
<1>5. SessionFits'
  BY DEF Report, Matches, SessionFits, EvaluatorsFit, DecisionsAreSound, RevisionRead, Linking
<1>6. AttemptsFit'
  <2>1. UNCHANGED <<prepared, sent, void>> /\ action'.attempts = action.attempts
        /\ action'.status # "dispatched"
    BY DEF Report, botVars
  <2> QED
    BY <2>1 DEF AttemptsFit
<1>7. SessionAgrees'
  BY DEF Report, Matches, SessionAgrees, EvaluatorsFit, EventsFit, DecisionsAreSound, SessionFits,
     Consumed, Published, RevisionRead
<1>8. ReleaseIsUnderWay'
  BY DEF Report, Matches, ReleaseIsUnderWay, SessionFits, Live
<1>9. WithdrawnNeverAdmits'
  BY DEF Report, Matches, WithdrawnNeverAdmits, SessionFits, AttemptsFit
<1> QED
  BY <1>1, <1>2, <1>3, <1>4, <1>5, <1>6, <1>7, <1>8, <1>9

\* A report for the session admits without an attempt.
LEMMA ReportSessionKeepsInv ==
    ASSUME AdmissionInv,
           ReportSession
    PROVE  AdmissionInv'
<1>1. TypeOK'
  BY DEF ReportSession, EvaluatorsFit, EventsFit, AttemptsFit
<1>2. EvaluatorsFit'
  BY DEF ReportSession, EvaluatorsFit, EventsFit
<1>3. EventsFit'
  BY DEF ReportSession, EventsFit, EvaluatorsFit
<1>4. DecisionsAreSound'
  BY DEF ReportSession, DecisionsAreSound, EvaluatorsFit, EventsFit, RevisionRead
<1>5. SessionFits'
  BY DEF ReportSession, SessionFits, EvaluatorsFit, DecisionsAreSound, RevisionRead, Linking
<1>6. AttemptsFit'
  BY DEF ReportSession, AttemptsFit, SessionFits
<1>7. SessionAgrees'
  BY DEF ReportSession, SessionAgrees, EvaluatorsFit, EventsFit, DecisionsAreSound, SessionFits,
     Consumed, Published, RevisionRead
<1>8. ReleaseIsUnderWay'
  BY DEF ReportSession, ReleaseIsUnderWay, SessionFits, Live
<1>9. WithdrawnNeverAdmits'
  BY DEF ReportSession, WithdrawnNeverAdmits, SessionFits, AttemptsFit
<1> QED
  BY <1>1, <1>2, <1>3, <1>4, <1>5, <1>6, <1>7, <1>8, <1>9
-----------------------------------------------------------------------------
(* The invariant.                                                          *)

\* The invariant holds at the start.
LEMMA InitEstablishesInv == Init => AdmissionInv
<1> SUFFICES ASSUME Init
             PROVE  AdmissionInv
  OBVIOUS
<1> USE DEF Init, EligibilityInit
<1>1. TypeOK
  <2>1. event \in [Revision -> Event] /\ batch \in [Publisher -> SUBSET Revision]
    OBVIOUS
  <2>2. decision \in [Evaluator -> Decision]
    <3>1. NoDecision \in Decision
      OBVIOUS
    <3> QED
      BY <3>1
  <2>3. session \in Session /\ action \in Action
    OBVIOUS
  <2>4. /\ revision \in 0..MaxRevision /\ faults \in 0..MaxFaults /\ admittedBy \in 0..MaxAttempts
        /\ current \in [Publisher -> 0..MaxRevision]
    OBVIOUS
  <2>5. /\ at \in [Evaluator -> Steps] /\ task \in [Evaluator -> Tasks]
        /\ lock \in Evaluator \cup {Nobody}
        /\ prepared \subseteq Attempt /\ sent \subseteq Attempt /\ void \subseteq Attempt
    OBVIOUS
  <2>6. qualified \in BOOLEAN /\ misled \in BOOLEAN /\ overtaken \in BOOLEAN
    OBVIOUS
  <2> QED
    BY <2>1, <2>2, <2>3, <2>4, <2>5, <2>6
<1>2. EvaluatorsFit
  BY DEF EvaluatorsFit
<1>3. EventsFit
  BY DEF EventsFit
<1>4. DecisionsAreSound
  BY DEF DecisionsAreSound, RevisionRead
<1>5. SessionFits
  BY DEF SessionFits, RevisionRead
<1>6. AttemptsFit
  BY DEF AttemptsFit
<1>7. SessionAgrees /\ ReleaseIsUnderWay /\ WithdrawnNeverAdmits
  BY DEF SessionAgrees, ReleaseIsUnderWay, WithdrawnNeverAdmits
<1> QED
  BY <1>1, <1>2, <1>3, <1>4, <1>5, <1>6, <1>7

\* A step that changes nothing keeps the invariant.
LEMMA StutterKeepsInv == ASSUME AdmissionInv, UNCHANGED vars PROVE AdmissionInv'
<1> USE DEF vars
<1>1. TypeOK'
  BY SMTT(60)
<1>2. EvaluatorsFit' /\ EventsFit'
  BY DEF EvaluatorsFit, EventsFit
<1>3. DecisionsAreSound'
  BY DEF DecisionsAreSound, RevisionRead
<1>4. SessionFits' /\ AttemptsFit'
  BY DEF SessionFits, AttemptsFit, RevisionRead
<1>5. SessionAgrees'
  BY DEF SessionAgrees, Consumed, Published
<1>6. ReleaseIsUnderWay' /\ WithdrawnNeverAdmits'
  BY DEF ReleaseIsUnderWay, WithdrawnNeverAdmits
<1> QED
  BY <1>1, <1>2, <1>3, <1>4, <1>5, <1>6

\* Every step keeps the invariant.
LEMMA NextKeepsInv == ASSUME AdmissionInv, [Next]_vars PROVE AdmissionInv'
<1> HIDE DEF AdmissionInv
<1>1. ASSUME NEW q \in BOOLEAN, Bump(q) /\ UNCHANGED <<rowVars, evaluatorVars, botVars, historyVars>>
      PROVE  AdmissionInv'
  BY <1>1, BumpKeepsInv
<1>2. ASSUME NEW p \in Publisher, Publish(p)
      PROVE  AdmissionInv'
  BY <1>2, ClaimEventsKeepsInv, ConsumeKeepsInv, FinishKeepsInv DEF Publish
<1>3. ASSUME NEW p \in Request, GetAdmissionMe(p) \/ Join(p) \/ Link(p)
      PROVE  AdmissionInv'
  BY <1>3, GetAdmissionMeKeepsInv, JoinKeepsInv, LinkKeepsInv
<1>4. ASSUME NEW p \in Evaluator, Evaluate(p) \/ FailEvaluation(p) \/ Crash(p)
      PROVE  AdmissionInv'
  BY <1>4, ReadCredentialsKeepsInv, ReadRevisionKeepsInv, SupersedeKeepsInv, DecideKeepsInv,
     CommitNewKeepsInv, FailEvaluationKeepsInv, CrashKeepsInv DEF Evaluate
<1>5. CASE CreatePending
  BY <1>5, CreatePendingKeepsInv
<1>6. CASE End
  BY <1>6, EndKeepsInv
<1>7. CASE Bot
  BY <1>7, ClaimActionKeepsInv, ExposeKeepsInv, AbandonKeepsInv, ReportKeepsInv,
     ReportSessionKeepsInv DEF Bot
<1>8. CASE UNCHANGED vars
  BY <1>8, StutterKeepsInv
<1> QED
  BY <1>1, <1>2, <1>3, <1>4, <1>5, <1>6, <1>7, <1>8 DEF Next

\* The invariant holds in every reachable state.
THEOREM AdmissionInvariant == Spec => []AdmissionInv
<1> HIDE DEF AdmissionInv, vars, Next
<1>1. Init => AdmissionInv
  BY InitEstablishesInv
<1>2. AdmissionInv /\ [Next]_vars => AdmissionInv'
  BY NextKeepsInv
<1> QED
  BY <1>1, <1>2, PTL DEF Spec

\* Every reachable state is of its type.
THEOREM AdmissionTypeCorrect == Spec => []TypeOK
<1> HIDE DEF TypeOK
<1>1. AdmissionInv => TypeOK
  BY DEF AdmissionInv
<1> HIDE DEF AdmissionInv
<1> QED
  BY <1>1, AdmissionInvariant, PTL

\* When the last change of the credentials has been published, the session agrees with the
\* student, unless it took a decision that was wrong on arrival: for any number of publishers,
\* which may take events over from each other, and of requests at a time.
THEOREM AgreesWithStudentAlways == Spec => []AgreesWithStudent
<1>1. AdmissionInv => AgreesWithStudent
  BY DEF SessionAgrees, AgreesWithStudent, Consumed
<1> HIDE DEF AdmissionInv
<1> QED
  BY <1>1, AdmissionInvariant, PTL

\* A dispatch older than the last decision against the session admits nobody, however late it is
\* reported.
THEOREM WithdrawnNeverAdmitsAlways == Spec => []WithdrawnNeverAdmits
<1>1. AdmissionInv => WithdrawnNeverAdmits
  OBVIOUS
<1> HIDE DEF AdmissionInv
<1> QED
  BY <1>1, AdmissionInvariant, PTL

\* A granted session has a release action on its way, or one that was given up, unless an older
\* decision superseded the newer one's.
THEOREM ReleaseIsUnderWayAlways == Spec => []ReleaseIsUnderWay
<1>1. AdmissionInv => ReleaseIsUnderWay
  OBVIOUS
<1> HIDE DEF AdmissionInv
<1> QED
  BY <1>1, AdmissionInvariant, PTL

\* Under the invariant no step takes the session back to an older revision or out of its end.
LEMMA StepsAreMonotone ==
    ASSUME AdmissionInv, [Next]_vars
    PROVE  /\ session'.revision >= session.revision
           /\ session.status \in {"admitted", "ended"} => session' = session
<1>1. session \in Session /\ session.revision \in Nat
  OBVIOUS
<1> DEFINE Goal == /\ session'.revision >= session.revision
                   /\ session.status \in {"admitted", "ended"} => session' = session
<1>2. session' = session => Goal
  BY <1>1
<1>3. ASSUME NEW s, session' = [session EXCEPT !.status = s],
             session.status \notin {"admitted", "ended"}
      PROVE  Goal
  BY <1>1, <1>3
<1>4. ASSUME NEW p \in Evaluator, Decide(p)
      PROVE  Goal
  <2>1. CASE Applies(p) /\ Grant(p)
    BY <1>1, <2>1, GrantGives DEF Applies
  <2>2. CASE Applies(p) /\ Refuse(p)
    <3>1. session'.revision = decision[p].revision /\ session.revision <= decision[p].revision
      BY <2>2 DEF Applies, Refuse
    <3>2. decision[p].revision \in Nat
      OBVIOUS
    <3> QED
      BY <1>1, <2>2, <3>1, <3>2 DEF Applies
  <2> HIDE DEF Goal
  <2> QED
    BY <1>2, <1>4, <2>1, <2>2 DEF Decide
<1>5. ASSUME NEW p \in Evaluator, CommitNew(p)
      PROVE  Goal
  <2>1. task[p] = "link" => session.status = "awaiting_account_link"
    BY <1>5 DEF CommitNew, CommitLink, EvaluatorsFit, SessionFits
  <2>2. CASE Grant(p) /\ session.status \in {"absent", "awaiting_account_link"}
    <3>1. session.revision = 0
      BY <2>2 DEF SessionFits
    <3>2. decision[p].revision \in Nat
      OBVIOUS
    <3>3. session'.revision \in Nat
      BY <2>2, <3>2, GrantGives
    <3> QED
      BY <2>2, <3>1, <3>3
  <2>3. CASE /\ session.status \notin {"admitted", "ended"}
             /\ \E s : session' = [session EXCEPT !.status = s]
    BY <1>3, <2>3
  <2> HIDE DEF Goal
  <2> QED
    BY <1>2, <1>5, <2>1, <2>2, <2>3 DEF CommitNew, CommitLink, CommitJoin
<1>6. CASE CreatePending \/ End \/ ReportSession
  BY <1>3, <1>6 DEF CreatePending, End, ReportSession
<1>7. ASSUME NEW n \in Attempt, Report(n)
      PROVE  Goal
  <2>1. \/ session' = session
        \/ session' = [session EXCEPT !.status = "admitted"] /\ session.status = "action_pending"
    BY <1>7 DEF Report, Matches
  <2> HIDE DEF Goal
  <2> QED
    BY <1>2, <1>3, <2>1
<1>8. CASE UNCHANGED session
  BY <1>2, <1>8
<1> HIDE DEF Goal
<1>9. ASSUME NEW p \in Publisher, Publish(p)
      PROVE  UNCHANGED session
  BY <1>9 DEF Publish, Consume, Finish
<1>10. ASSUME NEW p \in Request, GetAdmissionMe(p) \/ Join(p) \/ Link(p)
       PROVE  UNCHANGED session
  BY <1>10 DEF GetAdmissionMe, Join, Link
<1>11. ASSUME NEW p \in Evaluator, Evaluate(p) \/ FailEvaluation(p) \/ Crash(p)
       PROVE  UNCHANGED session \/ Decide(p) \/ CommitNew(p)
  BY <1>11 DEF Evaluate, ReadCredentials, ReadRevision, Supersede, FailEvaluation, Crash
<1>12. CASE ClaimAction \/ \E n \in Attempt : Expose(n) \/ Abandon(n)
  BY <1>8, <1>12 DEF ClaimAction, Expose, Abandon
<1>13. CASE Bot
  <2>1. ClaimAction \/ ReportSession \/ \E n \in Attempt : Expose(n) \/ Abandon(n) \/ Report(n)
    BY <1>13 DEF Bot
  <2>2. CASE ReportSession
    BY <1>6, <2>2
  <2>3. CASE \E n \in Attempt : Report(n)
    BY <1>7, <2>3 DEF Goal
  <2>4. CASE ClaimAction \/ \E n \in Attempt : Expose(n) \/ Abandon(n)
    BY <1>12, <2>4
  <2> QED
    BY <2>1, <2>2, <2>3, <2>4
<1>14. CASE UNCHANGED vars
  BY <1>8, <1>14 DEF vars
<1> QED
  BY <1>4, <1>5, <1>6, <1>8, <1>9, <1>10, <1>11, <1>13, <1>14 DEF Next, Goal

\* A session never goes back to an older revision, and never leaves its end.
THEOREM DecisionsAreMonotoneAlways == Spec => DecisionsAreMonotone
<1>1. AdmissionInv /\ [Next]_vars
        => [/\ session'.revision >= session.revision
            /\ session.status \in {"admitted", "ended"} => session' = session]_vars
  BY StepsAreMonotone
<1> HIDE DEF AdmissionInv, vars, Next
<1> QED
  BY <1>1, AdmissionInvariant, PTL DEF Spec, DecisionsAreMonotone
=============================================================================
