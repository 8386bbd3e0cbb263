---------------------------- MODULE MCAdmission ----------------------------
(* Instances of Admission for TLC. *)
EXTENDS Admission

\* Two changes of the credentials, or one and a fault; and one change or one fault more as long
\* as no request is under way and the action has been dispatched once at most.
FewChanges ==
    \/ revision + faults <= 2
    \/ /\ revision + faults = 3
       /\ action.attempts <= 1
       /\ \A q \in Request : task[q] = "none"
=============================================================================
