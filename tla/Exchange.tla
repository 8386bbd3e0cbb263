------------------------------ MODULE Exchange ------------------------------
(***************************************************************************)
(* What the Broker promises about a check of a password.  The password is  *)
(* shown to a node at most once, and its user is told one answer.  While   *)
(* the user waits, what is shown is the whole password; once the call is   *)
(* over, it is never shown again.  A verdict is told only of a password    *)
(* that was shown whole.                                                   *)
(***************************************************************************)
CONSTANTS
    Request,
    Code,       \* answers, "verdict" among them
    NoResult    \* none yet

VARIABLES
    shown,      \* Request -> "nothing", or what a node has seen of its password
    told,       \* Request -> its answer, or NoResult
    over        \* requests whose call has returned

vars == <<shown, told, over>>

Init ==
    /\ shown = [r \in Request |-> "nothing"]
    /\ told = [r \in Request |-> NoResult]
    /\ over = {}

\* A password that is being wiped may be shown as it was.
Show(r, what) ==
    /\ shown[r] = "nothing"
    /\ what = "whole" => r \notin over
    /\ what = "wiped" => told[r] # NoResult
    /\ shown' = [shown EXCEPT ![r] = what]
    /\ UNCHANGED <<told, over>>

Answered(r, code) ==
    /\ told[r] = NoResult
    /\ code = "verdict" => shown[r] = "whole"
    /\ told' = [told EXCEPT ![r] = code]
    /\ UNCHANGED shown

Tell(r, code) == Answered(r, code) /\ UNCHANGED over

Finish(r) ==
    /\ told[r] # NoResult
    /\ over' = over \cup {r}
    /\ UNCHANGED <<shown, told>>

\* A request is turned away without having been queued.
Refuse(r) ==
    /\ shown[r] = "nothing"
    /\ Answered(r, "unavailable")
    /\ over' = over \cup {r}

Next ==
    \E r \in Request :
        \/ \E what \in {"whole", "wiped"} : Show(r, what)
        \/ \E code \in Code : Tell(r, code)
        \/ Finish(r)
        \/ Refuse(r)

Spec == Init /\ [][Next]_vars
=============================================================================
