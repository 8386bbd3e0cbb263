---------------------------- MODULE RefreshChain ----------------------------
(***************************************************************************)
(* What the rotation of tokens promises.  A session is a chain of pairs.   *)
(* Its last pair is exchanged for a later one by a client that was given   *)
(* it, and no pair is exchanged or given twice.  A session that was closed *)
(* is never opened or extended again; a pair that was issued before that   *)
(* may still be on its way to the client.                                  *)
(***************************************************************************)
EXTENDS Naturals

CONSTANTS
    Session,
    Number      \* of the pairs of a session

VARIABLES
    last,   \* Session -> the number of its last pair, 0 if it is not open
    given,  \* pairs of a session and a number that a client was given
    spent,  \* pairs that were exchanged
    closed  \* sessions that are over

vars == <<last, given, spent, closed>>

Init ==
    /\ last = [s \in Session |-> 0]
    /\ given = {}
    /\ spent = {}
    /\ closed = {}

Open(s) ==
    /\ last[s] = 0
    /\ s \notin closed
    /\ last' = [last EXCEPT ![s] = 1]
    /\ UNCHANGED <<given, spent, closed>>

Give(s, n) ==
    /\ n = last[s] \/ s \in closed
    /\ <<s, n>> \notin given
    /\ given' = given \cup {<<s, n>>}
    /\ UNCHANGED <<last, spent, closed>>

Exchange(s, n) ==
    /\ <<s, last[s]>> \in given \ spent
    /\ n > last[s]
    /\ last' = [last EXCEPT ![s] = n]
    /\ spent' = spent \cup {<<s, last[s]>>}
    /\ UNCHANGED <<given, closed>>

Close(s) ==
    /\ s \notin closed
    /\ last' = [last EXCEPT ![s] = 0]
    /\ closed' = closed \cup {s}
    /\ UNCHANGED <<given, spent>>

Next ==
    \E s \in Session :
        \/ Open(s)
        \/ Close(s)
        \/ \E n \in Number : Give(s, n) \/ Exchange(s, n)

Spec == Init /\ [][Next]_vars
=============================================================================
