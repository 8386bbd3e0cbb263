---------------------------- MODULE AtLeastOnce ----------------------------
(***************************************************************************)
(* What the outbox promises: for every key the latest submission is        *)
(* handled at least once before the key counts as done, unless the key is  *)
(* given up, and a key that was done or given up becomes open again only   *)
(* by a new submission or, if given up, by an operator.  Older submissions *)
(* may be handled, any number of times and at any time, or not at all.     *)
(***************************************************************************)
EXTENDS Naturals

CONSTANT Key

VARIABLES
    submitted,  \* Key -> number of the latest submission, 0 if there is none
    handled,    \* Key -> submissions that were handled successfully
    outcome     \* Key -> "none", "open", "done" or "dead"

vars == <<submitted, handled, outcome>>

Init ==
    /\ submitted = [k \in Key |-> 0]
    /\ handled = [k \in Key |-> {}]
    /\ outcome = [k \in Key |-> "none"]

\* One transaction may submit for several keys.
Submit(S) ==
    /\ submitted' = [k \in Key |-> IF k \in S THEN submitted[k] + 1 ELSE submitted[k]]
    /\ outcome' = [k \in Key |-> IF k \in S THEN "open" ELSE outcome[k]]
    /\ UNCHANGED handled

Handle(k) ==
    /\ \E n \in 1 .. submitted[k] : handled' = [handled EXCEPT ![k] = @ \cup {n}]
    /\ UNCHANGED <<submitted, outcome>>

Complete(k) ==
    /\ outcome[k] = "open"
    /\ submitted[k] \in handled[k]
    /\ outcome' = [outcome EXCEPT ![k] = "done"]
    /\ UNCHANGED <<submitted, handled>>

GiveUp(k) ==
    /\ outcome[k] = "open"
    /\ outcome' = [outcome EXCEPT ![k] = "dead"]
    /\ UNCHANGED <<submitted, handled>>

Reopen(k) ==
    /\ outcome[k] = "dead"
    /\ outcome' = [outcome EXCEPT ![k] = "open"]
    /\ UNCHANGED <<submitted, handled>>

Next ==
    \/ \E S \in SUBSET Key : Submit(S)
    \/ \E k \in Key : Handle(k) \/ Complete(k) \/ GiveUp(k) \/ Reopen(k)

Spec == Init /\ [][Next]_vars

\* Every open key is settled in the end.
Settles == \A k \in Key : outcome[k] = "open" ~> outcome[k] # "open"
=============================================================================
