----------------------------- MODULE MCSessions -----------------------------
(* Instances of Sessions for TLC. *)
EXTENDS Sessions, TLC

Symmetry == Permutations(Session) \cup Permutations(Request)

\* Three pairs in a session where nothing fails, two where something does.
FewPairs == faults > 0 => \A s \in Session : issued[s] <= 2
=============================================================================
