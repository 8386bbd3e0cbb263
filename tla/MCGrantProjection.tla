------------------------- MODULE MCGrantProjection --------------------------
(* Instances of GrantProjection for TLC.                                   *)
EXTENDS GrantProjection, TLC

Symmetry == Permutations(Worker) \cup Permutations(Token)

\* Bound: three changes with a takeover from a live worker, a fault or a late write; two changes
\* with a fault and a late write; a takeover comes alone.
FewMutations == overruns + faults + late <= 1 \/ (overruns = 0 /\ mutations <= 2)
=============================================================================
