--------------------------- MODULE MCOpenPlatform ---------------------------
(* OpenPlatform on small instances.                                         *)
EXTENDS OpenPlatform, TLC

\* Requests are interchangeable.
Symmetry == Permutations(Request)

\* Bound: two new secrets, lists of redirect URIs or profiles without a fault, one with it; an
\* importer (number 1) gives redirect URIs at most.
FewValues ==
    /\ values + faults <= MaxValues
    /\ casdoor # NoApp => casdoor.secret # 1 /\ casdoor.profile # 1
=============================================================================
