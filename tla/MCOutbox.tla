------------------------------ MODULE MCOutbox ------------------------------
(* Instances of Outbox for TLC.                                            *)
EXTENDS Outbox, TLC, Functions

Symmetry == Permutations(Key) \cup Permutations(Worker) \cup Permutations(Token)

\* Payloads of all keys, faults and takeovers together: three payloads, of which one key
\* may get all, with one of the others; two with two of them.
FewPayloads ==
    LET payloads == FoldFunction(+, 0, [k \in Key |-> row[k].revision])
    IN  payloads <= 3 /\ payloads + faults + overruns <= 4
=============================================================================
