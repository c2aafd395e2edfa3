----------------------------- MODULE WarmPoolMC -----------------------------
(* Small instances of WarmPool for TLC.                                    *)
EXTENDS WarmPoolLease, TLC

CONSTANTS t1

\* Targets of the single template t1.
UpToOne == [t \in Templates |-> 0..1]
AlwaysOne == [t \in Templates |-> {1}]

\* Box ids, users and requests are interchangeable in the safety runs.
Symmetry == Permutations(Pods) \cup Permutations(Owners) \cup Permutations(Requests)

=============================================================================
