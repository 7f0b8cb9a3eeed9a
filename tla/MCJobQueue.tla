----------------------------- MODULE MCJobQueue -----------------------------
(* Small instances of JobQueue.                                            *)
EXTENDS JobQueue, TLC

CONSTANTS j1, j2

TwoAttempts  == [j \in Job |-> 2]
FirstRetries == [j \in Job |-> IF j = j1 THEN 2 ELSE 1]

Symmetry == Permutations(Job)

=============================================================================
