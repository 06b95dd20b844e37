------------------------------- MODULE MCJobs -------------------------------
(* Small instances of the jobs of one process.                             *)
EXTENDS JobProperties, TLC

Symmetry == Permutations(Jobs)

\* For the liveness of two jobs that compete for a slot: no destruction time passes or is
\* moved, which leaves the slots, the aborts, the deletes and the quota.
NothingOverdue == \A j \in Jobs : ~record'[j].due
TimelessSpec == Init /\ [][Next /\ NothingOverdue]_vars /\ Fairness
=============================================================================
