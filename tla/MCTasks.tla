------------------------------ MODULE MCTasks ------------------------------
(* Instances of Tasks for TLC. *)
EXTENDS Tasks, TLC

CONSTANTS t1, t2, a, b, s1, u1, u2

Together == [t \in Task |-> a]

OneAsker == [t \in Task |-> s1]

Symmetry == Permutations(Update) \cup Permutations(Task)
=============================================================================
