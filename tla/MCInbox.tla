------------------------------ MODULE MCInbox ------------------------------
(* Instances of Inbox for TLC. *)
EXTENDS Inbox, TLC

CONSTANTS s1, s2, r1, r2, m1, m2

\* Two runs of the hook for s1.
BothOfS1 == [r \in Reader |-> s1]

Symmetry == Permutations(Msg) \cup Permutations(Reader)
=============================================================================
