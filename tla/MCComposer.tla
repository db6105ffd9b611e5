----------------------------- MODULE MCComposer -----------------------------
(* Instances of Composer for TLC. *)
EXTENDS Composer, TLC

Symmetry == Permutations(Job)

\* Nothing is typed, or a draft that fits the row; a longer one too.
Started == {<<>>, <<Hand>>}
Longer == Started \cup {<<Hand, Hand>>}
=============================================================================
