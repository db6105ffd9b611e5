----------------------------- MODULE MCAgentHub -----------------------------
(* Instances of AgentHub for TLC. *)
EXTENDS AgentHub, TLC

ConnSymmetry == Permutations(Conn)

\* Sound when the nodes are treated alike (Operated is empty or all of Node).
Symmetry ==
    Permutations(Node) \cup Permutations(Conn)
        \cup Permutations(PaneCmd) \cup Permutations(Cmd \ PaneCmd)
=============================================================================
