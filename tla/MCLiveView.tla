----------------------------- MODULE MCLiveView -----------------------------
(* Instances of LiveView for TLC. *)
EXTENDS LiveView, TLC

CONSTANTS n1, n2, b1

\* A session at a prompt, whose project waits for somebody.
Asking == {[prompt |-> TRUE, blocker |-> "listed"]}
=============================================================================
