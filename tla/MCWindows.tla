----------------------------- MODULE MCWindows -----------------------------
(* Instances of Windows for TLC. *)
EXTENDS Windows, TLC

CONSTANTS core, d1, d2, o1
=============================================================================
