------------------------------- MODULE MCWake -------------------------------
(* Instances of Wake for TLC. *)
EXTENDS Wake

CONSTANTS s1, s2, t1, t2

\* Both sessions are the first tenant's, or each has its own.
Together == [s \in Session |-> t1]
Apart == [s \in Session |-> IF s = s1 THEN t1 ELSE t2]
=============================================================================
