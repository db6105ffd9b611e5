------------------------------ MODULE Mailbox ------------------------------
(***************************************************************************)
(* What senders and sessions may rely on of mail, with rows, transactions  *)
(* and hooks left out.  A copy is a message for one session:               *)
(*   - a session reads a copy at most once: work handed over twice is      *)
(*     worse than work lost;                                               *)
(*   - what has been taken for a session, or shed, or has expired, never   *)
(*     comes back to wait;                                                 *)
(*   - a sender is told "ok" only after every copy was put; one told       *)
(*     "error" knows nothing: some copies may be there, and may be read.   *)
(***************************************************************************)
CONSTANTS Msg, Session

VARIABLES
    copy,       \* copy[m, s]: what has become of m's copy for s
    to,         \* to[m]: whom m is for
    verdict     \* verdict[m]: what m's sender was told

vars == <<copy, to, verdict>>

Copy == Msg \X Session

TypeOK ==
    /\ copy \in [Copy -> {"none", "waiting", "taken", "read", "gone"}]
    /\ to \in [Msg -> SUBSET Session]
    /\ verdict \in [Msg -> {"none", "open", "ok", "error"}]

Init ==
    /\ copy = [x \in Copy |-> "none"]
    /\ to = [m \in Msg |-> {}]
    /\ verdict = [m \in Msg |-> "none"]

\* Copies in C go from one of the states in `from` to `next`.
Move(C, from, next) ==
    /\ \A x \in C : copy[x] \in from
    /\ copy' = [x \in Copy |-> IF x \in C THEN next ELSE copy[x]]
    /\ UNCHANGED <<to, verdict>>

Post(m, S) ==
    /\ verdict[m] = "none"
    /\ verdict' = [verdict EXCEPT ![m] = "open"]
    /\ to' = [to EXCEPT ![m] = S]
    /\ UNCHANGED copy

Put(m, s) ==
    /\ verdict[m] = "open" /\ s \in to[m]
    /\ Move({<<m, s>>}, {"none"}, "waiting")

Tell(m, v) ==
    /\ verdict[m] = "open"
    /\ v = "ok" => \A s \in to[m] : copy[<<m, s>>] # "none"
    /\ verdict' = [verdict EXCEPT ![m] = v]
    /\ UNCHANGED <<copy, to>>

\* A session takes what waits for it, all of it but what has just expired.
Take(s, C) ==
    /\ C \subseteq Msg \X {s}
    /\ \A x \in C : copy[x] = "waiting"
    /\ copy' = [x \in Copy |->
                   IF x \in C THEN "taken"
                   ELSE IF x[2] = s /\ copy[x] = "waiting" THEN "gone" ELSE copy[x]]
    /\ UNCHANGED <<to, verdict>>

Next ==
    \/ \E m \in Msg, S \in SUBSET Session : Post(m, S)
    \/ \E m \in Msg, s \in Session : Put(m, s)
    \/ \E m \in Msg, v \in {"ok", "error"} : Tell(m, v)
    \/ \E s \in Session, C \in SUBSET Copy : Take(s, C)
    \/ \E C \in SUBSET Copy :
          \/ Move(C, {"taken"}, "read")
          \/ Move(C, {"waiting", "taken"}, "gone")

Spec == Init /\ [][Next]_vars

=============================================================================
