---------------------------- MODULE Credentials ----------------------------
(***************************************************************************)
(* What an operator and a device may rely on of a device's credential,     *)
(* with the coordinator's memory, its database and its restarts left out:  *)
(*   - what a device was told it holds is what it holds, for as long as it *)
(*     was told, whatever restarts;                                        *)
(*   - it ends early only when somebody revokes it, and what has ended     *)
(*     stays ended;                                                        *)
(*   - but a revocation may only suspend it, until the coordinator next    *)
(*     starts.                                                             *)
(***************************************************************************)
EXTENDS Naturals

CONSTANTS Device, TTL, NoGrant

VARIABLES
    now,
    life,       \* life[d]: what has become of d's credential
    told        \* told[d]: what d was told: until when, and if it is notified

vars == <<now, life, told>>

Init ==
    /\ now = 0
    /\ life = [d \in Device |-> "none"]
    /\ told = [d \in Device |-> NoGrant]

Issue(d) ==
    /\ life[d] = "none"
    /\ life' = [life EXCEPT ![d] = "live"]
    /\ told' = [told EXCEPT ![d] = [until |-> now + TTL, push |-> FALSE]]
    /\ UNCHANGED now

Renew(d) ==
    /\ life[d] = "live"
    /\ told' = [told EXCEPT ![d].until = now + TTL]
    /\ UNCHANGED <<now, life>>

Notify(d) ==
    /\ life[d] \in {"live", "ended"}
    /\ \E p \in BOOLEAN : told' = [told EXCEPT ![d].push = p]
    /\ UNCHANGED <<now, life>>

Revoke(d) ==
    /\ life[d] = "live"
    /\ \E v \in {"suspended", "ended"} : life' = [life EXCEPT ![d] = v]
    /\ UNCHANGED <<now, told>>

\* E is what may have run out by time t, and what must have.
RunOut(E, t) ==
    LET D == {d \in Device : life[d] \in {"live", "suspended"}}
    IN  /\ {d \in D : told[d].until < t} \subseteq E
        /\ E \subseteq {d \in D : told[d].until <= t}

Pass(E) ==
    /\ RunOut(E, now + 1)
    /\ now' = now + 1
    /\ life' = [d \in Device |-> IF d \in E THEN "ended" ELSE life[d]]
    /\ UNCHANGED told

Restart(E) ==
    /\ RunOut(E, now)
    /\ life' = [d \in Device |->
                   IF d \in E THEN "ended" ELSE IF life[d] = "suspended" THEN "live" ELSE life[d]]
    /\ UNCHANGED <<now, told>>

Next ==
    \/ \E d \in Device : Issue(d) \/ Renew(d) \/ Notify(d) \/ Revoke(d)
    \/ \E E \in SUBSET Device : Pass(E) \/ Restart(E)

Spec == Init /\ [][Next]_vars

=============================================================================
