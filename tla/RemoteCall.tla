----------------------------- MODULE RemoteCall -----------------------------
(***************************************************************************)
(* What a caller of Hub.Call may rely on, with connections, queues and     *)
(* streams left out.  A command is an instruction to drive a real terminal *)
(* so what matters is how often it took effect against what the caller was *)
(* told:                                                                   *)
(*   - it takes effect at most once;                                       *)
(*   - "answered" means it has taken effect;                               *)
(*   - "refused" (agent offline, agent queue full) means it has not and    *)
(*     never will;                                                         *)
(*   - "unknown" (the connection dropped, the call timed out) promises     *)
(*     nothing: the command may still take effect later.                   *)
(***************************************************************************)
EXTENDS Naturals

CONSTANT Cmd

VARIABLES
    told,   \* told[k]: what the caller of k has been told so far
    runs    \* runs[k]: how many times k has taken effect on the node

vars == <<told, runs>>

Verdict == {"none", "open", "answered", "refused", "unknown"}

TypeOK ==
    /\ told \in [Cmd -> Verdict]
    /\ runs \in [Cmd -> 0..1]

Init ==
    /\ told = [k \in Cmd |-> "none"]
    /\ runs = [k \in Cmd |-> 0]

Start(k) ==
    /\ told[k] = "none"
    /\ told' = [told EXCEPT ![k] = "open"]
    /\ UNCHANGED runs

Run(k) ==
    /\ told[k] \in {"open", "unknown"}
    /\ runs[k] = 0
    /\ runs' = [runs EXCEPT ![k] = 1]
    /\ UNCHANGED told

Answer(k) ==
    /\ told[k] = "open"
    /\ runs[k] = 1
    /\ told' = [told EXCEPT ![k] = "answered"]
    /\ UNCHANGED runs

Refuse(k) ==
    /\ told[k] \in {"none", "open"}
    /\ runs[k] = 0
    /\ told' = [told EXCEPT ![k] = "refused"]
    /\ UNCHANGED runs

GiveUp(k) ==
    /\ told[k] = "open"
    /\ told' = [told EXCEPT ![k] = "unknown"]
    /\ UNCHANGED runs

Next == \E k \in Cmd : Start(k) \/ Run(k) \/ Answer(k) \/ Refuse(k) \/ GiveUp(k)

Spec == Init /\ [][Next]_vars

=============================================================================
