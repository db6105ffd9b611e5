----------------------------- MODULE AgentPlane -----------------------------
(***************************************************************************)
(* The agent plane end to end: the coordinator of AgentHub together with   *)
(* the agents that dial it (src/node/hoplite.go, Client.Run).  An agent    *)
(* logs in, holds one command stream open, reports every five seconds, and *)
(* starts over when its stream ends, when the stream falls silent, or when *)
(* a report or a result is answered 401.                                   *)
(*                                                                         *)
(* A step of an agent that is a request is one step with the hub's step    *)
(* that answers it.  What can go wrong is a fault, and `faults` counts     *)
(* them up to MaxFaults: the liveness properties say where the system ends *)
(* up once faults stop, from every state a few of them can lead to.        *)
(***************************************************************************)
EXTENDS AgentHub

CONSTANT MaxFaults  \* bound on faults and operator interventions

ASSUME PlaneAssumption == MaxFaults \in Nat

VARIABLES
    at,         \* at[n]: where n's Client.Run loop stands
    mine,       \* mine[n]: the connection n's session is on, if it has one
    reauth,     \* nodes with a signal in Client.reauth; it outlives a session
    stalled,    \* nodes whose connection is dead without either end knowing
    faults

agentVars == <<at, mine, reauth, stalled, faults>>
planeVars == <<vars, agentVars>>

At == {"idle", "asking", "posted", "opening", "streaming", "closing"}

AgentTypeOK ==
    /\ TypeOK
    /\ at \in [Node -> At]
    /\ mine \in [Node -> Conn \cup {NoConn}]
    /\ reauth \subseteq Node
    /\ stalled \subseteq Node
    /\ faults \in 0..MaxFaults
    /\ \A n \in Node : at[n] \in {"idle", "asking"} <=> mine[n] = NoConn

PlaneInit ==
    /\ Init
    /\ at = [n \in Node |-> "idle"]
    /\ mine = [n \in Node |-> NoConn]
    /\ reauth = {}
    /\ stalled = {}
    /\ faults = 0

Fault == faults < MaxFaults /\ faults' = faults + 1

Goto(n, place) == at' = [at EXCEPT ![n] = place]

\* n's session is over; no request under its token is made again.
Quit(n) == mine' = [mine EXCEPT ![n] = NoConn]

\* n's session runs on c, and n reads c's stream.
Reading(n, c) == at[n] = "streaming" /\ mine[n] = c /\ n \notin stalled

\* n's session is under way with a token, so its report loop runs.
InSession(n) == at[n] \in {"opening", "streaming", "closing"}

-----------------------------------------------------------------------------
(* Client.login.                                                           *)

\* Run's backoff is over; hello is answered.
Dial(n) ==
    /\ at[n] = "idle"
    /\ Goto(n, "asking")
    /\ UNCHANGED <<vars, mine, reauth, stalled, faults>>

\* No key n holds is authorised: login fails and Run backs off.
Refused(n) ==
    /\ at[n] = "asking"
    /\ n \notin keys
    /\ Goto(n, "idle")
    /\ UNCHANGED <<vars, mine, reauth, stalled, faults>>

Accepted(n) ==
    /\ at[n] = "asking"
    /\ \E c \in Conn : Verify(c, n) /\ mine' = [mine EXCEPT ![n] = c]
    /\ Goto(n, "posted")
    /\ UNCHANGED <<reauth, stalled, faults>>

\* The login's reply: a token.
LoginReply(n) ==
    /\ at[n] = "posted"
    /\ stage[mine[n]] = "registered"
    /\ Goto(n, "opening")
    /\ UNCHANGED <<vars, mine, reauth, stalled, faults>>

\* The login's reply: an error, because a write to the store failed after the
\* connection was registered.
LoginFails(n) ==
    /\ at[n] = "posted"
    /\ stage[mine[n]] = "registered"
    /\ Goto(n, "idle")
    /\ Quit(n)
    /\ Fault
    /\ UNCHANGED <<vars, reauth, stalled>>

\* The connection that carries hello or login breaks: the agent gets an error,
\* and the handler it reached, if any, goes on.
LoginLost(n) ==
    /\ at[n] \in {"asking", "posted"}
    /\ Goto(n, "idle")
    /\ Quit(n)
    /\ Fault
    /\ UNCHANGED <<vars, reauth, stalled>>

-----------------------------------------------------------------------------
(* Client.stream.                                                          *)

Open(n) ==
    LET c == mine[n]
    IN  /\ at[n] = "opening"
        /\ OpenStream(c)
        /\ IF stream'[c] = "open"
           THEN Goto(n, "streaming") /\ UNCHANGED mine
           ELSE Goto(n, "idle") /\ Quit(n)
        /\ UNCHANGED <<reauth, stalled, faults>>

\* The watchdog goroutine reads a signal and closes the body.
Reauth(n) ==
    /\ at[n] = "streaming"
    /\ n \in reauth
    /\ reauth' = reauth \ {n}
    /\ Goto(n, "closing")
    /\ UNCHANGED <<vars, mine, stalled, faults>>

\* The read loop sees the end of the stream.
StreamOver(n) ==
    /\ at[n] = "streaming"
    /\ n \notin stalled
    /\ stream[mine[n]] # "open"
    /\ Goto(n, "closing")
    /\ UNCHANGED <<vars, mine, reauth, stalled, faults>>

\* Sixty seconds without a byte from the coordinator.
StreamIdle(n) ==
    /\ at[n] = "streaming"
    /\ n \in stalled
    /\ Goto(n, "closing")
    /\ UNCHANGED <<vars, mine, reauth, stalled, faults>>

\* session returns: its context is cancelled and Run backs off.
EndSession(n) ==
    /\ at[n] = "closing"
    /\ Goto(n, "idle")
    /\ Quit(n)
    /\ stalled' = stalled \ {n}
    /\ UNCHANGED <<vars, reauth, faults>>

\* The agent's end of the stream breaks.
BreakStream(n) ==
    /\ at[n] = "streaming"
    /\ n \notin stalled
    /\ Goto(n, "closing")
    /\ Fault
    /\ UNCHANGED <<vars, mine, reauth, stalled>>

\* The host sleeps, or a proxy keeps its half: nothing passes, nothing breaks.
Stall(n) ==
    /\ at[n] = "streaming"
    /\ n \notin stalled
    /\ stalled' = stalled \cup {n}
    /\ Fault
    /\ UNCHANGED <<vars, at, mine, reauth>>

\* The coordinator learns that a stream's agent is gone.
HubSeesHangUp(c) ==
    /\ \A n \in Node : ~Reading(n, c)
    /\ HangUp(c)
    /\ UNCHANGED agentVars

\* A proxy ends the coordinator's half of a stream that is in use.
ProxyDrop(n) ==
    /\ Reading(n, mine[n])
    /\ HangUp(mine[n])
    /\ Fault
    /\ UNCHANGED <<at, mine, reauth, stalled>>

-----------------------------------------------------------------------------
(* Client.report.  A result of Client.dispatch is posted under the same     *)
(* token and is refused, or touches the connection, in the same way.       *)

\* credentialRejected: a non-blocking send into a channel of one.  (The fault: a
\* 401 is logged and the stream, which the coordinator keeps alive, stays up.)
CredentialRejectedIgnored(n) == UNCHANGED reauth
CredentialRejected(n) == reauth' = reauth \cup {n}

ReportAccepted(n) ==
    /\ InSession(n)
    /\ n \notin stalled
    /\ Report(mine[n])
    /\ UNCHANGED agentVars

\* A 401 while the session runs is noticed by its watchdog.  One that comes after
\* the watchdog closed the body and before the session's context is cancelled
\* stays in the channel and costs the next session its stream, whose own end can
\* leave another: the coincidence must stop for the node to settle, so it counts
\* as a fault.
ReportRejected(n) ==
    /\ InSession(n)
    /\ n \notin stalled \cup reauth
    /\ ~Authed(mine[n])
    /\ CredentialRejected(n)
    /\ IF at[n] = "closing" THEN Fault ELSE UNCHANGED faults
    /\ UNCHANGED <<vars, at, mine, stalled>>

-----------------------------------------------------------------------------
(* The coordinator on its own, time, and the operator.                     *)

HubAlone(c) ==
    /\ Register(c) \/ StreamClosed(c) \/ StreamUnlink(c) \/ Close(c)
    /\ UNCHANGED agentVars

\* An agent that reports every five seconds and is accepted is never silent.
GoesSilent(c) ==
    /\ \A n \in Node : mine[n] = c => ~InSession(n) \/ n \in stalled \/ ~Authed(c)
    /\ Silence(c)
    /\ UNCHANGED agentVars

TokenExpires(c) ==
    /\ Expire(c)
    /\ Fault
    /\ UNCHANGED <<at, mine, reauth, stalled>>

\* The coordinator restarts: Hub's maps are gone, and with them every token,
\* goroutine and TCP connection.  A request under way ends in an error.
HubRestart ==
    /\ \E c \in Conn : stage[c] # "free"
    /\ stage' = [c \in Conn |-> IF stage[c] = "free" THEN "free" ELSE "registered"]
    /\ byNode' = [n \in Node |-> NoConn]
    /\ byToken' = {}
    /\ recent' = {}
    /\ expired' = {}
    /\ stream' = [c \in Conn |-> IF stream[c] = "none" THEN "none" ELSE "gone"]
    /\ dropping' = {}
    /\ closed' = {c \in Conn : stage[c] # "free"}
    /\ kick' = [n \in Node |-> NoConn]
    /\ at' = [n \in Node |->
                 IF at[n] \in {"asking", "posted"} THEN "idle" ELSE at[n]]
    /\ mine' = [n \in Node |-> IF at[n] = "posted" THEN NoConn ELSE mine[n]]
    /\ Fault
    /\ UNCHANGED <<keys, owner, old, cut, callVars, wireVars, reauth, stalled>>

\* Nothing refers to c any more: its memory may become another connection.
Collect(c) ==
    /\ stage[c] = "registered"
    /\ \A n \in Node : mine[n] # c
    /\ c \in closed \ (byToken \cup dropping)
    /\ stream[c] \in {"none", "gone"}
    /\ \A n \in Node : c \notin {byNode[n], kick[n]}
    /\ \A k \in Cmd :
          /\ via[k] = c => call[k] \in {"idle", "returned"}
          /\ <<k, c>> \notin wire \cup results
    /\ stage' = [stage EXCEPT ![c] = "free"]
    /\ owner' = [owner EXCEPT ![c] = NoNode]
    /\ stream' = [stream EXCEPT ![c] = "none"]
    /\ old' = old \ {c}
    /\ closed' = closed \ {c}
    /\ out' = [out EXCEPT ![c] = <<>>]
    /\ via' = [k \in Cmd |-> IF via[k] = c THEN NoConn ELSE via[k]]
    /\ UNCHANGED <<keys, byNode, byToken, recent, expired, dropping, kick, cut, call,
                   target, outcome, pending, reply, wire, ran, results, posting,
                   agentVars>>

OperatorActs(n) ==
    \/ (RemoveKey(n) \/ KickLookup(n)) /\ Fault
          /\ UNCHANGED <<at, mine, reauth, stalled>>
    \/ (AddKey(n) \/ KickUnlink(n)) /\ UNCHANGED agentVars

-----------------------------------------------------------------------------

AgentStep(n) ==
    \/ Dial(n) \/ Refused(n) \/ Accepted(n) \/ LoginReply(n)
    \/ Open(n) \/ Reauth(n) \/ StreamOver(n) \/ StreamIdle(n) \/ EndSession(n)
    \/ ReportAccepted(n) \/ ReportRejected(n)

FaultStep(n) ==
    LoginFails(n) \/ LoginLost(n) \/ BreakStream(n) \/ Stall(n) \/ ProxyDrop(n)

PlaneNext ==
    \/ \E n \in Node : AgentStep(n) \/ FaultStep(n)
    \/ \E n \in Operated : OperatorActs(n)
    \/ \E c \in Conn : \/ HubAlone(c) \/ HubSeesHangUp(c) \/ GoesSilent(c)
                       \/ TokenExpires(c) \/ Collect(c)
    \/ HubRestart

\* Every goroutine that can go on does: the scheduler is fair, Run's backoff is
\* at most a minute, reports and watchdogs are on tickers, a Call's context has
\* a deadline.  Nothing is assumed of commands being run, of faults, of the
\* operator, of the coordinator noticing a hang-up, or of silence.
Fairness ==
    /\ \A n \in Node :
          /\ WF_planeVars(Dial(n))
          /\ WF_planeVars(Refused(n))
          /\ WF_planeVars(Accepted(n))
          /\ WF_planeVars(LoginReply(n))
          /\ WF_planeVars(Open(n))
          /\ WF_planeVars(Reauth(n))
          /\ WF_planeVars(StreamOver(n))
          /\ WF_planeVars(StreamIdle(n))
          /\ WF_planeVars(EndSession(n))
          /\ WF_planeVars(ReportAccepted(n))
          /\ WF_planeVars(ReportRejected(n))
    /\ \A c \in Conn :
          /\ WF_planeVars(Register(c) /\ UNCHANGED agentVars)
          /\ WF_planeVars(StreamClosed(c) /\ UNCHANGED agentVars)
          /\ WF_planeVars(StreamUnlink(c) /\ UNCHANGED agentVars)
          /\ WF_planeVars(Close(c) /\ UNCHANGED agentVars)
          /\ WF_planeVars(Collect(c))
    /\ \A n \in Operated : WF_planeVars(KickUnlink(n) /\ UNCHANGED agentVars)

PlaneSpec == PlaneInit /\ [][PlaneNext]_planeVars /\ Fairness

-----------------------------------------------------------------------------
(* Properties.                                                             *)

\* n holds the registered connection, its stream is open, its token is good,
\* and the coordinator has heard from it.
Settled(n) ==
    LET c == mine[n]
    IN  /\ at[n] = "streaming"
        /\ n \notin stalled
        /\ byNode[n] = c
        /\ stream[c] = "open"
        /\ Authed(c)
        /\ c \in recent

\* Whatever broke, expired, stalled or was superseded, a node whose key is
\* authorised ends up connected for good: neither a token that died under an
\* open stream, nor a late disconnect of an old connection, nor a stale reauth
\* signal leaves it looking connected while its reports are refused.
NodeSettles == \A n \in Node : <>[](n \in keys => Settled(n))

=============================================================================
