------------------------------ MODULE AgentHub ------------------------------
(***************************************************************************)
(* The coordinator's side of the agent plane (src/hub/hub.go): the         *)
(* registry of connected agents and the commands it correlates with their  *)
(* results.                                                                *)
(*                                                                         *)
(* Every HTTP handler and every Hub.Call is a goroutine; a step below is   *)
(* what one of them does between two releases of Hub.mu, or at one channel *)
(* operation.  Agents and the network are unconstrained: an authorised     *)
(* node may log in whenever its key is accepted, a stream may break and a  *)
(* command or a reply may be lost at any time.                             *)
(*                                                                         *)
(* A *Conn is a `*conn` of the code together with its bearer token (the    *)
(* token is random, so it names the connection).  Clocks are abstracted to *)
(* what they decide: `recent` is "heard from within silentAfter", `expired`*)
(* is "past tokenTTL".  Both are kept for registered connections only,     *)
(* since nothing reads them for another.                                   *)
(***************************************************************************)
EXTENDS Naturals, Sequences, FiniteSets

CONSTANTS
    Node,       \* tenant/node keys (nodeKey)
    Conn,       \* connection objects; a login takes a fresh one
    Cmd,        \* commands, one per Hub.Call; their ids are never reused
    PaneCmd,    \* the commands whose payload addresses a pane other than 0
    QueueCap,   \* sendQueue
    Operated,   \* the nodes an operator disconnects or edits the key of
    NoNode,
    NoConn

ASSUME HubAssumption ==
    /\ PaneCmd \subseteq Cmd
    /\ Operated \subseteq Node
    /\ QueueCap \in Nat \ {0}
    /\ NoNode \notin Node
    /\ NoConn \notin Conn

VARIABLES
    \* --- connections
    keys,       \* nodes whose key the next lookup in authorized_agents finds
    stage,      \* stage[c]: how far the login that made c has come
    owner,      \* owner[c]: c.node
    old,        \* connections of an agent build that predates pane addressing
    byNode,     \* Hub.byNode
    byToken,    \* Hub.byToken
    recent,     \* Hub.live holds
    expired,    \* c.expires has passed
    stream,     \* stream[c]: the handleStream goroutine of c
    dropping,   \* goroutines in disconnect(c), between the unlock and c.close()
    closed,     \* c.closed is closed
    kick,       \* kick[n]: what Hub.Disconnect has looked up and not yet dropped
    cut,        \* nodes whose key was removed and whose Disconnect then finished
    \* --- commands
    out,        \* out[c]: the channel c.out
    call,       \* call[k]: the Hub.Call goroutine of k
    target,     \* target[k]: the node k is for
    via,        \* via[k]: the connection Hub.Call found
    outcome,    \* outcome[k]: what Hub.Call answers
    pending,    \* the domain of Hub.pending
    reply,      \* commands whose reply channel holds a result
    wire,       \* <<k, c>>: k is written to c's stream, not yet read by the agent
    ran,        \* ran[k]: how many times an agent has carried k out (a ghost)
    results,    \* <<k, c>>: a result of k, on its way up under c's token
    posting     \* handleResult goroutines past authed, before Hub.pending is read

connVars == <<keys, stage, owner, old, byNode, byToken, recent, expired, stream,
              dropping, closed, kick, cut>>
callVars == <<call, target, via, outcome, pending, reply>>
wireVars == <<out, wire, ran, results, posting>>
vars == <<connVars, callVars, wireVars>>

Stage    == {"free", "verified", "registered"}
Stream   == {"none", "open", "leaving", "gone"}
CallPC   == {"idle", "checked", "queueing", "waiting", "leaving", "returned"}
Refusal  == {"unsupported", "offline", "busy"}
Outcome  == Refusal \cup {"none", "answered", "dropped", "timeout"}

TypeOK ==
    /\ keys \subseteq Node
    /\ stage \in [Conn -> Stage]
    /\ owner \in [Conn -> Node \cup {NoNode}]
    /\ old \subseteq Conn
    /\ byNode \in [Node -> Conn \cup {NoConn}]
    /\ byToken \subseteq Conn
    /\ recent \subseteq Conn
    /\ expired \subseteq Conn
    /\ stream \in [Conn -> Stream]
    /\ dropping \subseteq Conn
    /\ closed \subseteq Conn
    /\ kick \in [Node -> Conn \cup {NoConn}]
    /\ cut \subseteq Node
    /\ out \in [Conn -> Seq(Cmd)]
    /\ \A c \in Conn : Len(out[c]) <= QueueCap
    /\ call \in [Cmd -> CallPC]
    /\ target \in [Cmd -> Node \cup {NoNode}]
    /\ via \in [Cmd -> Conn \cup {NoConn}]
    /\ outcome \in [Cmd -> Outcome]
    /\ pending \subseteq Cmd
    /\ reply \subseteq Cmd
    /\ wire \subseteq Cmd \X Conn
    /\ ran \in [Cmd -> Nat]
    /\ results \subseteq Cmd \X Conn
    /\ posting \subseteq Cmd

Init ==
    /\ keys = Node
    /\ stage = [c \in Conn |-> "free"]
    /\ owner = [c \in Conn |-> NoNode]
    /\ old = {}
    /\ byNode = [n \in Node |-> NoConn]
    /\ byToken = {}
    /\ recent = {}
    /\ expired = {}
    /\ stream = [c \in Conn |-> "none"]
    /\ dropping = {}
    /\ closed = {}
    /\ kick = [n \in Node |-> NoConn]
    /\ cut = {}
    /\ out = [c \in Conn |-> <<>>]
    /\ call = [k \in Cmd |-> "idle"]
    /\ target = [k \in Cmd |-> NoNode]
    /\ via = [k \in Cmd |-> NoConn]
    /\ outcome = [k \in Cmd |-> "none"]
    /\ pending = {}
    /\ reply = {}
    /\ wire = {}
    /\ ran = [k \in Cmd |-> 0]
    /\ results = {}
    /\ posting = {}

-----------------------------------------------------------------------------
(* Logging in: hello, login.                                               *)

\* Hub.authed: a bearer token resolves to its connection until it expires.
Authed(c) == c \in byToken /\ c \notin expired

\* What disconnect(c) leaves of byNode: only c's own entry goes.  (The fault: the
\* entry of c's node goes whatever it is by then, a successor included.)
UnlinkNodeBlindly(c) == [n \in Node |-> IF n = owner[c] THEN NoConn ELSE byNode[n]]
UnlinkNode(c) ==
    [n \in Node |-> IF n = owner[c] /\ byNode[n] = c THEN NoConn ELSE byNode[n]]

\* The mutex section of Hub.disconnect.
Unlink(c) ==
    /\ byNode' = UnlinkNode(c)
    /\ byToken' = byToken \ {c}
    /\ recent' = recent \ {c}
    /\ expired' = expired \ {c}
    /\ dropping' = dropping \cup {c}

\* Authorizer.Verify accepts n's signature over a challenge of its own, and
\* handleLogin builds the connection.
Verify(c, n) ==
    /\ stage[c] = "free"
    /\ n \in keys
    /\ stage' = [stage EXCEPT ![c] = "verified"]
    /\ owner' = [owner EXCEPT ![c] = n]
    /\ old' \in {old, old \cup {c}}
    /\ UNCHANGED <<keys, byNode, byToken, recent, expired, stream, dropping, closed,
                   kick, cut, callVars, wireVars>>

\* What a login that supersedes `before` leaves closed.  (The fault: the old
\* connection is dropped from the maps and its channel is not closed.)
CloseSupersededNot(before) == closed
CloseSuperseded(before) == closed \cup ({before} \ {NoConn})

\* handleLogin's mutex section: the new connection supersedes the node's old one.
\* The rest of the handler writes to the store and replies; whether a write
\* fails and the agent never learns the token, or the reply takes its time, is
\* whether and when the token is used below.  The connection stays registered.
Register(c) ==
    LET n == owner[c]
        before == byNode[n]
    IN  /\ stage[c] = "verified"
        /\ stage' = [stage EXCEPT ![c] = "registered"]
        /\ byNode' = [byNode EXCEPT ![n] = c]
        /\ byToken' = (byToken \ {before}) \cup {c}
        /\ closed' = CloseSuperseded(before)
        /\ recent' = (recent \ {before}) \cup {c}
        /\ expired' = expired \ {before}
        /\ UNCHANGED <<keys, owner, old, stream, dropping, kick, cut, callVars, wireVars>>

-----------------------------------------------------------------------------
(* The command stream.                                                     *)

OpenStream(c) ==
    /\ stage[c] = "registered"
    /\ stream[c] = "none"
    /\ stream' = [stream EXCEPT ![c] = IF Authed(c) THEN "open" ELSE "gone"]
    /\ UNCHANGED <<keys, stage, owner, old, byNode, byToken, recent, expired, dropping,
                   closed, kick, cut, callVars, wireVars>>

\* handleStream takes a command and writes it.  Go's select picks any ready
\* case, so it may do so even when c is already closed.
Serve(c) ==
    /\ stream[c] = "open"
    /\ out[c] # <<>>
    /\ wire' = wire \cup {<<Head(out[c]), c>>}
    /\ out' = [out EXCEPT ![c] = Tail(out[c])]
    /\ UNCHANGED <<connVars, callVars, ran, results, posting>>

Leave(c) ==
    /\ stream[c] = "open"
    /\ stream' = [stream EXCEPT ![c] = "leaving"]
    /\ UNCHANGED <<keys, stage, owner, old, byNode, byToken, recent, expired, dropping,
                   closed, kick, cut, callVars, wireVars>>

\* handleStream sees that c was closed.
StreamClosed(c) == c \in closed /\ Leave(c)

\* handleStream sees its request's context end: the agent or a proxy hung up.
HangUp(c) == Leave(c)

\* The deferred disconnect(c) of handleStream.
StreamUnlink(c) ==
    /\ stream[c] = "leaving"
    /\ stream' = [stream EXCEPT ![c] = "gone"]
    /\ Unlink(c)
    /\ UNCHANGED <<keys, stage, owner, old, closed, kick, cut, callVars, wireVars>>

\* The end of any disconnect(c).
Close(c) ==
    /\ c \in dropping
    /\ dropping' = dropping \ {c}
    /\ closed' = closed \cup {c}
    /\ UNCHANGED <<keys, stage, owner, old, byNode, byToken, recent, expired, stream,
                   kick, cut, callVars, wireVars>>

\* A result or a report of the agent is accepted, and touches the connection.
Report(c) ==
    /\ Authed(c)
    /\ recent' = recent \cup {c}
    /\ UNCHANGED <<keys, stage, owner, old, byNode, byToken, expired, stream, dropping,
                   closed, kick, cut, callVars, wireVars>>

\* Thirty seconds pass with nothing from the agent.
Silence(c) ==
    /\ c \in recent
    /\ recent' = recent \ {c}
    /\ UNCHANGED <<keys, stage, owner, old, byNode, byToken, expired, stream, dropping,
                   closed, kick, cut, callVars, wireVars>>

\* A day passes since the login.
Expire(c) ==
    /\ c \in byToken \ expired
    /\ expired' = expired \cup {c}
    /\ UNCHANGED <<keys, stage, owner, old, byNode, byToken, recent, stream, dropping,
                   closed, kick, cut, callVars, wireVars>>

-----------------------------------------------------------------------------
(* The operator: one edits authorized_agents and calls Disconnect in turn. *)

RemoveKey(n) ==
    /\ n \in keys
    /\ kick[n] = NoConn
    /\ keys' = keys \ {n}
    /\ UNCHANGED <<stage, owner, old, byNode, byToken, recent, expired, stream, dropping,
                   closed, kick, cut, callVars, wireVars>>

AddKey(n) ==
    /\ n \notin keys
    /\ kick[n] = NoConn
    /\ keys' = keys \cup {n}
    /\ cut' = cut \ {n}
    /\ UNCHANGED <<stage, owner, old, byNode, byToken, recent, expired, stream, dropping,
                   closed, kick, callVars, wireVars>>

\* Hub.Disconnect looks the node up; with nothing there it is done.
KickLookup(n) ==
    /\ kick[n] = NoConn
    /\ kick' = [kick EXCEPT ![n] = byNode[n]]
    /\ cut' = IF byNode[n] = NoConn /\ n \notin keys THEN cut \cup {n} ELSE cut
    /\ UNCHANGED <<keys, stage, owner, old, byNode, byToken, recent, expired, stream,
                   dropping, closed, callVars, wireVars>>

\* Hub.Disconnect drops what it looked up.
KickUnlink(n) ==
    /\ kick[n] # NoConn
    /\ Unlink(kick[n])
    /\ kick' = [kick EXCEPT ![n] = NoConn]
    /\ cut' = IF n \notin keys THEN cut \cup {n} ELSE cut
    /\ UNCHANGED <<keys, stage, owner, old, stream, closed, callVars, wireVars>>

-----------------------------------------------------------------------------
(* Hub.Call.                                                               *)

\* Hub.Call returns r before it has registered anything.
ReturnEarly(k, n, r) ==
    /\ call' = [call EXCEPT ![k] = "returned"]
    /\ target' = [target EXCEPT ![k] = n]
    /\ outcome' = [outcome EXCEPT ![k] = r]
    /\ UNCHANGED <<connVars, via, pending, reply, wireVars>>

\* addressesAPane: RequireProtocol reads the registry in a section of its own.
CheckProtocol(k, n) ==
    /\ k \in PaneCmd
    /\ call[k] = "idle"
    /\ \/ byNode[n] = NoConn /\ ReturnEarly(k, n, "offline")
       \/ byNode[n] \in old  /\ ReturnEarly(k, n, "unsupported")
       \/ /\ byNode[n] \notin old \cup {NoConn}
          /\ call' = [call EXCEPT ![k] = "checked"]
          /\ target' = [target EXCEPT ![k] = n]
          /\ UNCHANGED <<connVars, via, outcome, pending, reply, wireVars>>

\* The connection a command for n goes to.  (The fault: any connection serves
\* when n has none, as a map keyed by less than tenant and node would have it.)
AnyConnection(n) ==
    IF byNode[n] = NoConn /\ byToken # {} THEN CHOOSE c \in byToken : TRUE ELSE byNode[n]
Connection(n) == byNode[n]

\* The lookup of Hub.Call: refuse a node that is not connected or has gone
\* silent, otherwise register a reply channel.
Lookup(k, n) ==
    LET c == Connection(n)
    IN  /\ \/ k \notin PaneCmd /\ call[k] = "idle"
           \/ call[k] = "checked" /\ target[k] = n
        /\ \/ c \notin recent /\ ReturnEarly(k, n, "offline")
           \/ /\ c \in recent
              /\ call' = [call EXCEPT ![k] = "queueing"]
              /\ target' = [target EXCEPT ![k] = n]
              /\ via' = [via EXCEPT ![k] = c]
              /\ pending' = pending \cup {k}
              /\ UNCHANGED <<connVars, outcome, reply, wireVars>>

\* The call is over with outcome r; the deferred delete is still to come.
Conclude(k, r) ==
    /\ call' = [call EXCEPT ![k] = "leaving"]
    /\ outcome' = [outcome EXCEPT ![k] = r]
    /\ UNCHANGED <<connVars, target, via, pending, reply, wireVars>>

\* c.out takes another command.
Room(c) == Len(out[c]) < QueueCap

\* The first select of Hub.Call.  Its default is taken only when neither the
\* send nor the closed channel is ready.
Enqueue(k) ==
    LET c == via[k]
    IN  /\ call[k] = "queueing"
        /\ \/ /\ Room(c)
              /\ out' = [out EXCEPT ![c] = Append(out[c], k)]
              /\ call' = [call EXCEPT ![k] = "waiting"]
              /\ UNCHANGED <<connVars, target, via, outcome, pending, reply, wire, ran,
                             results, posting>>
           \/ c \in closed /\ Conclude(k, "offline")
           \/ ~Room(c) /\ c \notin closed /\ Conclude(k, "busy")

\* The second select of Hub.Call.
TakeReply(k) == call[k] = "waiting" /\ k \in reply /\ Conclude(k, "answered")
\* (The fault: a dropped connection is reported as if nothing had been sent.)
TakeClosedAsOffline(k) == call[k] = "waiting" /\ via[k] \in closed /\ Conclude(k, "offline")
\* The code's error is the sentinel of a command that was never sent, wrapped
\* with "disconnected mid-call"; only those words tell "dropped" from "offline".
TakeClosed(k) == call[k] = "waiting" /\ via[k] \in closed /\ Conclude(k, "dropped")
TakeTimeout(k) == call[k] = "waiting" /\ Conclude(k, "timeout")

\* What the deferred delete leaves of Hub.pending.  (The fault: it is deleted
\* only where a reply was taken.)
ForgetAnswered(k) == IF outcome[k] = "answered" THEN pending \ {k} ELSE pending
ForgetCall(k) == pending \ {k}

\* The deferred delete(h.pending, id), and the return.
Return(k) ==
    /\ call[k] = "leaving"
    /\ call' = [call EXCEPT ![k] = "returned"]
    /\ pending' = ForgetCall(k)
    /\ reply' = reply \ {k}
    /\ UNCHANGED <<connVars, target, via, outcome, wireVars>>

-----------------------------------------------------------------------------
(* The agent's side of a command, and handleResult.                        *)

\* The agent reads a command off the stream and carries it out.
RunCommand(k, c) ==
    /\ <<k, c>> \in wire
    /\ wire' = wire \ {<<k, c>>}
    /\ ran' = [ran EXCEPT ![k] = @ + 1]
    /\ results' = results \cup {<<k, c>>}
    /\ UNCHANGED <<connVars, callVars, out, posting>>

\* A command or a result is lost with the connection that carried it.
Lose(k, c) ==
    /\ \/ <<k, c>> \in wire /\ wire' = wire \ {<<k, c>>} /\ UNCHANGED results
       \/ <<k, c>> \in results /\ results' = results \ {<<k, c>>} /\ UNCHANGED wire
    /\ UNCHANGED <<connVars, callVars, out, ran, posting>>

\* handleResult up to touch: a result under a token that no longer resolves is
\* refused.
PostResult(k, c) ==
    /\ <<k, c>> \in results
    /\ results' = results \ {<<k, c>>}
    /\ IF Authed(c)
       THEN posting' = posting \cup {k} /\ recent' = recent \cup {c}
       ELSE UNCHANGED <<posting, recent>>
    /\ UNCHANGED <<keys, stage, owner, old, byNode, byToken, expired, stream, dropping,
                   closed, kick, cut, callVars, out, wire, ran>>

\* handleResult hands the result to the waiting Call, if there still is one.
DeliverResult(k) ==
    /\ k \in posting
    /\ posting' = posting \ {k}
    /\ reply' = IF k \in pending THEN reply \cup {k} ELSE reply
    /\ UNCHANGED <<connVars, call, target, via, outcome, pending, out, wire, ran, results>>

-----------------------------------------------------------------------------

LoginStep(c) == (\E n \in Node : Verify(c, n)) \/ Register(c)
StreamStep(c) ==
    OpenStream(c) \/ Serve(c) \/ StreamClosed(c) \/ HangUp(c) \/ StreamUnlink(c) \/ Close(c)
ClockStep(c) == Report(c) \/ Silence(c) \/ Expire(c)
OperatorStep(n) == RemoveKey(n) \/ AddKey(n) \/ KickLookup(n) \/ KickUnlink(n)
CallStep(k) ==
    \/ \E n \in Node : CheckProtocol(k, n) \/ Lookup(k, n)
    \/ Enqueue(k) \/ TakeReply(k) \/ TakeClosed(k) \/ TakeTimeout(k) \/ Return(k)
ResultStep(k) ==
    \/ \E c \in Conn : RunCommand(k, c) \/ Lose(k, c) \/ PostResult(k, c)
    \/ DeliverResult(k)

Next ==
    \/ \E c \in Conn : LoginStep(c) \/ StreamStep(c) \/ ClockStep(c)
    \/ \E n \in Operated : OperatorStep(n)
    \/ \E k \in Cmd : CallStep(k) \/ ResultStep(k)

Spec == Init /\ [][Next]_vars

-----------------------------------------------------------------------------
(* Properties.                                                             *)

\* A token authenticates exactly when its connection is the one registered for
\* its node, and a registered connection is never a closed one.  It takes a
\* login, a stream's end and an operator's Disconnect to get wrong: a late
\* disconnect of a superseded connection must not unregister its successor.
RegistryConsistent ==
    /\ \A c \in byToken : owner[c] \in Node /\ byNode[owner[c]] = c
    /\ \A n \in Node : byNode[n] # NoConn =>
          /\ byNode[n] \in byToken
          /\ owner[byNode[n]] = n
          /\ byNode[n] \notin closed

\* Hub.pending holds the calls that are under way and no other: an entry that
\* outlived its Call would be a leak for the life of the process, one removed
\* early would turn an answered command into a timeout.
PendingExact ==
    pending = {k \in Cmd : call[k] \in {"queueing", "waiting", "leaving"}}

\* A connection that lost its registration is closed, or a goroutine is about to
\* close it: its stream ends and no Call waits on it until a timeout.  A login
\* that supersedes, the stream's own end and an operator's Disconnect each
\* unregister and close in their own way, and may do so to the same connection.
UnlinkedIsClosed ==
    \A c \in Conn : stage[c] = "registered" /\ c \notin byToken => c \in closed \cup dropping

\* A command is queued, written and carried out only on a connection of the node
\* the caller named, whatever superseded what between the lookup and the write.
CommandsReachTarget ==
    \A k \in Cmd, c \in Conn :
        (\/ via[k] = c
         \/ <<k, c>> \in wire \cup results
         \/ \E i \in DOMAIN out[c] : out[c][i] = k) => owner[c] = target[k]

\* What a caller is told against what happened (RemoteCall).
ToldOf(k) ==
    CASE call[k] = "idle" -> "none"
      [] outcome[k] = "answered" -> "answered"
      [] outcome[k] \in Refusal -> "refused"
      [] outcome[k] \in {"dropped", "timeout"} -> "unknown"
      [] OTHER -> "open"

RC == INSTANCE RemoteCall WITH told <- [k \in Cmd |-> ToldOf(k)], runs <- ran
CallsAreHonest == RC!Spec

\* Hub.Disconnect's comment: removing a node's key and then disconnecting it is
\* "immediate and complete".
RevocationIsComplete == \A n \in cut : byNode[n] = NoConn

=============================================================================
