--------------------------- MODULE AgentHubProofs ---------------------------
(***************************************************************************)
(* Proofs about AgentHub, for every set of nodes, connections and commands *)
(* and every queue capacity.                                               *)
(*                                                                         *)
(* RegistryInv is the inductive invariant of the registry.  The promise    *)
(* RegistryConsistent is not inductive: that a late disconnect leaves a    *)
(* successor alone needs to know which connections goroutines may still    *)
(* hold (in a stream, in kick, in dropping), and that those have been      *)
(* registered once and are not about to be.                                *)
(***************************************************************************)
EXTENDS AgentHub, TLAPS

\* Past Authorizer.Verify a connection has a node.
OwnerKnown == \A c \in Conn : stage[c] # "free" => owner[c] \in Node

\* Until it is registered, a connection is known to its login only.
Private ==
    \A c \in Conn : stage[c] # "registered" =>
        c \notin byToken \cup dropping \cup closed /\ stream[c] = "none"

\* Disconnect works on a connection that has been registered.
KickedWasRegistered ==
    \A n \in Node : kick[n] # NoConn => stage[kick[n]] = "registered"

\* byToken and byNode are each other's inverse, over open connections.
TokenHasNode ==
    \A c \in byToken : owner[c] \in Node /\ byNode[owner[c]] = c /\ c \notin closed \cup dropping
NodeHasToken ==
    \A n \in Node : byNode[n] # NoConn => byNode[n] \in byToken /\ owner[byNode[n]] = n

Registry ==
    /\ OwnerKnown
    /\ Private
    /\ KickedWasRegistered
    /\ TokenHasNode
    /\ NodeHasToken
    /\ UnlinkedIsClosed

RegistryInv == TypeOK /\ Registry

registryVars == <<stage, owner, byNode, byToken, stream, dropping, closed, kick>>

\* Hub.Call's bookkeeping: before its lookup a call has no connection, after it
\* the connection is one of the call's target.
Routed ==
    \A k \in Cmd :
        /\ call[k] \in {"idle", "checked"} => via[k] = NoConn
        /\ call[k] = "queueing" => via[k] # NoConn
        /\ via[k] # NoConn => stage[via[k]] = "registered" /\ owner[via[k]] = target[k]
\* A command is only ever on the connection its call found.
Queued(k, c) == \E i \in DOMAIN out[c] : out[c][i] = k
OnItsConnection ==
    \A k \in Cmd, c \in Conn :
        <<k, c>> \in wire \cup results \/ Queued(k, c) => via[k] = c

RouteInv == Routed /\ OnItsConnection

\* How often a command ran, against where it is.  What is queued or on the wire
\* has not run and is there once; what has a result, or a reply, has run.
Pristine(k) ==
    /\ ran[k] = 0
    /\ k \notin posting \cup reply
    /\ \A c \in Conn : <<k, c>> \notin wire \cup results /\ ~Queued(k, c)
OnceOnItsWay ==
    /\ \A c \in Conn : \A i, j \in DOMAIN out[c] : out[c][i] = out[c][j] => i = j
    /\ \A k \in Cmd, c \in Conn :
          /\ Queued(k, c) => ran[k] = 0 /\ <<k, c>> \notin wire
          /\ <<k, c>> \in wire => ran[k] = 0
RanWhenResult ==
    /\ \A k \in Cmd : k \in posting \cup reply => ran[k] = 1
    /\ \A k \in Cmd, c \in Conn : <<k, c>> \in results => ran[k] = 1
RanOnce == \A k \in Cmd : ran[k] \in {0, 1}

\* What Hub.Call has concluded, against how far it is and what happened.
Concluded ==
    \A k \in Cmd :
        /\ call[k] \in {"idle", "checked", "queueing"} => Pristine(k)
        /\ outcome[k] = "none" <=> call[k] \in {"idle", "checked", "queueing", "waiting"}
        /\ outcome[k] = "answered" => ran[k] = 1
        /\ outcome[k] \in Refusal => Pristine(k)

CallInv == OnceOnItsWay /\ RanWhenResult /\ RanOnce /\ Concluded

-----------------------------------------------------------------------------
(* Type correctness.                                                       *)

\* Every step keeps the types, given that a connection past Verify has a node.
LEMMA TypeStep == RegistryInv /\ RouteInv /\ [Next]_vars => TypeOK'
  <1> SUFFICES ASSUME TypeOK, OwnerKnown, Routed, [Next]_vars
               PROVE  TypeOK'
    BY DEF RegistryInv, Registry, RouteInv
  <1> USE HubAssumption DEF TypeOK, connVars, callVars, wireVars, Stage, Stream, CallPC,
                            Refusal, Outcome
  <1>1. CASE UNCHANGED vars
    BY <1>1 DEF vars
  <1>2. ASSUME NEW c \in Conn, NEW n \in Node, Verify(c, n)
        PROVE  TypeOK'
    BY <1>2 DEF Verify
  <1>3. ASSUME NEW c \in Conn, Register(c)
        PROVE  TypeOK'
    BY <1>3 DEF Register, CloseSuperseded, OwnerKnown
  <1>4. ASSUME NEW c \in Conn, OpenStream(c)
        PROVE  TypeOK'
    BY <1>4 DEF OpenStream
  <1>5. ASSUME NEW c \in Conn, Serve(c)
        PROVE  TypeOK'
    BY <1>5 DEF Serve
  <1>6. ASSUME NEW c \in Conn, Leave(c)
        PROVE  TypeOK'
    BY <1>6 DEF Leave
  <1>7. ASSUME NEW c \in Conn, StreamUnlink(c)
        PROVE  TypeOK'
    BY <1>7 DEF StreamUnlink, Unlink, UnlinkNode
  <1>8. ASSUME NEW c \in Conn, Close(c)
        PROVE  TypeOK'
    BY <1>8 DEF Close
  <1>9. ASSUME NEW c \in Conn, ClockStep(c)
        PROVE  TypeOK'
    BY <1>9 DEF ClockStep, Report, Silence, Expire
  <1>10. ASSUME NEW n \in Operated, RemoveKey(n) \/ AddKey(n) \/ KickLookup(n)
         PROVE  TypeOK'
    <2>1. n \in Node
      OBVIOUS
    <2>2. CASE RemoveKey(n)
      BY <2>1, <2>2 DEF RemoveKey
    <2>3. CASE AddKey(n)
      BY <2>1, <2>3 DEF AddKey
    <2>4. CASE KickLookup(n)
      BY <2>1, <2>4 DEF KickLookup
    <2> QED
      BY <1>10, <2>2, <2>3, <2>4
  <1>11. ASSUME NEW n \in Operated, KickUnlink(n)
         PROVE  TypeOK'
    BY <1>11 DEF KickUnlink, Unlink, UnlinkNode
  <1>12. ASSUME NEW k \in Cmd, NEW n \in Node, CheckProtocol(k, n) \/ Lookup(k, n)
         PROVE  TypeOK'
    <2>1. ASSUME NEW r \in Outcome, ReturnEarly(k, n, r)
          PROVE  TypeOK'
      BY <2>1 DEF ReturnEarly
    <2>2. CASE /\ call' = [call EXCEPT ![k] = "checked"]
               /\ target' = [target EXCEPT ![k] = n]
               /\ UNCHANGED <<connVars, via, outcome, pending, reply, wireVars>>
      BY <2>2
    <2>3. CASE /\ byNode[n] \in recent
               /\ call' = [call EXCEPT ![k] = "queueing"]
               /\ target' = [target EXCEPT ![k] = n]
               /\ via' = [via EXCEPT ![k] = byNode[n]]
               /\ pending' = pending \cup {k}
               /\ UNCHANGED <<connVars, outcome, reply, wireVars>>
      BY <2>3
    <2>4. CASE \E r \in Outcome : ReturnEarly(k, n, r)
      BY <2>1, <2>4
    <2>5. CASE CheckProtocol(k, n)
      BY <2>2, <2>4, <2>5 DEF CheckProtocol
    <2>6. CASE Lookup(k, n)
      BY <2>3, <2>4, <2>6 DEF Lookup, Connection
    <2> QED
      BY <1>12, <2>5, <2>6
  <1>concluded. ASSUME NEW k \in Cmd, NEW r \in Outcome, Conclude(k, r)
         PROVE  TypeOK'
    BY <1>concluded DEF Conclude
  <1>13. ASSUME NEW k \in Cmd, Enqueue(k)
         PROVE  TypeOK'
    <2>1. CASE \E r \in Outcome : Conclude(k, r)
      BY <1>concluded, <2>1
    <2>2. CASE /\ Room(via[k])
               /\ out' = [out EXCEPT ![via[k]] = Append(out[via[k]], k)]
               /\ call' = [call EXCEPT ![k] = "waiting"]
               /\ UNCHANGED <<connVars, target, via, outcome, pending, reply, wire, ran,
                              results, posting>>
      <3>1. ASSUME NEW c \in Conn
            PROVE  out'[c] \in Seq(Cmd) /\ Len(out'[c]) <= QueueCap
        BY <2>2 DEF Room
      <3>2. out' \in [Conn -> Seq(Cmd)]
        BY <2>2, <3>1
      <3> QED
        BY <2>2, <3>1, <3>2
    <2> QED
      BY <1>13, <2>1, <2>2 DEF Enqueue
  <1>14. ASSUME NEW k \in Cmd, TakeReply(k) \/ TakeClosed(k) \/ TakeTimeout(k)
         PROVE  TypeOK'
    <2>1. \E r \in Outcome : Conclude(k, r)
      BY <1>14 DEF TakeReply, TakeClosed, TakeTimeout
    <2> QED
      BY <1>concluded, <2>1
  <1>15. ASSUME NEW k \in Cmd, Return(k)
         PROVE  TypeOK'
    BY <1>15 DEF Return, ForgetCall
  <1>16. ASSUME NEW k \in Cmd, NEW c \in Conn, RunCommand(k, c)
         PROVE  TypeOK'
    BY <1>16 DEF RunCommand
  <1>17. ASSUME NEW k \in Cmd, NEW c \in Conn, Lose(k, c) \/ PostResult(k, c)
         PROVE  TypeOK'
    BY <1>17 DEF Lose, PostResult
  <1>18. ASSUME NEW k \in Cmd, DeliverResult(k)
         PROVE  TypeOK'
    BY <1>18 DEF DeliverResult
  <1> QED
    BY <1>1, <1>2, <1>3, <1>4, <1>5, <1>6, <1>7, <1>8, <1>9, <1>10, <1>11, <1>12, <1>13,
       <1>14, <1>15, <1>16, <1>17, <1>18
    DEF Next, LoginStep, StreamStep, StreamClosed, HangUp, OperatorStep, CallStep, ResultStep

-----------------------------------------------------------------------------
(* The registry.                                                           *)

\* disconnect(c), for a connection that was registered, whoever runs it.
LEMMA UnlinkStep ==
  ASSUME TypeOK, Registry, NEW c \in Conn, stage[c] = "registered", Unlink(c),
         UNCHANGED <<stage, owner, closed>>
  PROVE  /\ TokenHasNode'
         /\ NodeHasToken'
         /\ UnlinkedIsClosed'
         /\ \A d \in Conn : stage[d] # "registered" =>
               d \notin byToken' \cup dropping' \cup closed'
  <1> USE DEF TypeOK, Unlink, UnlinkNode
  <1>1. owner[c] \in Node
    BY DEF Registry, OwnerKnown
  <1>2. TokenHasNode'
    <2> SUFFICES ASSUME NEW d \in byToken', d # c
                 PROVE  /\ owner[d] \in Node
                        /\ byNode'[owner[d]] = d
                        /\ d \notin closed \cup dropping'
      BY DEF TokenHasNode
    <2> QED
      BY DEF Registry, TokenHasNode
  <1>3. NodeHasToken'
    <2> SUFFICES ASSUME NEW n \in Node, byNode'[n] # NoConn
                 PROVE  byNode'[n] \in byToken' /\ owner[byNode'[n]] = n
      BY DEF NodeHasToken
    <2>1. byNode'[n] = byNode[n] /\ byNode[n] \in byToken /\ owner[byNode[n]] = n
      BY DEF Registry, NodeHasToken
    <2>2. byNode[n] # c
      BY <2>1
    <2> QED
      BY <2>1, <2>2
  <1>4. UnlinkedIsClosed'
    BY DEF Registry, UnlinkedIsClosed
  <1> QED
    BY <1>2, <1>3, <1>4 DEF Registry, Private

\* Every step of the coordinator keeps the registry's invariant.
LEMMA RegistryStep == RegistryInv /\ [Next]_vars => Registry'
  <1> SUFFICES ASSUME TypeOK, Registry, [Next]_vars
               PROVE  Registry'
    BY DEF RegistryInv
  <1> USE HubAssumption DEF TypeOK
  <1>1. CASE UNCHANGED registryVars
    BY <1>1 DEF registryVars, Registry, OwnerKnown, Private, KickedWasRegistered,
                TokenHasNode, NodeHasToken, UnlinkedIsClosed
  <1>2. ASSUME NEW c \in Conn, NEW n \in Node, Verify(c, n)
        PROVE  Registry'
    BY <1>2 DEF Verify, Registry, OwnerKnown, Private, KickedWasRegistered,
                TokenHasNode, NodeHasToken, UnlinkedIsClosed, Stage
  <1>3. ASSUME NEW c \in Conn, Register(c)
        PROVE  Registry'
    <2> DEFINE n == owner[c]
               before == byNode[n]
    <2> USE <1>3 DEF Register, CloseSuperseded, Stage
    <2>1. n \in Node /\ c \notin byToken \cup dropping \cup closed /\ before # c
      BY DEF Registry, OwnerKnown, Private, NodeHasToken
    <2>2. OwnerKnown' /\ Private' /\ KickedWasRegistered'
      <3>1. before # NoConn => before \in byToken /\ stage[before] = "registered"
        BY <2>1 DEF Registry, NodeHasToken, Private
      <3>2. OwnerKnown'
        BY DEF Registry, OwnerKnown
      <3>3. Private'
        BY <3>1 DEF Registry, Private
      <3>4. KickedWasRegistered'
        BY DEF Registry, KickedWasRegistered
      <3> QED
        BY <3>2, <3>3, <3>4
    <2>3. TokenHasNode'
      <3> SUFFICES ASSUME NEW d \in byToken'
                   PROVE  /\ owner[d] \in Node
                          /\ byNode'[owner[d]] = d
                          /\ d \notin closed' \cup dropping
        BY DEF TokenHasNode
      <3>1. CASE d = c
        BY <2>1, <3>1
      <3>2. CASE d # c
        <4>1. d \in byToken /\ d # before
          BY <3>2
        <4>2. owner[d] # n
          BY <4>1 DEF Registry, TokenHasNode
        <4> QED
          BY <4>1, <4>2 DEF Registry, TokenHasNode
      <3> QED
        BY <3>1, <3>2
    <2>4. NodeHasToken'
      <3> SUFFICES ASSUME NEW m \in Node, byNode'[m] # NoConn
                   PROVE  byNode'[m] \in byToken' /\ owner[byNode'[m]] = m
        BY DEF NodeHasToken
      <3>1. CASE m = n
        BY <2>1, <3>1
      <3>2. CASE m # n
        <4>1. byNode'[m] = byNode[m] /\ byNode[m] \in byToken /\ owner[byNode[m]] = m
          BY <3>2 DEF Registry, NodeHasToken
        <4>2. byNode[m] # before
          BY <2>1, <3>2, <4>1 DEF Registry, NodeHasToken
        <4> QED
          BY <4>1, <4>2
      <3> QED
        BY <3>1, <3>2
    <2>5. UnlinkedIsClosed'
      BY <2>1 DEF Registry, UnlinkedIsClosed
    <2> QED
      BY <2>2, <2>3, <2>4, <2>5 DEF Registry
  <1>4. ASSUME NEW c \in Conn, OpenStream(c) \/ Leave(c)
        PROVE  Registry'
    BY <1>4 DEF OpenStream, Leave, Registry, OwnerKnown, Private, KickedWasRegistered,
                TokenHasNode, NodeHasToken, UnlinkedIsClosed
  <1>5. ASSUME NEW c \in Conn, StreamUnlink(c)
        PROVE  Registry'
    <2>1. stage[c] = "registered"
      BY <1>5 DEF StreamUnlink, Registry, Private
    <2> QED
      BY <1>5, <2>1, UnlinkStep DEF StreamUnlink, Registry, OwnerKnown, Private,
                                   KickedWasRegistered
  <1>6. ASSUME NEW c \in Conn, Close(c)
        PROVE  Registry'
    BY <1>6 DEF Close, Registry, OwnerKnown, Private, KickedWasRegistered,
                TokenHasNode, NodeHasToken, UnlinkedIsClosed
  <1>7. ASSUME NEW n \in Operated, KickLookup(n)
        PROVE  Registry'
    <2>1. n \in Node /\ (byNode[n] # NoConn => stage[byNode[n]] = "registered")
      BY DEF Registry, NodeHasToken, Private
    <2> QED
      BY <1>7, <2>1 DEF KickLookup, Registry, OwnerKnown, Private, KickedWasRegistered,
                        TokenHasNode, NodeHasToken, UnlinkedIsClosed
  <1>8. ASSUME NEW n \in Operated, KickUnlink(n)
        PROVE  Registry'
    <2>1. n \in Node /\ kick[n] \in Conn /\ stage[kick[n]] = "registered"
      BY <1>8 DEF KickUnlink, Registry, KickedWasRegistered
    <2> QED
      BY <1>8, <2>1, UnlinkStep DEF KickUnlink, Registry, OwnerKnown, Private,
                                   KickedWasRegistered
  <1>9. ASSUME NEW k \in Cmd, CallStep(k) \/ ResultStep(k)
        PROVE  UNCHANGED registryVars
    BY <1>9 DEF CallStep, ResultStep, CheckProtocol, Lookup, ReturnEarly, Enqueue, Conclude,
                TakeReply, TakeClosed, TakeTimeout, Return, RunCommand, Lose, PostResult,
                DeliverResult, registryVars, connVars
  <1>10. ASSUME NEW c \in Conn, Serve(c) \/ ClockStep(c)
         PROVE  UNCHANGED registryVars
    BY <1>10 DEF Serve, ClockStep, Report, Silence, Expire, registryVars, connVars
  <1>11. ASSUME NEW n \in Operated, RemoveKey(n) \/ AddKey(n)
         PROVE  UNCHANGED registryVars
    BY <1>11 DEF RemoveKey, AddKey, registryVars
  <1>12. CASE UNCHANGED vars
    BY <1>1, <1>12 DEF vars, connVars, registryVars
  <1> QED
    BY <1>1, <1>2, <1>3, <1>4, <1>5, <1>6, <1>7, <1>8, <1>9, <1>10, <1>11, <1>12
    DEF Next, LoginStep, StreamStep, StreamClosed, HangUp, OperatorStep

-----------------------------------------------------------------------------
(* Where commands are.                                                     *)

\* Taking the head of c's queue, for handleStream.
LEMMA QueueTail ==
  ASSUME TypeOK, NEW c \in Conn, out[c] # <<>>, out' = [out EXCEPT ![c] = Tail(out[c])]
  PROVE  /\ Head(out[c]) \in Cmd /\ Queued(Head(out[c]), c)
         /\ \A i \in DOMAIN out'[c] : i + 1 \in DOMAIN out[c] /\ out'[c][i] = out[c][i + 1]
         /\ \A d \in Conn \ {c} : out'[d] = out[d]
  BY DEF TypeOK, Queued

\* Adding a command to c's queue, for Hub.Call.
LEMMA QueueAppend ==
  ASSUME TypeOK, NEW c \in Conn, NEW k \in Cmd, out' = [out EXCEPT ![c] = Append(out[c], k)]
  PROVE  /\ \A i \in DOMAIN out'[c] :
               IF i = Len(out[c]) + 1 THEN out'[c][i] = k
               ELSE i \in DOMAIN out[c] /\ out'[c][i] = out[c][i]
         /\ \A d \in Conn \ {c} : out'[d] = out[d]
  BY DEF TypeOK

routeVars == <<stage, owner, call, target, via, out, wire, results>>

\* Every step keeps commands on a connection of their target.
LEMMA RouteStep == RegistryInv /\ RouteInv /\ [Next]_vars => RouteInv'
  <1> SUFFICES ASSUME TypeOK, Registry, Routed, OnItsConnection, [Next]_vars
               PROVE  Routed' /\ OnItsConnection'
    BY DEF RegistryInv, RouteInv
  <1> USE HubAssumption DEF TypeOK
  <1>1. CASE UNCHANGED routeVars
    BY <1>1 DEF routeVars, Routed, OnItsConnection, Queued
  <1>2. ASSUME NEW c \in Conn, NEW n \in Node, Verify(c, n)
        PROVE  Routed' /\ OnItsConnection'
    BY <1>2 DEF Verify, callVars, wireVars, Routed, OnItsConnection, Queued
  <1>3. ASSUME NEW c \in Conn, Register(c)
        PROVE  Routed' /\ OnItsConnection'
    BY <1>3 DEF Register, callVars, wireVars, Routed, OnItsConnection, Queued
  <1>4. ASSUME NEW c \in Conn, Serve(c)
        PROVE  Routed' /\ OnItsConnection'
    <2>1. Routed'
      BY <1>4 DEF Serve, connVars, callVars, Routed
    <2>2. \A k \in Cmd, d \in Conn : Queued(k, d)' => Queued(k, d)
      BY <1>4, QueueTail DEF Serve, Queued
    <2>3. \A k \in Cmd, d \in Conn :
             <<k, d>> \in wire' => <<k, d>> \in wire \/ (d = c /\ Queued(k, c))
      <3>1. Queued(Head(out[c]), c)
        BY <1>4, QueueTail DEF Serve
      <3> QED
        BY <1>4, <3>1 DEF Serve
    <2>4. OnItsConnection'
      BY <1>4, <2>2, <2>3 DEF Serve, callVars, OnItsConnection
    <2> QED
      BY <2>1, <2>4
  <1>5. ASSUME NEW k \in Cmd, NEW n \in Node, CheckProtocol(k, n) \/ Lookup(k, n)
        PROVE  Routed' /\ OnItsConnection'
    <2>1. via[k] = NoConn /\ (call[k] = "checked" => CheckProtocol(k, n) \/ target[k] = n)
      BY <1>5 DEF CheckProtocol, Lookup, Routed
    <2>2. UNCHANGED <<stage, owner, out, wire, results>>
      BY <1>5 DEF CheckProtocol, Lookup, ReturnEarly, connVars, wireVars
    <2>3. \A j \in Cmd \ {k} : call'[j] = call[j] /\ target'[j] = target[j] /\ via'[j] = via[j]
      BY <1>5 DEF CheckProtocol, Lookup, ReturnEarly
    <2>4. \/ via' = via /\ call'[k] # "queueing"
          \/ /\ byNode[n] \in recent
             /\ via'[k] = byNode[n] /\ target'[k] = n /\ call'[k] = "queueing"
      BY <1>5 DEF CheckProtocol, Lookup, ReturnEarly, Connection
    <2>5. byNode[n] \in recent => stage[byNode[n]] = "registered" /\ owner[byNode[n]] = n
      BY DEF Registry, NodeHasToken, Private
    <2>6. Routed'
      <3>1. ASSUME NEW j \in Cmd \ {k}
            PROVE  /\ call'[j] \in {"idle", "checked"} => via'[j] = NoConn
                   /\ call'[j] = "queueing" => via'[j] # NoConn
                   /\ via'[j] # NoConn =>
                         stage'[via'[j]] = "registered" /\ owner'[via'[j]] = target'[j]
        BY <2>2, <2>3 DEF Routed
      <3>2. /\ call'[k] \in {"idle", "checked"} => via'[k] = NoConn
            /\ call'[k] = "queueing" => via'[k] # NoConn
            /\ via'[k] # NoConn =>
                  stage'[via'[k]] = "registered" /\ owner'[via'[k]] = target'[k]
        BY <2>1, <2>2, <2>4, <2>5
      <3> QED
        BY <3>1, <3>2 DEF Routed
    <2>7. OnItsConnection'
      <3>1. \A j \in Cmd, d \in Conn : Queued(j, d)' <=> Queued(j, d)
        BY <2>2 DEF Queued
      <3>2. \A d \in Conn : <<k, d>> \notin wire \cup results /\ ~Queued(k, d)
        BY <2>1 DEF OnItsConnection
      <3> QED
        BY <2>2, <2>3, <3>1, <3>2 DEF OnItsConnection
    <2> QED
      BY <2>6, <2>7
  <1>6. ASSUME NEW k \in Cmd, Enqueue(k)
        PROVE  Routed' /\ OnItsConnection'
    <2>1. /\ UNCHANGED <<stage, owner, target, via, wire, results>>
          /\ call'[k] \notin {"idle", "checked", "queueing"}
      BY <1>6 DEF Enqueue, Conclude, connVars, wireVars
    <2>2. \A j \in Cmd \ {k} : call'[j] = call[j]
      BY <1>6 DEF Enqueue, Conclude
    <2>3. Routed'
      BY <2>1, <2>2 DEF Routed
    <2>4. \A j \in Cmd, d \in Conn : Queued(j, d)' => Queued(j, d) \/ via[j] = d
      <3>1. CASE UNCHANGED out
        BY <3>1 DEF Queued
      <3>2. CASE via[k] \in Conn /\ out' = [out EXCEPT ![via[k]] = Append(out[via[k]], k)]
        BY <3>2, QueueAppend DEF Queued
      <3>3. CASE via[k] = NoConn /\ out' = [out EXCEPT ![via[k]] = Append(out[via[k]], k)]
        BY <3>3 DEF Queued
      <3> QED
        BY <1>6, <3>1, <3>2, <3>3 DEF Enqueue, Conclude, wireVars
    <2>5. OnItsConnection'
      BY <2>1, <2>4 DEF OnItsConnection
    <2> QED
      BY <2>3, <2>5
  <1>7. ASSUME NEW k \in Cmd, TakeReply(k) \/ TakeClosed(k) \/ TakeTimeout(k) \/ Return(k)
        PROVE  Routed' /\ OnItsConnection'
    BY <1>7 DEF TakeReply, TakeClosed, TakeTimeout, Conclude, Return, connVars, wireVars,
                Routed, OnItsConnection, Queued
  <1>8. ASSUME NEW k \in Cmd, NEW c \in Conn, RunCommand(k, c)
        PROVE  Routed' /\ OnItsConnection'
    BY <1>8 DEF RunCommand, connVars, callVars, Routed, OnItsConnection, Queued
  <1>9. ASSUME NEW k \in Cmd, NEW c \in Conn, Lose(k, c) \/ PostResult(k, c)
        PROVE  Routed' /\ OnItsConnection'
    BY <1>9 DEF Lose, PostResult, connVars, callVars, Routed, OnItsConnection, Queued
  <1>10. ASSUME NEW k \in Cmd, DeliverResult(k)
         PROVE  UNCHANGED routeVars
    BY <1>10 DEF DeliverResult, connVars, routeVars
  <1>11. ASSUME NEW c \in Conn, OpenStream(c) \/ Leave(c) \/ StreamUnlink(c) \/ Close(c)
                                  \/ ClockStep(c)
         PROVE  UNCHANGED routeVars
    BY <1>11 DEF OpenStream, Leave, StreamUnlink, Close, ClockStep, Report, Silence, Expire,
                 callVars, wireVars, routeVars
  <1>12. ASSUME NEW n \in Operated, OperatorStep(n)
         PROVE  UNCHANGED routeVars
    BY <1>12 DEF OperatorStep, RemoveKey, AddKey, KickLookup, KickUnlink, callVars, wireVars,
                 routeVars
  <1>13. CASE UNCHANGED vars
    BY <1>1, <1>13 DEF vars, connVars, callVars, wireVars, routeVars
  <1> QED
    BY <1>1, <1>2, <1>3, <1>4, <1>5, <1>6, <1>7, <1>8, <1>9, <1>10, <1>11, <1>12, <1>13
    DEF Next, LoginStep, StreamStep, StreamClosed, HangUp, CallStep, ResultStep

-----------------------------------------------------------------------------
(* How often commands run, and what callers are told.                      *)

countVars == <<call, outcome, reply, out, wire, ran, results, posting>>

\* handleStream's taking a command leaves it once on its way.
LEMMA ServeCounts ==
  ASSUME TypeOK, OnItsConnection, CallInv, NEW c \in Conn, Serve(c)
  PROVE  CallInv'
  <1> USE DEF TypeOK
  <1>0. PICK h \in Cmd : h = Head(out[c])
    BY DEF Serve
  <1>1. /\ Queued(h, c) /\ 1 \in DOMAIN out[c] /\ out[c][1] = h
        /\ wire' = wire \cup {<<h, c>>}
        /\ UNCHANGED <<call, outcome, reply, ran, results, posting>>
    <2>1. Queued(h, c) /\ out[c] # <<>>
      BY <1>0, QueueTail DEF Serve
    <2>2. 1 \in DOMAIN out[c] /\ out[c][1] = h
      BY <1>0, <2>1
    <2> QED
      BY <1>0, <2>1, <2>2 DEF Serve, callVars
  <1>2. \A d \in Conn : \A i \in DOMAIN out'[d] :
           IF d = c THEN i + 1 \in DOMAIN out[d] /\ out'[d][i] = out[d][i + 1]
           ELSE i \in DOMAIN out[d] /\ out'[d][i] = out[d][i]
    BY QueueTail DEF Serve
  <1>3. \A k \in Cmd, d \in Conn : Queued(k, d)' => Queued(k, d)
    <2> SUFFICES ASSUME NEW k \in Cmd, NEW d \in Conn, NEW i \in DOMAIN out'[d], out'[d][i] = k
                 PROVE  \E j \in DOMAIN out[d] : out[d][j] = k
      BY DEF Queued
    <2>1. CASE d = c
      BY <1>2, <2>1
    <2>2. CASE d # c
      BY <1>2, <2>2
    <2> QED
      BY <2>1, <2>2
  <1>4. ~Queued(h, c)'
    <2> SUFFICES ASSUME NEW i \in DOMAIN out'[c], out'[c][i] = h
                 PROVE  FALSE
      BY DEF Queued
    <2>1. i + 1 \in DOMAIN out[c] /\ out[c][i + 1] = out[c][1] /\ i \in Nat \ {0}
      BY <1>1, <1>2 DEF Serve
    <2>2. i + 1 = 1
      BY <1>1, <2>1 DEF CallInv, OnceOnItsWay
    <2> QED
      BY <2>1, <2>2
  <1>5. OnceOnItsWay'
    <2>1. \A d \in Conn : \A i, j \in DOMAIN out'[d] : out'[d][i] = out'[d][j] => i = j
      <3> SUFFICES ASSUME NEW d \in Conn, NEW i \in DOMAIN out'[d], NEW j \in DOMAIN out'[d],
                          out'[d][i] = out'[d][j]
                   PROVE  i = j
        OBVIOUS
      <3>1. i \in Nat /\ j \in Nat
        BY SMTT(40) DEF Serve
      <3> QED
        <4>1. CASE d = c
          <5>1. i + 1 \in DOMAIN out[d] /\ j + 1 \in DOMAIN out[d]
                    /\ out[d][i + 1] = out[d][j + 1]
            BY <1>2, <4>1
          <5>2. i + 1 = j + 1
            BY <5>1 DEF CallInv, OnceOnItsWay
          <5> QED
            BY <3>1, <5>2
        <4>2. CASE d # c
          BY <1>2, <4>2 DEF CallInv, OnceOnItsWay
        <4> QED
          BY <4>1, <4>2
    <2>2. \A k \in Cmd, d \in Conn : Queued(k, d)' => ran'[k] = 0 /\ <<k, d>> \notin wire'
      <3> SUFFICES ASSUME NEW k \in Cmd, NEW d \in Conn, Queued(k, d)'
                   PROVE  ran'[k] = 0 /\ <<k, d>> \notin wire'
        OBVIOUS
      <3>1. ran[k] = 0 /\ <<k, d>> \notin wire
        BY <1>3 DEF CallInv, OnceOnItsWay
      <3>2. k # h \/ d # c
        BY <1>4
      <3> QED
        BY <1>1, <3>1, <3>2
    <2>3. \A k \in Cmd, d \in Conn : <<k, d>> \in wire' => ran'[k] = 0
      BY <1>1 DEF CallInv, OnceOnItsWay
    <2> QED
      BY <2>1, <2>2, <2>3 DEF OnceOnItsWay
  <1>6. \A k \in Cmd : Pristine(k) => Pristine(k)'
    BY <1>1, <1>3 DEF Pristine
  <1> QED
    BY <1>1, <1>5, <1>6 DEF CallInv, RanWhenResult, RanOnce, Concluded

\* Hub.Call's first select puts a command that is nowhere on its queue, or
\* concludes that it never went anywhere.
LEMMA EnqueueCounts ==
  ASSUME TypeOK, Routed, CallInv, NEW k \in Cmd, Enqueue(k)
  PROVE  CallInv'
  <1> USE DEF TypeOK
  <1> DEFINE c == via[k]
  <1>1. call[k] = "queueing" /\ c \in Conn /\ Pristine(k)
    BY DEF Enqueue, Routed, CallInv, Concluded
  <1>2. ASSUME NEW r \in {"offline", "busy"}, Conclude(k, r)
        PROVE  CallInv'
    <2>1. UNCHANGED <<reply, out, wire, ran, results, posting>>
      BY <1>2 DEF Conclude, wireVars
    <2>2. \A j \in Cmd : Pristine(j)' <=> Pristine(j)
      BY <2>1 DEF Pristine, Queued
    <2>3. OnceOnItsWay' /\ RanWhenResult' /\ RanOnce'
      BY <2>1 DEF CallInv, OnceOnItsWay, RanWhenResult, RanOnce, Queued
    <2>4. Concluded'
      BY <1>1, <1>2, <2>1, <2>2 DEF Conclude, CallInv, Concluded, Refusal, Outcome
    <2> QED
      BY <2>3, <2>4 DEF CallInv
  <1>3. CASE /\ out' = [out EXCEPT ![c] = Append(out[c], k)]
             /\ call' = [call EXCEPT ![k] = "waiting"]
             /\ UNCHANGED <<outcome, reply, wire, ran, results, posting>>
    <2>1. \A d \in Conn : \A i \in DOMAIN out'[d] :
             IF d = c /\ i = Len(out[c]) + 1 THEN out'[d][i] = k
             ELSE i \in DOMAIN out[d] /\ out'[d][i] = out[d][i]
      BY <1>1, <1>3, QueueAppend
    <2>2. \A j \in Cmd, d \in Conn : Queued(j, d)' => Queued(j, d) \/ (j = k /\ d = c)
      BY <2>1 DEF Queued
    <2>3. OnceOnItsWay'
      <3>1. \A d \in Conn : \A i, j \in DOMAIN out'[d] : out'[d][i] = out'[d][j] => i = j
        <4> SUFFICES ASSUME NEW d \in Conn, NEW i \in DOMAIN out'[d], NEW j \in DOMAIN out'[d],
                            out'[d][i] = out'[d][j]
                     PROVE  i = j
          OBVIOUS
        <4>1. \A m \in DOMAIN out[c] : out[c][m] # k
          BY <1>1 DEF Pristine, Queued
        <4>2. CASE d = c
          <5>1. i = Len(out[c]) + 1 \/ (i \in DOMAIN out[c] /\ out'[c][i] = out[c][i])
            BY <2>1, <4>2
          <5>2. j = Len(out[c]) + 1 \/ (j \in DOMAIN out[c] /\ out'[c][j] = out[c][j])
            BY <2>1, <4>2
          <5>3. /\ i = Len(out[c]) + 1 => out'[c][i] = k
                /\ j = Len(out[c]) + 1 => out'[c][j] = k
            BY <2>1, <4>2
          <5>4. \A x, y \in DOMAIN out[c] : out[c][x] = out[c][y] => x = y
            BY <1>1 DEF CallInv, OnceOnItsWay
          <5> QED
            BY <4>1, <4>2, <5>1, <5>2, <5>3, <5>4, Zenon
        <4>3. CASE d # c
          BY <2>1, <4>3 DEF CallInv, OnceOnItsWay
        <4> QED
          BY <4>2, <4>3
      <3>2. \A j \in Cmd, d \in Conn : Queued(j, d)' => ran'[j] = 0 /\ <<j, d>> \notin wire'
        BY <1>1, <1>3, <2>2 DEF Pristine, CallInv, OnceOnItsWay
      <3> QED
        BY <1>3, <3>1, <3>2 DEF CallInv, OnceOnItsWay
    <2>4. \A j \in Cmd \ {k} : Pristine(j) => Pristine(j)'
      BY <1>3, <2>2 DEF Pristine
    <2>5. Concluded'
      BY <1>1, <1>3, <2>4 DEF CallInv, Concluded, Refusal, Outcome
    <2>6. RanWhenResult' /\ RanOnce'
      BY <1>3 DEF CallInv, RanWhenResult, RanOnce
    <2> QED
      BY <2>3, <2>5, <2>6 DEF CallInv
  <1> QED
    BY <1>2, <1>3 DEF Enqueue

\* Every step keeps the account of what ran and of what callers are told.
LEMMA CallInvStep == RegistryInv /\ RouteInv /\ CallInv /\ [Next]_vars => CallInv'
  <1> SUFFICES ASSUME TypeOK, Routed, OnItsConnection, CallInv, [Next]_vars
               PROVE  CallInv'
    BY DEF RegistryInv, RouteInv
  <1> USE DEF TypeOK
  <1>1. CASE UNCHANGED countVars
    BY <1>1 DEF countVars, CallInv, OnceOnItsWay, RanWhenResult, RanOnce, Concluded, Pristine,
                Queued
  <1>2. ASSUME NEW k \in Cmd, NEW n \in Node, CheckProtocol(k, n) \/ Lookup(k, n)
        PROVE  CallInv'
    <2>1. UNCHANGED <<reply, out, wire, ran, results, posting>> /\ Pristine(k)
      BY <1>2 DEF CheckProtocol, Lookup, ReturnEarly, wireVars, CallInv, Concluded
    <2>2. \A j \in Cmd : Pristine(j)' <=> Pristine(j)
      BY <2>1 DEF Pristine, Queued
    <2>3. OnceOnItsWay' /\ RanWhenResult' /\ RanOnce'
      BY <2>1 DEF CallInv, OnceOnItsWay, RanWhenResult, RanOnce, Queued
    <2>4. \A j \in Cmd \ {k} : call'[j] = call[j] /\ outcome'[j] = outcome[j]
      BY <1>2 DEF CheckProtocol, Lookup, ReturnEarly
    <2>5. \/ call'[k] = "returned" /\ outcome'[k] \in Refusal
          \/ call'[k] \in {"checked", "queueing"} /\ outcome'[k] = outcome[k]
      BY <1>2 DEF CheckProtocol, Lookup, ReturnEarly, Refusal
    <2>6. outcome[k] = "none"
      BY <1>2 DEF CheckProtocol, Lookup, CallInv, Concluded
    <2>7. Concluded'
      BY <2>1, <2>2, <2>4, <2>5, <2>6 DEF CallInv, Concluded, Refusal
    <2> QED
      BY <2>3, <2>7 DEF CallInv
  <1>3. ASSUME NEW k \in Cmd, Enqueue(k)
        PROVE  CallInv'
    BY <1>3, EnqueueCounts
  <1>4. ASSUME NEW k \in Cmd, TakeReply(k) \/ TakeClosed(k) \/ TakeTimeout(k)
        PROVE  CallInv'
    <2>1. UNCHANGED <<reply, out, wire, ran, results, posting>> /\ call[k] = "waiting"
      BY <1>4 DEF TakeReply, TakeClosed, TakeTimeout, Conclude, wireVars
    <2>2. \A j \in Cmd : Pristine(j)' <=> Pristine(j)
      BY <2>1 DEF Pristine, Queued
    <2>3. OnceOnItsWay' /\ RanWhenResult' /\ RanOnce'
      BY <2>1 DEF CallInv, OnceOnItsWay, RanWhenResult, RanOnce, Queued
    <2>4. /\ \A j \in Cmd \ {k} : call'[j] = call[j] /\ outcome'[j] = outcome[j]
          /\ call'[k] = "leaving"
          /\ \/ outcome'[k] \in {"dropped", "timeout"}
             \/ outcome'[k] = "answered" /\ k \in reply
      BY <1>4 DEF TakeReply, TakeClosed, TakeTimeout, Conclude
    <2>5. Concluded'
      BY <2>1, <2>2, <2>4 DEF CallInv, Concluded, RanWhenResult, Refusal
    <2> QED
      BY <2>3, <2>5 DEF CallInv
  <1>5. ASSUME NEW k \in Cmd, Return(k)
        PROVE  CallInv'
    <2>1. \A j \in Cmd : Pristine(j) => Pristine(j)'
      BY <1>5 DEF Return, wireVars, Pristine, Queued
    <2>2. OnceOnItsWay' /\ RanWhenResult' /\ RanOnce'
      BY <1>5 DEF Return, wireVars, CallInv, OnceOnItsWay, RanWhenResult, RanOnce, Queued
    <2>3. Concluded'
      BY <1>5, <2>1 DEF Return, wireVars, CallInv, Concluded
    <2> QED
      BY <2>2, <2>3 DEF CallInv
  <1>6. ASSUME NEW c \in Conn, Serve(c)
        PROVE  CallInv'
    BY <1>6, ServeCounts
  <1>7. ASSUME NEW k \in Cmd, NEW c \in Conn, RunCommand(k, c)
        PROVE  CallInv'
    <2>1. /\ ran[k] = 0 /\ ran'[k] = 1 /\ \A j \in Cmd \ {k} : ran'[j] = ran[j]
          /\ wire' = wire \ {<<k, c>>} /\ results' = results \cup {<<k, c>>}
          /\ UNCHANGED <<call, outcome, reply, out, posting>>
      BY <1>7 DEF RunCommand, callVars, CallInv, OnceOnItsWay
    <2>2. \A d \in Conn : ~Queued(k, d) /\ (d # c => <<k, d>> \notin wire)
      BY <1>7 DEF RunCommand, OnItsConnection, CallInv, OnceOnItsWay
    <2>3. \A j \in Cmd, d \in Conn : Queued(j, d)' <=> Queued(j, d)
      BY <2>1 DEF Queued
    <2>4. OnceOnItsWay'
      <3>1. \A j \in Cmd, d \in Conn : Queued(j, d)' => ran'[j] = 0 /\ <<j, d>> \notin wire'
        BY <2>1, <2>2, <2>3 DEF CallInv, OnceOnItsWay
      <3>2. \A j \in Cmd, d \in Conn : <<j, d>> \in wire' => ran'[j] = 0
        BY <2>1, <2>2 DEF CallInv, OnceOnItsWay
      <3> QED
        BY <2>1, <3>1, <3>2 DEF CallInv, OnceOnItsWay
    <2>5. RanWhenResult' /\ RanOnce'
      BY <2>1 DEF CallInv, RanWhenResult, RanOnce
    <2>6. ~Pristine(k) /\ \A j \in Cmd \ {k} : Pristine(j) => Pristine(j)'
      BY <1>7, <2>1, <2>3 DEF RunCommand, Pristine
    <2>7. Concluded'
      BY <2>1, <2>6 DEF CallInv, Concluded
    <2> QED
      BY <2>4, <2>5, <2>7 DEF CallInv
  <1>8. ASSUME NEW k \in Cmd, NEW c \in Conn, Lose(k, c) \/ PostResult(k, c)
        PROVE  CallInv'
    <2>1. /\ UNCHANGED <<call, outcome, reply, out, ran>>
          /\ wire' \subseteq wire /\ results' \subseteq results
          /\ posting' \subseteq posting \cup {k}
          /\ k \in posting' => k \in posting \/ <<k, c>> \in results
      BY <1>8 DEF Lose, PostResult, callVars
    <2>2. \A j \in Cmd, d \in Conn : Queued(j, d)' <=> Queued(j, d)
      BY <2>1 DEF Queued
    <2>3. OnceOnItsWay' /\ RanWhenResult' /\ RanOnce'
      BY <2>1, <2>2 DEF CallInv, OnceOnItsWay, RanWhenResult, RanOnce
    <2>4. \A j \in Cmd : Pristine(j) => Pristine(j)'
      BY <2>1, <2>2 DEF Pristine
    <2> QED
      BY <2>1, <2>3, <2>4 DEF CallInv, Concluded
  <1>9. ASSUME NEW k \in Cmd, DeliverResult(k)
        PROVE  CallInv'
    <2>1. /\ UNCHANGED <<call, outcome, out, wire, ran, results>>
          /\ k \in posting /\ posting' \subseteq posting /\ reply' \subseteq reply \cup {k}
      BY <1>9 DEF DeliverResult, connVars
    <2>2. \A j \in Cmd, d \in Conn : Queued(j, d)' <=> Queued(j, d)
      BY <2>1 DEF Queued
    <2>3. OnceOnItsWay' /\ RanWhenResult' /\ RanOnce'
      BY <2>1, <2>2 DEF CallInv, OnceOnItsWay, RanWhenResult, RanOnce
    <2>4. \A j \in Cmd : Pristine(j) => Pristine(j)'
      BY <2>1, <2>2 DEF Pristine
    <2> QED
      BY <2>1, <2>3, <2>4 DEF CallInv, Concluded
  <1>10. ASSUME NEW c \in Conn, LoginStep(c) \/ OpenStream(c) \/ Leave(c) \/ StreamUnlink(c)
                                  \/ Close(c) \/ ClockStep(c)
         PROVE  UNCHANGED countVars
    BY <1>10 DEF LoginStep, Verify, Register, OpenStream, Leave, StreamUnlink, Close, ClockStep,
                 Report, Silence, Expire, callVars, wireVars, countVars
  <1>11. ASSUME NEW n \in Operated, OperatorStep(n)
         PROVE  UNCHANGED countVars
    BY <1>11 DEF OperatorStep, RemoveKey, AddKey, KickLookup, KickUnlink, callVars, wireVars,
                 countVars
  <1>12. CASE UNCHANGED vars
    BY <1>1, <1>12 DEF vars, connVars, callVars, wireVars, countVars
  <1> QED
    BY <1>1, <1>2, <1>3, <1>4, <1>5, <1>6, <1>7, <1>8, <1>9, <1>10, <1>11, <1>12
    DEF Next, StreamStep, StreamClosed, HangUp, CallStep, ResultStep

-----------------------------------------------------------------------------
(* The theorems.                                                           *)

Inv == RegistryInv /\ RouteInv /\ CallInv /\ PendingExact

LEMMA InvInit == Init => Inv
  <1> USE HubAssumption DEF Init
  <1>1. Init => TypeOK
    BY DEF TypeOK, Stage, Stream, CallPC, Refusal, Outcome
  <1>2. Init => Registry
    BY DEF Registry, OwnerKnown, Private, KickedWasRegistered, TokenHasNode, NodeHasToken,
           UnlinkedIsClosed
  <1>3. Init => RouteInv
    BY DEF RouteInv, Routed, OnItsConnection, Queued
  <1>4. Init => CallInv
    BY DEF CallInv, OnceOnItsWay, RanWhenResult, RanOnce, Concluded, Pristine, Queued, Refusal
  <1>5. Init => PendingExact
    BY DEF PendingExact
  <1> QED
    BY <1>1, <1>2, <1>3, <1>4, <1>5 DEF Inv, RegistryInv

\* Hub.pending follows the calls: registered by the lookup, removed on the way out.
LEMMA PendingStep == TypeOK /\ PendingExact /\ [Next]_vars => PendingExact'
  <1> SUFFICES ASSUME TypeOK, PendingExact, [Next]_vars
               PROVE  PendingExact'
    OBVIOUS
  <1> USE DEF TypeOK, PendingExact
  <1>1. CASE UNCHANGED <<call, pending>>
    BY <1>1
  <1>2. ASSUME NEW k \in Cmd, NEW n \in Node, CheckProtocol(k, n) \/ Lookup(k, n)
        PROVE  PendingExact'
    BY <1>2 DEF CheckProtocol, Lookup, ReturnEarly
  <1>3. ASSUME NEW k \in Cmd,
               Enqueue(k) \/ TakeReply(k) \/ TakeClosed(k) \/ TakeTimeout(k)
        PROVE  PendingExact'
    BY <1>3 DEF Enqueue, TakeReply, TakeClosed, TakeTimeout, Conclude
  <1>4. ASSUME NEW k \in Cmd, Return(k)
        PROVE  PendingExact'
    BY <1>4 DEF Return, ForgetCall
  <1>5. ASSUME NEW k \in Cmd, ResultStep(k)
        PROVE  UNCHANGED <<call, pending>>
    BY <1>5 DEF ResultStep, RunCommand, Lose, PostResult, DeliverResult, callVars
  <1>6. ASSUME NEW c \in Conn, LoginStep(c) \/ StreamStep(c) \/ ClockStep(c)
        PROVE  UNCHANGED <<call, pending>>
    BY <1>6 DEF LoginStep, Verify, Register, StreamStep, OpenStream, Serve, StreamClosed, HangUp,
                Leave, StreamUnlink, Close, ClockStep, Report, Silence, Expire, callVars
  <1>7. ASSUME NEW n \in Operated, OperatorStep(n)
        PROVE  UNCHANGED <<call, pending>>
    BY <1>7 DEF OperatorStep, RemoveKey, AddKey, KickLookup, KickUnlink, callVars
  <1>8. CASE UNCHANGED vars
    BY <1>1, <1>8 DEF vars, callVars
  <1> QED
    BY <1>1, <1>2, <1>3, <1>4, <1>5, <1>6, <1>7, <1>8 DEF Next, CallStep

\* The inductive invariant holds of every behaviour.
THEOREM Invariance == Spec => []Inv
  <1>1. Inv /\ [Next]_vars => Inv'
    BY TypeStep, RegistryStep, RouteStep, CallInvStep, PendingStep DEF Inv, RegistryInv
  <1> QED
    BY InvInit, <1>1, PTL DEF Spec

\* The coordinator's state has its types; its queues never exceed their capacity.
THEOREM TypesCorrect == Spec => []TypeOK
  <1>1. Inv => TypeOK
    BY DEF Inv, RegistryInv
  <1> QED
    BY Invariance, <1>1, PTL

\* byToken and byNode (src/hub/hub.go) stay each other's inverse over open
\* connections, however logins, stream ends and disconnects interleave.
THEOREM RegistryCorrect == Spec => []RegistryConsistent
  <1>1. Inv => RegistryConsistent
    BY DEF Inv, RegistryInv, Registry, TokenHasNode, NodeHasToken, RegistryConsistent
  <1> QED
    BY Invariance, <1>1, PTL

\* An unregistered connection is closed or about to be.
THEOREM UnlinkedClosed == Spec => []UnlinkedIsClosed
  <1>1. Inv => UnlinkedIsClosed
    BY DEF Inv, RegistryInv, Registry
  <1> QED
    BY Invariance, <1>1, PTL

\* A command is only ever on a connection of the node its caller named.
THEOREM CommandsRouted == Spec => []CommandsReachTarget
  <1>1. Inv => CommandsReachTarget
    BY HubAssumption DEF Inv, RouteInv, Routed, OnItsConnection, Queued, CommandsReachTarget
  <1> QED
    BY Invariance, <1>1, PTL

\* Hub.pending holds the calls under way and no other.
THEOREM PendingCorrect == Spec => []PendingExact
  <1>1. Inv => PendingExact
    BY DEF Inv
  <1> QED
    BY Invariance, <1>1, PTL

-----------------------------------------------------------------------------
(* Hub.Call keeps the promise of RemoteCall.                               *)

told == [k \in Cmd |-> ToldOf(k)]

\* What callers have been told changes for k alone when only k's call moves.
LEMMA ToldFrame ==
  ASSUME NEW k \in Cmd,
         \A j \in Cmd \ {k} : call'[j] = call[j] /\ outcome'[j] = outcome[j]
  PROVE  told' = [told EXCEPT ![k] = ToldOf(k)']
  <1>1. \A j \in Cmd \ {k} : ToldOf(j)' = ToldOf(j)
    BY DEF ToldOf
  <1> QED
    BY <1>1 DEF told

\* Every step of the coordinator is a step of RemoteCall or changes nothing there.
LEMMA RefinementStep == Inv /\ [Next]_vars => [RC!Next]_(RC!vars)
  <1> SUFFICES ASSUME TypeOK, RouteInv, CallInv, [Next]_vars
               PROVE  RC!Next \/ UNCHANGED <<told, ran>>
    BY DEF RC!vars, told, Inv, RegistryInv
  <1> USE DEF TypeOK
  <1>1. ASSUME UNCHANGED <<call, outcome, ran>>
        PROVE  UNCHANGED <<told, ran>>
    <2>1. \A k \in Cmd : ToldOf(k)' = ToldOf(k)
      BY <1>1 DEF ToldOf
    <2> QED
      BY <1>1, <2>1 DEF told
  <1>2. ASSUME NEW k \in Cmd, UNCHANGED ran,
               \A j \in Cmd \ {k} : call'[j] = call[j] /\ outcome'[j] = outcome[j],
               ToldOf(k)' = ToldOf(k)
        PROVE  UNCHANGED <<told, ran>>
    BY <1>2, ToldFrame DEF told
  <1>3. ASSUME NEW k \in Cmd, UNCHANGED ran,
               \A j \in Cmd \ {k} : call'[j] = call[j] /\ outcome'[j] = outcome[j],
               \/ ToldOf(k) = "none" /\ ToldOf(k)' = "open"
               \/ ToldOf(k) \in {"none", "open"} /\ ToldOf(k)' = "refused" /\ ran[k] = 0
               \/ ToldOf(k) = "open" /\ ToldOf(k)' = "answered" /\ ran[k] = 1
               \/ ToldOf(k) = "open" /\ ToldOf(k)' = "unknown"
        PROVE  RC!Next
    BY <1>3, ToldFrame DEF told, RC!Next, RC!Start, RC!Refuse, RC!Answer, RC!GiveUp
  <1>4. ASSUME NEW k \in Cmd, NEW n \in Node, CheckProtocol(k, n) \/ Lookup(k, n)
        PROVE  RC!Next \/ UNCHANGED <<told, ran>>
    <2>1. /\ UNCHANGED ran /\ ran[k] = 0
          /\ \A j \in Cmd \ {k} : call'[j] = call[j] /\ outcome'[j] = outcome[j]
          /\ call[k] \in {"idle", "checked"} /\ outcome[k] = "none"
      BY <1>4 DEF CheckProtocol, Lookup, ReturnEarly, wireVars, CallInv, Concluded, Pristine
    <2>2. ToldOf(k) = IF call[k] = "idle" THEN "none" ELSE "open"
      BY <2>1 DEF ToldOf, Refusal
    <2>3. \/ call'[k] = "returned" /\ outcome'[k] \in Refusal
          \/ call'[k] \in {"checked", "queueing"} /\ outcome'[k] = "none"
      BY <1>4, <2>1 DEF CheckProtocol, Lookup, ReturnEarly, Refusal
    <2>4. ToldOf(k)' = "refused" \/ ToldOf(k)' = "open"
      BY <2>3 DEF ToldOf, Refusal
    <2> QED
      BY <1>2, <1>3, <2>1, <2>2, <2>4
  <1>5. ASSUME NEW k \in Cmd, Enqueue(k)
        PROVE  RC!Next \/ UNCHANGED <<told, ran>>
    <2>1. /\ UNCHANGED ran /\ ran[k] = 0
          /\ \A j \in Cmd \ {k} : call'[j] = call[j] /\ outcome'[j] = outcome[j]
          /\ call[k] = "queueing" /\ outcome[k] = "none"
      BY <1>5 DEF Enqueue, Conclude, wireVars, CallInv, Concluded, Pristine
    <2>2. \/ call'[k] = "leaving" /\ outcome'[k] \in {"offline", "busy"}
          \/ call'[k] = "waiting" /\ outcome'[k] = "none"
      BY <1>5, <2>1 DEF Enqueue, Conclude
    <2>3. ToldOf(k) = "open" /\ (ToldOf(k)' = "refused" \/ ToldOf(k)' = "open")
      BY <2>1, <2>2 DEF ToldOf, Refusal
    <2> QED
      BY <1>2, <1>3, <2>1, <2>3
  <1>6. ASSUME NEW k \in Cmd, TakeReply(k) \/ TakeClosed(k) \/ TakeTimeout(k)
        PROVE  RC!Next
    <2>1. /\ UNCHANGED ran
          /\ \A j \in Cmd \ {k} : call'[j] = call[j] /\ outcome'[j] = outcome[j]
          /\ call[k] = "waiting" /\ outcome[k] = "none" /\ call'[k] = "leaving"
      BY <1>6 DEF TakeReply, TakeClosed, TakeTimeout, Conclude, wireVars, CallInv, Concluded
    <2>2. \/ outcome'[k] = "answered" /\ ran[k] = 1
          \/ outcome'[k] \in {"dropped", "timeout"}
      BY <1>6 DEF TakeReply, TakeClosed, TakeTimeout, Conclude, CallInv, RanWhenResult
    <2>3. /\ ToldOf(k) = "open"
          /\ \/ ToldOf(k)' = "answered" /\ ran[k] = 1
             \/ ToldOf(k)' = "unknown"
      BY <2>1, <2>2 DEF ToldOf, Refusal
    <2> QED
      BY <1>3, <2>1, <2>3
  <1>7. ASSUME NEW k \in Cmd, Return(k)
        PROVE  UNCHANGED <<told, ran>>
    <2>1. /\ UNCHANGED ran /\ outcome' = outcome
          /\ \A j \in Cmd \ {k} : call'[j] = call[j]
          /\ call[k] = "leaving" /\ call'[k] = "returned"
      BY <1>7 DEF Return, wireVars
    <2>2. ToldOf(k)' = ToldOf(k)
      BY <2>1 DEF ToldOf
    <2> QED
      BY <1>2, <2>1, <2>2
  <1>8. ASSUME NEW k \in Cmd, NEW c \in Conn, RunCommand(k, c)
        PROVE  RC!Next
    <2>0. <<k, c>> \in wire /\ ran[k] = 0
      BY <1>8 DEF RunCommand, CallInv, OnceOnItsWay
    <2>1. /\ UNCHANGED <<call, outcome>> /\ ran' = [ran EXCEPT ![k] = 1]
          /\ ran[k] = 0 /\ ~Pristine(k)
      BY <1>8, <2>0 DEF RunCommand, callVars, Pristine
    <2>2. ToldOf(k) \in {"open", "unknown"} /\ told' = told
      <3>1. call[k] # "idle" /\ outcome[k] # "answered" /\ outcome[k] \notin Refusal
        BY <2>1 DEF CallInv, Concluded
      <3>2. \A j \in Cmd : ToldOf(j)' = ToldOf(j)
        BY <2>1 DEF ToldOf
      <3> QED
        BY <3>1, <3>2 DEF ToldOf, told, Outcome
    <2> QED
      BY <2>1, <2>2 DEF told, RC!Next, RC!Run
  <1>9. ASSUME NEW k \in Cmd, NEW c \in Conn, Lose(k, c) \/ PostResult(k, c)
        PROVE  UNCHANGED <<call, outcome, ran>>
    BY <1>9 DEF Lose, PostResult, callVars
  <1>10. ASSUME NEW k \in Cmd, DeliverResult(k)
         PROVE  UNCHANGED <<call, outcome, ran>>
    BY <1>10 DEF DeliverResult
  <1>11. ASSUME NEW c \in Conn, LoginStep(c) \/ StreamStep(c) \/ ClockStep(c)
         PROVE  UNCHANGED <<call, outcome, ran>>
    BY <1>11 DEF LoginStep, Verify, Register, StreamStep, OpenStream, Serve, StreamClosed, HangUp,
                 Leave, StreamUnlink, Close, ClockStep, Report, Silence, Expire, callVars, wireVars
  <1>12. ASSUME NEW n \in Operated, OperatorStep(n)
         PROVE  UNCHANGED <<call, outcome, ran>>
    BY <1>12 DEF OperatorStep, RemoveKey, AddKey, KickLookup, KickUnlink, callVars, wireVars
  <1>13. CASE UNCHANGED vars
    BY <1>1, <1>13 DEF vars, callVars, wireVars
  <1> QED
    BY <1>1, <1>4, <1>5, <1>6, <1>7, <1>8, <1>9, <1>10, <1>11, <1>12, <1>13
    DEF Next, CallStep, ResultStep

\* Whatever happens to connections, Hub.Call's verdicts are honest: a command
\* takes effect at most once, has taken effect if its caller got an answer, and
\* never does if its caller was refused.
THEOREM CallsHonest == Spec => CallsAreHonest
  <1>1. Init => RC!Init
    <2> SUFFICES ASSUME Init
                 PROVE  told = [k \in Cmd |-> "none"] /\ ran = [k \in Cmd |-> 0]
      BY DEF RC!Init, told
    <2>1. \A k \in Cmd : ToldOf(k) = "none"
      BY DEF Init, ToldOf, Refusal
    <2> QED
      BY <2>1 DEF Init, told
  <1> QED
    BY Invariance, <1>1, RefinementStep, PTL DEF Spec, CallsAreHonest, RC!Spec

=============================================================================
