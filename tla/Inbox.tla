------------------------------- MODULE Inbox -------------------------------
(***************************************************************************)
(* Mail from the sender's request to the reader's screen: Tenant.Send,     *)
(* BroadcastTo, Drain, trim and Vacuum of src/hub/store.go, and the hook   *)
(* `shabadoo inbox` that drains (src/inbox.go).                            *)
(*                                                                         *)
(* A step is one statement or transaction of the database, which run one   *)
(* after another.  A send is several statements outside a transaction, so  *)
(* sends, drains and trims of one session interleave.  Time is in the      *)
(* seconds created_at is kept in; only the order of stamps matters.        *)
(***************************************************************************)
EXTENDS Naturals, FiniteSets

CONSTANTS
    Msg,        \* messages; each is sent once
    Session,
    Reader,     \* runs of the hook
    Of,         \* Of[r]: the session r drains for
    Cap,        \* maxPerRecipient
    TTL,        \* messageTTL
    MaxTime,    \* bound on time
    NoSession

ASSUME InboxAssumption ==
    /\ Of \in [Reader -> Session]
    /\ IsFiniteSet(Msg)
    /\ Cap \in Nat
    /\ TTL \in Nat
    /\ MaxTime \in Nat
    /\ NoSession \notin Session

VARIABLES
    now,
    \* --- senders
    send,       \* send[m]: how far the handler of m's send has come
    to,         \* to[m]: the recipients it resolved
    made,       \* made[m]: its `now`, m's created_at
    todo,       \* todo[m]: the recipients it has yet to insert a delivery for
    untrimmed,  \* untrimmed[m]: the one it has inserted and not trimmed
    \* --- the database
    messages,   \* rows of messages
    undrained,  \* <<m, s>>: rows of deliveries with acked_at NULL
    \* --- readers
    hook,       \* hook[r]: how far a run of `shabadoo inbox` has come
    batch,      \* batch[r]: the copies in the reply on its way to r
    \* --- ghosts
    put,        \* copies ever inserted
    printed     \* printed[m, s]: how often a reader of s printed m

sendVars == <<send, to, made, todo, untrimmed>>
rowVars == <<messages, undrained>>
hookVars == <<hook, batch>>
vars == <<now, sendVars, rowVars, hookVars, put, printed>>

Copy == Msg \X Session
SendPC == {"idle", "begun", "fanOut", "ok", "error"}
HookPC == {"idle", "asked", "abandoned", "answered"}

TypeOK ==
    /\ now \in Nat
    /\ send \in [Msg -> SendPC]
    /\ to \in [Msg -> SUBSET Session]
    /\ made \in [Msg -> Nat]
    /\ todo \in [Msg -> SUBSET Session]
    /\ untrimmed \in [Msg -> Session \cup {NoSession}]
    /\ messages \subseteq Msg
    /\ undrained \subseteq messages \X Session
    /\ hook \in [Reader -> HookPC]
    /\ batch \in [Reader -> SUBSET Copy]
    /\ put \subseteq Copy
    /\ printed \in [Copy -> Nat]

Init ==
    /\ now = 0
    /\ send = [m \in Msg |-> "idle"]
    /\ to = [m \in Msg |-> {}]
    /\ made = [m \in Msg |-> 0]
    /\ todo = [m \in Msg |-> {}]
    /\ untrimmed = [m \in Msg |-> NoSession]
    /\ messages = {}
    /\ undrained = {}
    /\ hook = [r \in Reader |-> "idle"]
    /\ batch = [r \in Reader |-> {}]
    /\ put = {}
    /\ printed = [x \in Copy |-> 0]

Tick ==
    /\ now < MaxTime
    /\ now' = now + 1
    /\ UNCHANGED <<sendVars, rowVars, hookVars, put, printed>>

Live(m) == made[m] + TTL > now
Mail(s) == {m \in Msg : <<m, s>> \in undrained}

-----------------------------------------------------------------------------
(* A send: agentSend has one recipient, a broadcast any number.            *)

\* The handler reads the clock and resolves its recipients.  (A broadcast to a
\* topic resolves them after InsertMessage; they are any set either way.)
Begin(m, S) ==
    /\ send[m] = "idle"
    /\ send' = [send EXCEPT ![m] = "begun"]
    /\ to' = [to EXCEPT ![m] = S]
    /\ todo' = [todo EXCEPT ![m] = S]
    /\ made' = [made EXCEPT ![m] = now]
    /\ UNCHANGED <<now, untrimmed, rowVars, hookVars, put, printed>>

InsertMessage(m) ==
    /\ send[m] = "begun"
    /\ send' = [send EXCEPT ![m] = "fanOut"]
    /\ messages' = messages \cup {m}
    /\ UNCHANGED <<now, to, made, todo, untrimmed, undrained, hookVars, put, printed>>

\* The message may have been vacuumed since: the foreign key then refuses.
InsertDelivery(m, s) ==
    /\ send[m] = "fanOut" /\ untrimmed[m] = NoSession /\ s \in todo[m]
    /\ m \in messages
    /\ undrained' = undrained \cup {<<m, s>>}
    /\ put' = put \cup {<<m, s>>}
    /\ todo' = [todo EXCEPT ![m] = @ \ {s}]
    /\ untrimmed' = [untrimmed EXCEPT ![m] = s]
    /\ UNCHANGED <<now, send, to, made, messages, hookVars, printed>>

\* K is what ORDER BY created_at DESC may list before the rest of M; messages of
\* one second come in any order.  (The fault: ascending order.)
OldestOf(K, M) == \A k \in K, x \in M \ K : made[k] <= made[x]
NewestOf(K, M) == \A k \in K, x \in M \ K : made[k] >= made[x]

\* The statement of trim.  It joins with messages, and counts expired mail too.
Trim(m) ==
    LET s == untrimmed[m]
        M == Mail(s) \cap messages
    IN  /\ send[m] = "fanOut" /\ s # NoSession
        /\ \E K \in SUBSET M :
              /\ K = M \/ Cardinality(K) = Cap
              /\ Cardinality(K) <= Cap
              /\ NewestOf(K, M)
              /\ undrained' = undrained \ ((M \ K) \X {s})
        /\ untrimmed' = [untrimmed EXCEPT ![m] = NoSession]
        /\ UNCHANGED <<now, send, to, made, todo, messages, hookVars, put, printed>>

Sent(m) == send[m] = "fanOut" /\ todo[m] = {} /\ untrimmed[m] = NoSession

Finish(m) ==
    /\ Sent(m)
    /\ send' = [send EXCEPT ![m] = "ok"]
    /\ UNCHANGED <<now, to, made, todo, untrimmed, rowVars, hookVars, put, printed>>

\* A statement fails, the request's context ends, or the coordinator dies: the
\* statements before it stand.
Fail(m) ==
    /\ send[m] \in {"begun", "fanOut"}
    /\ send' = [send EXCEPT ![m] = "error"]
    /\ UNCHANGED <<now, to, made, todo, untrimmed, rowVars, hookVars, put, printed>>

-----------------------------------------------------------------------------
(* Draining.                                                               *)

Ask(r) ==
    /\ hook[r] = "idle"
    /\ hook' = [hook EXCEPT ![r] = "asked"]
    /\ UNCHANGED <<now, sendVars, rowVars, batch, put, printed>>

\* What Drain's UPDATE marks: every undrained row of s, those it did not select
\* included.  (The fault: mail is acknowledged when the hook has printed it.)
AckedWhenPrinted(s) == {}
Acked(s) == Mail(s) \X {s}

\* Drain's transaction; its reply goes to the hook, if it still waits.
Drain(r) ==
    LET s == Of[r]
    IN  /\ hook[r] \in {"asked", "abandoned"}
        /\ undrained' = undrained \ Acked(s)
        /\ IF hook[r] = "asked"
           THEN /\ hook' = [hook EXCEPT ![r] = "answered"]
                /\ batch' = [batch EXCEPT ![r] =
                               {m \in Mail(s) \cap messages : Live(m)} \X {s}]
           ELSE hook' = [hook EXCEPT ![r] = "idle"] /\ UNCHANGED batch
        /\ UNCHANGED <<now, sendVars, messages, put, printed>>

\* The request fails before the transaction commits.
DrainFails(r) ==
    /\ hook[r] \in {"asked", "abandoned"}
    /\ hook' = [hook EXCEPT ![r] = "idle"]
    /\ UNCHANGED <<now, sendVars, rowVars, batch, put, printed>>

Show(r) ==
    /\ hook[r] = "answered"
    /\ hook' = [hook EXCEPT ![r] = "idle"]
    /\ batch' = [batch EXCEPT ![r] = {}]
    /\ printed' = [x \in Copy |-> IF x \in batch[r] THEN printed[x] + 1 ELSE printed[x]]
    /\ UNCHANGED <<now, sendVars, rowVars, put>>

\* Five seconds pass, or the reply is lost: the hook prints nothing, while the
\* request may still be on its way to the database.
GiveUp(r) ==
    /\ hook[r] \in {"asked", "answered"}
    /\ hook' = [hook EXCEPT ![r] = IF @ = "asked" THEN "abandoned" ELSE "idle"]
    /\ batch' = [batch EXCEPT ![r] = {}]
    /\ UNCHANGED <<now, sendVars, rowVars, put, printed>>

\* The deliveries that go with the rows of M.  (The fault: foreign keys are off.)
CascadeNot(M) == {}
Cascade(M) == M \X Session

Vacuum ==
    LET M == {m \in messages : ~Live(m)}
    IN  /\ M # {}
        /\ messages' = messages \ M
        /\ undrained' = undrained \ Cascade(M)
        /\ UNCHANGED <<now, sendVars, hookVars, put, printed>>

-----------------------------------------------------------------------------

SendStep(m) ==
    \/ \E S \in SUBSET Session : Begin(m, S)
    \/ InsertMessage(m)
    \/ \E s \in Session : InsertDelivery(m, s)
    \/ Trim(m) \/ Finish(m) \/ Fail(m)
HookStep(r) == Ask(r) \/ Drain(r) \/ DrainFails(r) \/ Show(r) \/ GiveUp(r)

Next ==
    \/ \E m \in Msg : SendStep(m)
    \/ \E r \in Reader : HookStep(r)
    \/ Tick \/ Vacuum

Spec == Init /\ [][Next]_vars

-----------------------------------------------------------------------------
(* Properties.                                                             *)

\* No session's backlog outgrows the cap by more than the sends that inserted a
\* copy and have not trimmed, or died before they could: one trim, by whichever
\* send, takes it back under the cap, and expired or vacuumed mail never escapes
\* the count.
BacklogBounded ==
    \A s \in Session :
        Cardinality(Mail(s)) <= Cap + Cardinality({m \in Msg : untrimmed[m] = s})

\* Live mail is shed only to keep Cap messages that are at least as new, whatever
\* order the sends reached the database in.
Shed == {x \in undrained \ undrained' : Live(x[1]) /\ \E m \in Msg : Trim(m)}
ShedsOldest ==
    [][\A x \in Shed :
          \E K \in SUBSET Mail(x[2])' :
              Cardinality(K) = Cap /\ \A k \in K : made[k] >= made[x[1]]]_vars

\* What has become of a copy (Mailbox).
StatusOf(x) ==
    IF printed[x] > 0 THEN IF printed[x] = 1 THEN "read" ELSE "twice"
    ELSE IF x \in undrained THEN "waiting"
    ELSE IF \E r \in Reader : x \in batch[r] THEN "taken"
    ELSE IF x \in put THEN "gone" ELSE "none"
ToldOf(m) ==
    CASE send[m] = "idle" -> "none"
      [] send[m] \in {"begun", "fanOut"} -> "open"
      [] OTHER -> send[m]

MB == INSTANCE Mailbox WITH
          copy <- [x \in Copy |-> StatusOf(x)],
          verdict <- [m \in Msg |-> ToldOf(m)]
DeliversOnce == MB!Spec

=============================================================================
