------------------------------ MODULE LiveView ------------------------------
(***************************************************************************)
(* What the nodes report every few seconds, and who is told of it          *)
(* (src/hub/hub.go handleReport, src/hub/store.go ReplaceAgentSessions,    *)
(* src/hub/waitingage.go, src/hub/blocked.go, src/hub/events.go).  A       *)
(* report replaces the node's rows and reconciles its blockers in one      *)
(* transaction, is then shown to the watcher of sessions stuck at a        *)
(* prompt, and then wakes the browsers that stream the view.               *)
(*                                                                         *)
(* Handlers, notifications and streams are goroutines; a step is what one  *)
(* does between two accesses to what they share.  Each node has one        *)
(* window, one project in it and one blocker that project may list.        *)
(* Times are reduced to the thresholds they have passed: blockedGrace      *)
(* since the prompt was first reported, blockedRepeat since it was raised; *)
(* and seconds to which is the later one, of a report that may resolve a   *)
(* blocker and of those that list it.                                      *)
(***************************************************************************)
EXTENDS Naturals

CONSTANTS
    Node,
    Browser,       \* streams of GET /api/events
    Shown,         \* what a window may show (a bound)
    Changing,      \* nodes whose windows change, and which lose connections and
                   \* reports (a bound)
    MaxChanges,    \* bound on what happens in the windows
    MaxFaults,     \* bound on what fails: sends, reads, writes, connections, reports
    Late           \* the handler of a report its node has given up

ASSUME LiveViewAssumption ==
    /\ Late \notin Node /\ Changing \subseteq Node
    /\ \A v \in Shown : v.prompt \in BOOLEAN /\ v.blocker \in {"listed", "done"}
    /\ {MaxChanges, MaxFaults} \subseteq Nat

VARIABLES
    host,      \* host[n]: what is on n's screen now
    report,    \* report[h]: how far a node's handler has come with which view,
               \* and at most one that was given up
    online,    \* nodes with a registered connection
    rows,      \* rows[n]: the session rows stored for n
    waiting,   \* nodes whose blocker has a row in mission_waiting_seen
    entry,     \* entry[n]: blockedWatcher.seen
    sending,   \* nodes whose notification is on its way to the notifier
    stream,    \* stream[b]: where the events handler of b is
    unaged,    \* unaged[b]: blockers that the view it reads, or has last shown,
               \* lists without the time they have stood
    signal,    \* browsers whose channel holds its one signal
    behind,    \* browsers that have not been read the rows as they are
    changes, faults,
    \* history, read by no action:
    raised,    \* nodes raised within blockedRepeat, a prompt being reported since
    told,      \* nodes whose present prompt a person was told of
    missed,    \* browsers whose last read failed, or a part of it
    since,     \* reports on their way that list a blocker resolved since they began
    stood      \* nodes whose blocker has not been resolved on the host since the
               \* report that last listed it was begun

hostVars == <<host, changes, told>>
reportVars == <<report, since>>
storeVars == <<rows, waiting, stood>>
watchVars == <<entry, sending, raised>>
streamVars == <<stream, unaged, signal, behind, missed>>
vars == <<hostVars, reportVars, online, storeVars, watchVars, streamVars, faults>>

\* Whether a dialog owns the pane, and whether the project lists its blocker.
\* With no window there is neither.
NoWindow == [prompt |-> FALSE, blocker |-> "none"]
Quiet == [prompt |-> FALSE, blocker |-> "done"]
Views == Shown \cup {NoWindow, Quiet}

\* A report that was begun, one whose second was taken (with what that second is
\* later than), and one whose transaction has committed.
NoReport == [stage |-> "free", node |-> Late, view |-> NoWindow, after |-> {}]

Report == [stage : {"free", "posted", "taken", "stored", "observed"},
           node : Node \cup {Late}, view : Views, after : SUBSET {"row", "other"}]

Handler == Node \cup {Late}

TypeOK ==
    /\ host \in [Node -> Views]
    /\ report \in [Handler -> Report]
    /\ \A h \in Handler : report[h].stage = "free" <=> report[h].node = Late
    /\ \A n \in Node : report[n].node \in {n, Late}
    /\ online \subseteq Node
    /\ rows \in [Node -> Views]
    /\ waiting \subseteq Node
    /\ entry \in [Node -> {"none", "fresh", "stuck", "told", "old"}]
    /\ sending \subseteq Node
    /\ stream \in [Browser -> {"off", "idle", "coalescing", "reading", "aging"}]
    /\ unaged \in [Browser -> SUBSET Node]
    /\ signal \subseteq {b \in Browser : stream[b] # "off"}
    /\ behind \subseteq {b \in Browser : stream[b] # "off"}
    /\ changes \in 0..MaxChanges /\ faults \in 0..MaxFaults
    /\ raised \subseteq Node /\ told \subseteq Node /\ missed \subseteq Browser
    /\ since \subseteq Handler /\ stood \subseteq Node

Init ==
    /\ host \in [Node -> Views] /\ \A n \in Node \ Changing : host[n] = Quiet
    /\ report = [h \in Handler |-> NoReport]
    /\ online = {}
    /\ rows = [n \in Node |-> NoWindow]
    /\ waiting = {}
    /\ entry = [n \in Node |-> "none"] /\ sending = {}
    /\ stream = [b \in Browser |-> "off"] /\ unaged = [b \in Browser |-> {}]
    /\ signal = {}
    /\ behind = {}
    /\ changes = 0 /\ faults = 0
    /\ raised = {} /\ told = {} /\ missed = {} /\ since = {} /\ stood = {}

Fault == faults < MaxFaults /\ faults' = faults + 1

-----------------------------------------------------------------------------
(* The node.                                                               *)

\* The reports of n on their way that list its blocker.
Reporting(n) == {h \in Handler : /\ report[h].stage \in {"posted", "taken"}
                               /\ report[h].node = n /\ report[h].view.blocker = "listed"}

\* A prompt comes or goes, a blocker is listed or resolved, a window closes or
\* opens; whoever was told of a prompt was told of the one before.
Change(n, v) ==
    /\ changes < MaxChanges /\ changes' = changes + 1
    /\ v # host[n]
    /\ host' = [host EXCEPT ![n] = v]
    /\ told' = told \ {n}
    /\ IF v.blocker = "done" THEN since' = since \cup Reporting(n) /\ stood' = stood \ {n}
                             ELSE UNCHANGED <<since, stood>>
    /\ UNCHANGED <<report, online, rows, waiting, watchVars, streamVars, faults>>

\* (The fault: a channel without a buffer, which only a waiting stream hears.)
NotifyWaiting == {b \in Browser : stream[b] = "idle"}

Subscribed == {b \in Browser : stream[b] # "off"}

\* notify: everybody who subscribed has a signal.
NotifyAll == Subscribed

\* handleLogin registers the connection, and the browsers are told.
Connect(n) ==
    /\ n \notin online
    /\ online' = online \cup {n}
    /\ signal' = NotifyAll
    /\ UNCHANGED <<hostVars, reportVars, storeVars, watchVars, stream, unaged, behind, missed,
                   faults>>

\* Its stream ends, or half a minute passes without a word: nobody is told.
Drop(n) ==
    /\ n \in online
    /\ Fault
    /\ online' = online \ {n}
    /\ UNCHANGED <<hostVars, reportVars, storeVars, watchVars, streamVars>>

\* reportLoop posts one report after another.
Post(n) ==
    /\ n \in online
    /\ report[n].stage = "free"
    /\ report' = [report EXCEPT ![n] = [NoReport EXCEPT !.stage = "posted", !.node = n,
                                                        !.view = host[n]]]
    /\ UNCHANGED <<hostVars, since, online, storeVars, watchVars, streamVars, faults>>

\* The node gives a report up after ten seconds; its handler may go on.
GiveUp(n) ==
    /\ report[n].stage # "free" /\ report[Late].stage = "free"
    /\ Fault
    /\ report' = [report EXCEPT ![n] = NoReport, ![Late] = report[n]]
    /\ since' = IF n \in since THEN (since \ {n}) \cup {Late} ELSE since
    /\ UNCHANGED <<hostVars, online, storeVars, watchVars, streamVars>>

-----------------------------------------------------------------------------
(* handleReport.                                                           *)

\* What a report that calls a blocker done is compared with, by the second.
Others(h) == {x \in Reporting(report[h].node) \ {h} : report[x].stage = "taken"}

\* Its body has been read: now := h.now().
Take(h) ==
    LET n == report[h].node IN
    /\ report[h].stage = "posted"
    /\ \E after \in SUBSET {"row", "other"} :
          /\ after # {} => report[h].view.blocker = "done"
          /\ "row" \in after => n \in waiting
          /\ "other" \in after => Others(h) # {}
          /\ report' = [report EXCEPT ![h].stage = "taken", ![h].after = after]
    /\ UNCHANGED <<hostVars, since, online, storeVars, watchVars, streamVars, faults>>

\* (The fault: whatever has a row is resolved, also a row that was seen later.)
OutstandingAnyway(h) ==
    IF report[h].view.blocker = "listed" THEN waiting \cup {report[h].node}
    ELSE IF report[h].view.blocker = "done" THEN waiting \ {report[h].node} ELSE waiting

\* reconcileWaiting: only a project that reports a mission opens and closes rows,
\* and it closes those last seen before the second of its report.
Outstanding(h) ==
    CASE report[h].view.blocker = "listed" -> waiting \cup {report[h].node}
      [] report[h].view.blocker = "done" ->
            {x \in waiting : x = report[h].node => "row" \notin report[h].after}
      [] report[h].view.blocker = "none" -> waiting

\* What report x of the same node is later than, once h is stored: the row has
\* the second of the report that has listed it last, whichever came first.
AfterStore(x, h) ==
    IF report[x].node # report[h].node THEN report[x].after
    ELSE IF report[h].view.blocker = "listed"
         THEN {s \in {"row"} : "other" \in report[x].after}
         ELSE {s \in report[x].after : s = "row" => report[h].node \in Outstanding(h)}

Stood(h) ==
    IF report[h].view.blocker # "listed" THEN stood \cap Outstanding(h)
    ELSE IF h \in since THEN stood \ {report[h].node} ELSE stood \cup {report[h].node}

\* The transaction; or it fails, and the report with it.
Store(h) ==
    LET n == report[h].node
        v == report[h].view
    IN
    /\ report[h].stage = "taken"
    /\ since' = since \ {h}
    /\ \/ /\ rows' = [rows EXCEPT ![n] = v]
          /\ waiting' = Outstanding(h)
          /\ stood' = Stood(h)
          /\ behind' = IF v = rows[n] THEN behind ELSE Subscribed
          /\ report' = [x \in Handler |->
                IF x = h THEN [report[h] EXCEPT !.stage = "stored", !.after = {}]
                ELSE [report[x] EXCEPT !.after = AfterStore(x, h)]]
          /\ UNCHANGED faults
       \/ /\ Fault
          /\ report' = [x \in Handler |->
                IF x = h THEN NoReport
                ELSE IF h \in Others(x) THEN [report[x] EXCEPT !.after = @ \ {"other"}]
                ELSE report[x]]
          /\ UNCHANGED <<storeVars, behind>>
    /\ UNCHANGED <<hostVars, online, watchVars, stream, unaged, signal, missed>>

\* (The fault: a prompt is raised once and never again.)
DueOnce(e) == e = "stuck"

\* A prompt is raised past its grace, and again past blockedRepeat.
Due(e) == e \in {"stuck", "old"}

\* (The fault: the report of one node forgets every other node's prompts.)
KeptNone(n, x) == "none"

\* What the watcher keeps of the other nodes' entries.
Kept(n, x) == entry[x]

\* blockedWatcher.observe: n's entries are rebuilt from this report, and an
\* entry counts as notified before the notification is sent.
ObserveBlocked(h) ==
    LET n == report[h].node
        prompt == report[h].view.prompt
        due == prompt /\ Due(entry[n])
    IN
    /\ report[h].stage = "stored"
    /\ entry' = [x \in Node |->
          IF x # n THEN Kept(n, x)
          ELSE IF ~prompt THEN "none"
          ELSE IF due THEN "told"
          ELSE IF entry[n] = "none" THEN "fresh" ELSE entry[n]]
    /\ sending' = IF due THEN sending \cup {n} ELSE sending
    /\ raised' = IF due THEN raised \cup {n}
                 ELSE IF prompt THEN raised ELSE raised \ {n}
    /\ report' = [report EXCEPT ![h].stage = "observed"]
    /\ UNCHANGED <<hostVars, since, online, storeVars, streamVars, faults>>

\* SessionsChanged, and the answer.
Notify(h) ==
    /\ report[h].stage = "observed"
    /\ signal' = NotifyAll
    /\ report' = [report EXCEPT ![h] = NoReport]
    /\ UNCHANGED <<hostVars, since, online, storeVars, watchVars, stream, unaged, behind, missed,
                   faults>>

-----------------------------------------------------------------------------
(* The blocked watcher's notifications, and its clock.                     *)

\* The notifier takes it, or the failure is dropped.
Send(n) ==
    /\ n \in sending
    /\ sending' = sending \ {n}
    /\ \/ told' = told \cup {n} /\ UNCHANGED faults
       \/ Fault /\ UNCHANGED told
    /\ UNCHANGED <<host, changes, reportVars, online, storeVars, entry, raised, streamVars>>

GracePasses(n) ==
    /\ entry[n] = "fresh"
    /\ entry' = [entry EXCEPT ![n] = "stuck"]
    /\ UNCHANGED <<hostVars, reportVars, online, storeVars, sending, raised, streamVars, faults>>

RepeatPasses(n) ==
    /\ entry[n] = "told"
    /\ entry' = [entry EXCEPT ![n] = "old"]
    /\ raised' = raised \ {n}
    /\ UNCHANGED <<hostVars, reportVars, online, storeVars, sending, streamVars, faults>>

-----------------------------------------------------------------------------
(* GET /api/events.                                                        *)

At(b, s) == stream' = [stream EXCEPT ![b] = s]

\* The channel is in the set before the first frame is read.
Subscribe(b) ==
    /\ stream[b] = "off"
    /\ At(b, "reading")
    /\ behind' = behind \cup {b}
    /\ unaged' = [unaged EXCEPT ![b] = {}]
    /\ UNCHANGED <<hostVars, reportVars, online, storeVars, watchVars, signal, missed,
                   faults>>

\* A signal is taken, and a burst waited out.
Wake(b) ==
    /\ stream[b] = "idle" /\ b \in signal
    /\ At(b, "coalescing")
    /\ signal' = signal \ {b}
    /\ UNCHANGED <<hostVars, reportVars, online, storeVars, watchVars, unaged, behind, missed,
                   faults>>

\* What arrived meanwhile is drained before the view is read.
Drain(b) ==
    /\ stream[b] = "coalescing"
    /\ At(b, "reading")
    /\ signal' = signal \ {b}
    /\ UNCHANGED <<hostVars, reportVars, online, storeVars, watchVars, unaged, behind, missed,
                   faults>>

\* send: sessionsPayload reads the session rows; a failure leaves the stream open
\* and sends nothing.
ReadView(b) ==
    /\ stream[b] = "reading"
    /\ \/ /\ At(b, "aging")
          /\ behind' = behind \ {b}
          /\ unaged' = [unaged EXCEPT ![b] = {n \in Node : rows[n].blocker = "listed"}]
          /\ UNCHANGED <<missed, faults>>
       \/ /\ Fault
          /\ At(b, "idle")
          /\ missed' = missed \cup {b}
          /\ UNCHANGED <<unaged, behind>>
    /\ UNCHANGED <<hostVars, reportVars, online, storeVars, watchVars, signal>>

\* ListSessions reads how long each blocker has stood in a query of its own, and
\* does without when that fails; then the pending mail, and who is online.  The
\* frame is written; one that renders as the last did is not, and leaves the
\* screen as it would have.
ReadAges(b) ==
    /\ stream[b] = "aging"
    /\ At(b, "idle")
    /\ \/ /\ unaged' = [unaged EXCEPT ![b] = @ \ waiting]
          /\ missed' = missed \ {b}
          /\ UNCHANGED faults
       \/ /\ Fault
          /\ missed' = missed \cup {b}
          /\ unaged' \in {unaged, [unaged EXCEPT ![b] = {}]}
    /\ UNCHANGED <<hostVars, reportVars, online, storeVars, watchVars, signal, behind>>

\* The browser goes away.
Leave(b) ==
    /\ stream[b] # "off"
    /\ Fault
    /\ At(b, "off")
    /\ signal' = signal \ {b}
    /\ behind' = behind \ {b}
    /\ missed' = missed \ {b}
    /\ unaged' = [unaged EXCEPT ![b] = {}]
    /\ UNCHANGED <<hostVars, reportVars, online, storeVars, watchVars>>

-----------------------------------------------------------------------------

Handle(h) == Take(h) \/ Store(h) \/ ObserveBlocked(h) \/ Notify(h)

Stream(b) == Wake(b) \/ Drain(b) \/ ReadView(b) \/ ReadAges(b)

Next ==
    \/ \E n \in Changing : \/ \E v \in Views : Change(n, v)
                           \/ Drop(n) \/ GiveUp(n)
    \/ \E n \in Node : \/ Connect(n) \/ Post(n)
                       \/ Send(n) \/ GracePasses(n) \/ RepeatPasses(n)
    \/ \E h \in Handler : Handle(h)
    \/ \E b \in Browser : Subscribe(b) \/ Stream(b) \/ Leave(b)

\* A node reconnects and reports on a timer, its handler goes on, time passes;
\* windows need not change, browsers need not come nor be read to, and whatever
\* the other nodes and the reports given up do is not needed.
Fairness ==
    \A n \in Changing : /\ WF_vars(Connect(n) \/ Post(n))
                        /\ WF_vars(Handle(n))
                        /\ WF_vars(Send(n))
                        /\ WF_vars(GracePasses(n) \/ RepeatPasses(n))

Spec == Init /\ [][Next]_vars /\ Fairness

-----------------------------------------------------------------------------

\* Between a change and the signal for it.
Unannounced == \E h \in Handler : report[h].stage \in {"stored", "observed"}

\* A stream that is waiting with no signal shows the sessions that are stored,
\* each listed blocker with the time it has stood, whatever reports came in while
\* it coalesced, read one table and then the other, and wrote; a failed read aside
\* (events.go: "the snapshot we are about to send already includes it").
IdleScreenIsCurrent ==
    \A b \in Browser :
        stream[b] = "idle" /\ b \notin signal \cup missed /\ ~Unannounced
            => b \notin behind /\ unaged[b] = {}

\* What the store says of it ("a reader can never see a session list and an age
\* index that disagree"): a reader takes them in two queries, and a report may be
\* stored in between.  The frame after it is right again.
ReadersAgree == \A b \in Browser : stream[b] = "aging" => unaged[b] \subseteq waiting

\* The report being stored is one its node had given up, whose second was taken
\* after that of the report which last listed the blocker.
OvertakenBegin(n) ==
    /\ report[Late].stage = "taken" /\ report'[Late].stage = "stored"
    /\ report[Late].node = n /\ "row" \in report[Late].after

\* A blocker leaves the outstanding ones only when its project has called it
\* done, since it was last reported as standing: not with its window, its
\* connection or its node, and not when a report comes late; but for one that
\* its node had given up and that the coordinator began to handle only after the
\* one which lists it again.
OnlyItsProjectResolves ==
    [][\A n \in waiting \ waiting' :
          rows'[n].blocker = "done" /\ (n \in stood => OvertakenBegin(n))]_vars

\* Without that exception: what stands is never recorded as resolved
\* (waitingage.go: "would fill the trend history with fictional completions").
NeverResolvedStanding == [][\A n \in waiting \ waiting' : n \notin stood]_vars

\* A prompt that every report of its node shows is raised once in a
\* blockedRepeat, whatever other nodes report.
RaisedOncePerRepeat ==
    [][\A n \in Node : n \in sending' \ sending => n \notin raised]_vars

\* A session that stays at a prompt is put to a person, although a notification
\* counts as sent before it is and its failure is dropped.
PromptIsRaised ==
    \A n \in Changing : host[n].prompt ~> (n \in told \/ ~host[n].prompt)
=============================================================================
