-------------------------------- MODULE Wake --------------------------------
(***************************************************************************)
(* How a session comes to notice its mail.  Three mechanisms of the        *)
(* coordinator meet over each session:                                     *)
(*   - Hub.nudge (src/hub/agentapi.go) types `check inbox` into the pane   *)
(*     when mail arrives;                                                  *)
(*   - wakeCap (src/hub/cap.go) holds a nudge while Limit sessions work or *)
(*     have just been woken;                                               *)
(*   - stuckWatcher (src/hub/stuck.go) sweeps every tenant for mail nobody *)
(*     picked up, nudges once more, and at last tells a person.            *)
(*                                                                         *)
(* Each nudge is a goroutine; a step is what it does between two releases  *)
(* of wakeCap.mu.  Clocks are abstracted to the thresholds they are        *)
(* compared with: `working` and `nudged` hold the sessions whose last      *)
(* burn, or wake, is inside its window, and age[s] counts the thresholds   *)
(* the watcher's entry of s has passed.                                    *)
(***************************************************************************)
EXTENDS Naturals, FiniteSets

CONSTANTS
    Session,
    Tenant,
    TenantOf,   \* TenantOf[s]: the tenant of s
    Exempt,     \* core sessions and those of the project that owns the cap
    Limit,      \* wakeCap.limit; 0 is no cap
    MaxCalls,   \* bound on nudges under way when another is started
    MaxFaults,  \* bound on outages, dialogs, failures and uses of cap.off
    Recipient,  \* bound: who gets mail; the others only take room at the cap
    Watching,   \* Hub.stuck is there (EnableBlockedNotifications was called)
    NoTenant

ASSUME WakeAssumption ==
    /\ TenantOf \in [Session -> Tenant]
    /\ Exempt \subseteq Session
    /\ Recipient \subseteq Session
    /\ Watching \in BOOLEAN
    /\ IsFiniteSet(Session)
    /\ Limit \in Nat
    /\ MaxCalls \in Nat
    /\ MaxFaults \in Nat
    /\ NoTenant \notin Tenant

VARIABLES
    \* --- the sessions
    mail,       \* sessions with undrained mail (Session.Pending)
    online,     \* sessions whose agent is connected (Hub.IsOnline)
    dialog,     \* sessions whose pane was last reported at a dialog
    told,       \* sessions a person was told about since they last drained
    \* --- nudges
    waking,     \* <<s, why>>: nudges on their way to the cap
    passed,     \* <<s, why>>: nudges between allow and clearQueued
    delivering, \* sessions whose nudge has been sent to the agent
    \* --- wakeCap
    working,    \* sessions whose counters grew within capWorkWindow
    nudged,     \* sessions woken within capNudgeGrace
    queued,     \* wakeCap.queued
    off,        \* the file cap.off is there
    \* --- stuckWatcher
    todo,       \* tenants SweepStuck has yet to look at
    at,         \* the tenant observe is looking at
    left,       \* the sessions of its list with mail and no dialog, still to do
    live,       \* observe's map: entries to keep
    seen,       \* the domain of stuckWatcher.seen
    age,        \* age[s]: thresholds passed: stuckRetry, stuckGrace, stuckRepeat
    retried,    \* entries with .retried
    notified,   \* entries with .notified
    due,        \* alarms observe has yet to send
    faults

sessionVars == <<mail, online, dialog, told>>
nudgeVars == <<waking, passed, delivering>>
capVars == <<working, nudged, queued, off>>
sweepVars == <<todo, at, left, live>>
entryVars == <<seen, age, retried, notified, due>>
vars == <<sessionVars, nudgeVars, capVars, sweepVars, entryVars, faults>>

\* The wakeReasons callers give: agentSend's and askCoreToStart's are "gated".
Reason == {"humanSend", "taskEnd", "gated", "stuckRetry"}

TypeOK ==
    /\ mail \subseteq Session
    /\ online \subseteq Session
    /\ dialog \subseteq Session
    /\ told \subseteq Session
    /\ waking \subseteq Session \X Reason
    /\ passed \subseteq Session \X Reason
    /\ delivering \subseteq Session
    /\ working \subseteq Session
    /\ nudged \subseteq Session
    /\ queued \subseteq Session \ Exempt
    /\ off \in BOOLEAN
    /\ todo \subseteq Tenant
    /\ at \in Tenant \cup {NoTenant}
    /\ left \subseteq Session
    /\ live \subseteq Session
    /\ seen \subseteq Session
    /\ age \in [Session -> 0..3]
    /\ retried \subseteq Session
    /\ notified \subseteq retried
    /\ due \subseteq notified
    /\ faults \in 0..MaxFaults

Init ==
    /\ mail = {}
    /\ online = Session
    /\ dialog = {}
    /\ told = {}
    /\ waking = {}
    /\ passed = {}
    /\ delivering = {}
    /\ working = {}
    /\ nudged = {}
    /\ queued = {}
    /\ off = FALSE
    /\ todo = {}
    /\ at = NoTenant
    /\ left = {}
    /\ live = {}
    /\ seen = {}
    /\ age = [s \in Session |-> 0]
    /\ retried = {}
    /\ notified = {}
    /\ due = {}
    /\ faults = 0

Fault == faults < MaxFaults /\ faults' = faults + 1

-----------------------------------------------------------------------------
(* Mail arrives.                                                           *)

Store(s) == mail' = mail \cup {s}

\* The message is stored, then h.nudge(..., why) is called.
StoreAndNudge(s, why) ==
    /\ Cardinality(waking \cup passed) < MaxCalls
    /\ Store(s)
    /\ waking' = waking \cup {<<s, why>>}
    /\ UNCHANGED <<online, dialog, told, passed, delivering, capVars, sweepVars,
                   entryVars, faults>>

\* agentSend (wakeAgentSend), and askCoreToStart (wakeStoppedCore).
Send(s) == StoreAndNudge(s, "gated")

\* agentTaskUpdate.
EndTask(s) == StoreAndNudge(s, "taskEnd")

\* agentTaskCreate, the one caller that gives wakeHumanSend.
CreateTask(s) == StoreAndNudge(s, "humanSend")

\* A message from a person and a broadcast are stored and nudge nobody.
StoreOnly(s) ==
    /\ Store(s)
    /\ UNCHANGED <<online, dialog, told, nudgeVars, capVars, sweepVars, entryVars, faults>>

-----------------------------------------------------------------------------
(* Hub.nudge and wakeCap.allow.                                             *)

exempt(why) == why \in {"humanSend", "taskEnd"}

\* concurrentLocked: sessions that work or have just been woken.
concurrent == Cardinality(working \cup nudged)

\* There is no room.  (The fault: one more than the limit gets in.)
FullAtOneMore == concurrent > Limit
Full == concurrent >= Limit

\* allow lets the nudge through; it may count s as woken.
Pass(s, why) == passed' = passed \cup {<<s, why>>}
Woken(s) == nudged' = nudged \cup {s}

\* What of an exempt reason or session.
WavedThrough(s, why) == exempt(why) \/ s \in Exempt

\* nudge up to the cap's decision: the session's agent is off; the cap does not
\* apply; the session works already; or there is room, or there is not.
Gate(s, why) ==
    /\ <<s, why>> \in waking
    /\ waking' = waking \ {<<s, why>>}
    /\ \/ s \notin online /\ UNCHANGED <<nudged, passed, queued>>
       \/ s \in online /\ WavedThrough(s, why) /\ Pass(s, why) /\ Woken(s) /\ UNCHANGED queued
       \/ /\ s \in online /\ ~WavedThrough(s, why)
          /\ Limit = 0 \/ off \/ s \in working
          /\ Pass(s, why)
          /\ UNCHANGED <<nudged, queued>>
       \/ /\ s \in online /\ ~WavedThrough(s, why)
          /\ Limit > 0 /\ ~off /\ s \notin working
          /\ IF Full
             THEN queued' = queued \cup {s} /\ UNCHANGED <<nudged, passed>>
             ELSE queued' = queued \ {s} /\ Pass(s, why) /\ Woken(s)
    /\ UNCHANGED <<sessionVars, delivering, working, off, sweepVars, entryVars, faults>>

ClearQueued(s, why) ==
    /\ <<s, why>> \in passed
    /\ passed' = passed \ {<<s, why>>}
    /\ queued' = queued \ {s}
    /\ delivering' = delivering \cup {s}
    /\ UNCHANGED <<sessionVars, waking, working, nudged, off, sweepVars, entryVars, faults>>

\* The session's next prompt drains its inbox.
Drained(s) == mail' = mail \ {s} /\ told' = told \ {s}

\* `deliver` runs on the node: it types into the pane, and the prompt it starts
\* drains the mail; or it finds the pane in no state to type into, or the call
\* fails, or the drain hook does.
Deliver(s) ==
    /\ s \in delivering
    /\ delivering' = delivering \ {s}
    /\ \/ s \in online /\ Drained(s)
       \/ UNCHANGED <<mail, told>>
    /\ UNCHANGED <<online, dialog, waking, passed, capVars, sweepVars, entryVars, faults>>

-----------------------------------------------------------------------------
(* The sessions, the agents' reports, and time.                             *)

\* A prompt somebody typed.
OwnPrompt(s) ==
    /\ s \in mail
    /\ Drained(s)
    /\ UNCHANGED <<online, dialog, nudgeVars, capVars, sweepVars, entryVars, faults>>

\* wakeCap.observe: a report shows that s burned tokens.
Burn(s) ==
    /\ s \in online
    /\ working' = working \cup {s}
    /\ UNCHANGED <<sessionVars, nudgeVars, nudged, queued, off, sweepVars, entryVars, faults>>

\* capWorkWindow passes since s last burned, or capNudgeGrace since it was woken.
Lapse(s) ==
    /\ \/ s \in working /\ working' = working \ {s} /\ UNCHANGED nudged
       \/ s \in nudged /\ nudged' = nudged \ {s} /\ UNCHANGED working
    /\ UNCHANGED <<sessionVars, nudgeVars, queued, off, sweepVars, entryVars, faults>>

Outage(s) ==
    /\ \/ s \in online /\ online' = online \ {s} /\ Fault
       \/ s \notin online /\ online' = online \cup {s} /\ UNCHANGED faults
    /\ UNCHANGED <<mail, dialog, told, nudgeVars, capVars, sweepVars, entryVars>>

Dialog(s) ==
    /\ \/ s \notin dialog /\ dialog' = dialog \cup {s} /\ Fault
       \/ s \in dialog /\ dialog' = dialog \ {s} /\ UNCHANGED faults
    /\ UNCHANGED <<mail, online, told, nudgeVars, capVars, sweepVars, entryVars>>

\* Somebody touches cap.off, or removes it.
Switch ==
    /\ off' = ~off
    /\ IF off THEN UNCHANGED faults ELSE Fault
    /\ UNCHANGED <<sessionVars, nudgeVars, working, nudged, queued, sweepVars, entryVars>>

\* An entry passes stuckRetry, then stuckGrace; once told, stuckRepeat.
Age(s) ==
    /\ s \in seen
    /\ \/ age[s] < 2
       \/ age[s] = 2 /\ s \in notified
    /\ age' = [age EXCEPT ![s] = @ + 1]
    /\ UNCHANGED <<sessionVars, nudgeVars, capVars, sweepVars, seen, retried, notified, due, faults>>

-----------------------------------------------------------------------------
(* SweepStuck, and stuckWatcher.observe for each tenant in turn.            *)

\* observe is inside s.retry, which returns when nudge does.
Retrying == \E s \in Session : <<s, "stuckRetry">> \in waking \cup passed

StartSweep ==
    /\ Watching
    /\ at = NoTenant /\ todo = {} /\ due = {}
    /\ todo' = Tenant
    /\ UNCHANGED <<sessionVars, nudgeVars, capVars, at, left, live, entryVars, faults>>

\* ListSessions, and the conditions that read only what it returned.
Look(t) ==
    /\ at = NoTenant /\ t \in todo /\ due = {}
    /\ todo' = todo \ {t}
    /\ at' = t
    /\ left' = {s \in Session : TenantOf[s] = t /\ s \in mail \ dialog}
    /\ live' = {}
    /\ UNCHANGED <<sessionVars, nudgeVars, capVars, entryVars, faults>>

\* The read fails: `continue`.
LookFails(t) ==
    /\ at = NoTenant /\ t \in todo /\ due = {}
    /\ todo' = todo \ {t}
    /\ Fault
    /\ UNCHANGED <<sessionVars, nudgeVars, capVars, at, left, live, entryVars>>

RetryDue(s) == s \in seen \ retried /\ age[s] >= 1

\* Whether s has an entry in the new map.  (The fault: the `continue` after a
\* retry comes before the entry is put there.)
KeptUnlessRetried(s) == s \in online /\ ~RetryDue(s)
Kept(s) == s \in online

\* The loop's turn for s begins.
Visit(s) ==
    /\ s \in left
    /\ ~Retrying
    /\ left' = left \ {s}
    /\ live' = IF Kept(s) THEN live \cup {s} ELSE live

\* Nothing is to be said of s: it is not time, or the cap holds its mail.  (The
\* fault: a person is told of held mail too.)
NotDue(s) == age[s] < (IF s \in notified THEN 3 ELSE 2)
QuietUnlessDue(s) == NotDue(s)
Quiet(s) == s \in queued \/ NotDue(s)

PassOver(s) ==
    /\ Visit(s)
    /\ s \in online => ~RetryDue(s) /\ Quiet(s)
    /\ UNCHANGED <<sessionVars, nudgeVars, capVars, todo, at, entryVars, faults>>

Retry(s) ==
    /\ Visit(s)
    /\ s \in online /\ RetryDue(s)
    /\ retried' = retried \cup {s}
    /\ waking' = waking \cup {<<s, "stuckRetry">>}
    /\ UNCHANGED <<sessionVars, passed, delivering, capVars, todo, at, seen, age, notified,
                   due, faults>>

\* e.notified is set before anything is sent, so a failed send waits an hour.
Notify(s) ==
    /\ Visit(s)
    /\ s \in online /\ ~RetryDue(s) /\ ~Quiet(s)
    /\ notified' = notified \cup {s}
    /\ age' = [age EXCEPT ![s] = 2]
    /\ due' = due \cup {s}
    /\ UNCHANGED <<sessionVars, nudgeVars, capVars, todo, at, seen, retried, faults>>

\* s.seen = live: an entry that is not of this list goes, with what it remembers.
EndObserve ==
    /\ at # NoTenant /\ left = {} /\ ~Retrying
    /\ at' = NoTenant
    /\ seen' = live
    /\ retried' = retried \cap live
    /\ notified' = notified \cap live
    /\ age' = [s \in Session |-> IF s \in live THEN age[s] ELSE 0]
    /\ live' = {}
    /\ UNCHANGED <<sessionVars, nudgeVars, capVars, todo, left, due, faults>>

\* After the unlock, s.send posts an alarm, or fails to.
Post(s) ==
    /\ at = NoTenant /\ s \in due
    /\ due' = due \ {s}
    /\ \/ told' = told \cup {s} /\ UNCHANGED faults
       \/ Fault /\ UNCHANGED told
    /\ UNCHANGED <<mail, online, dialog, nudgeVars, capVars, sweepVars, seen, age, retried,
                   notified>>

-----------------------------------------------------------------------------

MailStep(s) == Send(s) \/ EndTask(s) \/ CreateTask(s) \/ StoreOnly(s)
NudgeStep(s) == (\E why \in Reason : Gate(s, why) \/ ClearQueued(s, why)) \/ Deliver(s)
SessionStep(s) == OwnPrompt(s) \/ Outage(s) \/ Dialog(s)
LoadStep(s) == Burn(s) \/ Lapse(s)
WatchStep(s) == PassOver(s) \/ Retry(s) \/ Notify(s) \/ Post(s)

Next ==
    \/ \E s \in Recipient :
          MailStep(s) \/ NudgeStep(s) \/ SessionStep(s) \/ Age(s) \/ WatchStep(s)
    \/ \E s \in Session : LoadStep(s)
    \/ \E t \in Tenant : Look(t) \/ LookFails(t)
    \/ StartSweep \/ EndObserve \/ Switch

\* The ticker ticks, goroutines run, time passes and a call to the notifier ends.
\* Nothing is assumed of sessions, agents, or what becomes of a nudge.
Fairness ==
    /\ WF_vars(StartSweep) /\ WF_vars(EndObserve)
    /\ \A t \in Tenant : WF_vars(Look(t))
    /\ \A s \in Session :
          /\ \A why \in Reason : WF_vars(Gate(s, why)) /\ WF_vars(ClearQueued(s, why))
          /\ WF_vars(Deliver(s))
          /\ WF_vars(Age(s))
          /\ WF_vars(WatchStep(s))

Spec == Init /\ [][Next]_vars /\ Fairness

-----------------------------------------------------------------------------
(* Properties.                                                             *)

\* s is online, at no dialog, and has mail: a wait that only a nudge, a prompt
\* or a person ends.
Waiting(s) == s \in (mail \cap online) \ dialog

\* No mail waits for ever unnoticed: whatever becomes of each nudge and of each
\* alarm, mail at a reachable session is drained, or a person is told of it, or
\* the cap is known to hold it.
StuckMailIsChased ==
    \A s \in Session : Waiting(s) ~> (~Waiting(s) \/ s \in told \/ s \in queued)

\* A wake of s for this reason leaves the sessions at work or just woken within
\* the limit, if there is one.
KeepsLimit(s, why) ==
    Gate(s, why) /\ ~off /\ Limit > 0 /\ nudged' # nudged
        => Cardinality((working \cup nudged)') <= Limit

\* A wake that the cap may hold never takes the sessions at work past the limit,
\* however many of them come before the first report shows any of it.
NoHerd ==
    [][\A s \in Session \ Exempt, why \in Reason : exempt(why) \/ KeepsLimit(s, why)]_vars

\* A person is told only of mail that was nudged once more and stayed, at a
\* session the cap does not hold and that no retry is still on its way to.
AlarmIsLastResort ==
    [][\A s \in due' \ due :
          /\ s \in retried \ queued
          /\ <<s, "stuckRetry">> \notin waking \cup passed]_vars

\* stuck.go: "The RETRY still fires while queued, deliberately: it re-enters the
\* gate, which is what releases the hold when a slot frees."
HoldsAreReleased ==
    \A s \in Session :
        []<>~(s \in queued /\ Waiting(s) /\ Cardinality(working \cup nudged) < Limit)

\* cap.go of wakeTaskCreate: "work handed to a peer. Gated."  The wake is
\* agentTaskCreate's, which the code labels as a person's.
HandedWorkIsGated ==
    [][\A s \in Session \ Exempt : KeepsLimit(s, "humanSend")]_vars

=============================================================================
