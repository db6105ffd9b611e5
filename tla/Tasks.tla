------------------------------- MODULE Tasks -------------------------------
(***************************************************************************)
(* Work one session hands to another (src/hub/task.go) and what chases it  *)
(* (src/hub/taskwatch.go).  A task is a row; creating it also sends the    *)
(* brief, ending it tells whoever asked (src/hub/agentapi.go), and a sweep *)
(* of the coordinator's maintenance loop raises the tasks that have gone   *)
(* quiet.                                                                  *)
(*                                                                         *)
(* Handlers run concurrently, and each statement on the database is a step *)
(* of its own: agentTaskUpdate reads the row, writes it, reads it back and *)
(* then sends.  A state is open (open, active, blocked) or ended (done,    *)
(* dropped), which is all the code tells apart.  Times are reduced to the  *)
(* thresholds they have passed: taskStale since a task was touched, and    *)
(* taskRepeat since it was last raised.                                    *)
(***************************************************************************)
EXTENDS Naturals, FiniteSets

CONSTANTS
    Task,
    Update,         \* requests to /api/agents/tasks/update under way at once
    Tenant,
    TenantOf,       \* TenantOf[t]: whose task t is
    Asker,          \* Asker[t]: the session that handed t over
    Session,
    Silent,         \* tasks whose assignee never reports
    Precise,        \* sessions whose id starts with "claude-": mail waits for them
    ListLimit,      \* the most tasks Tenant.Tasks returns
    MaxFaults,      \* bound on failed sends, failed reads and stopped sessions
    NoTask

ASSUME TasksAssumption ==
    /\ IsFiniteSet(Task) /\ NoTask \notin Task
    /\ TenantOf \in [Task -> Tenant]
    /\ Asker \in [Task -> Session]
    /\ Silent \subseteq Task
    /\ Precise \subseteq Session
    /\ ListLimit \in Nat \ {0}
    /\ MaxFaults \in Nat

VARIABLES
    state,      \* state[t]: the row's state, "none" before it is created
    quiet,      \* tasks untouched for taskStale
    newer,      \* newer[t]: the tasks touched since t was (updated_at)
    req,        \* req[u]: how far update request u has come
    running,    \* sessions in the session index
    warned,     \* tasks whose end was put to the requester's core session
    sweep,      \* what is left of the sweep under way
    seen,       \* taskWatcher.seen: when each task was last raised
    sending,    \* tasks whose mention is on its way to the notifier
    faults,
    \* history, read by no action:
    told,       \* told[t]: notices stored since t last became ended
    raced,      \* tasks with an update that another one cut into
    misread,    \* tasks whose end the first read of an update failed to see
    reopened,   \* tasks reopened under an update that had read their end
    untold,     \* tasks with a notice or an answer that failed since reopened
    raised,     \* tasks raised in this quiet spell, within taskRepeat
    forgotten   \* those of raised the coordinator restarted after

rowVars == <<state, quiet, newer>>
updateVars == <<req, warned, told, untold>>
crossVars == <<raced, misread, reopened>>
watchVars == <<sweep, seen, sending, raised, forgotten>>
vars == <<rowVars, updateVars, crossVars, watchVars, running, faults>>

Ended(s) == s = "done"

NoRequest == [stage |-> "idle", task |-> NoTask, to |-> "none", before |-> "none"]

Request ==
    [stage : {"idle", "read", "written", "telling"}, task : Task \cup {NoTask},
     to : {"none", "open", "done"}, before : {"none", "open", "done"}]

NoSweep == [left |-> {}, list |-> {}, stale |-> {}]

\* The tenants yet to look at, one tenant's list, and which of it is quiet.
Sweep == [left : SUBSET Tenant, list : SUBSET Task, stale : SUBSET Task]

\* The update requests under way on t.
On(t) == {u \in Update : req[u].task = t}

\* How seen is kept: no entry or one with the zero time, which come to the same,
\* a mention within taskRepeat, a mention older than that.
Mention == {"unknown", "recent", "old"}

TypeOK ==
    /\ state \in [Task -> {"none", "open", "done"}]
    /\ newer \in [Task -> SUBSET Task]
    /\ \A t \in Task : t \notin newer[t]
    /\ quiet \subseteq Task
    /\ \A t \in quiet : state[t] # "none"
    /\ req \in [Update -> Request]
    /\ \A u \in Update : req[u].stage = "idle" <=> req[u].task = NoTask
    /\ running \subseteq Session
    /\ warned \subseteq Task
    /\ sweep \in Sweep
    /\ seen \in [Task -> Mention]
    /\ sending \subseteq Task
    /\ faults \in 0..MaxFaults
    /\ told \in [Task -> Nat]
    /\ raced \subseteq Task /\ misread \subseteq Task
    /\ reopened \subseteq Task /\ untold \subseteq Task
    /\ raised \subseteq Task /\ forgotten \subseteq raised

Init ==
    /\ state = [t \in Task |-> "none"]
    /\ quiet = {} /\ newer = [t \in Task |-> {}]
    /\ req = [u \in Update |-> NoRequest]
    /\ running = Session
    /\ warned = {}
    /\ sweep = NoSweep
    /\ seen = [t \in Task |-> "unknown"]
    /\ sending = {}
    /\ faults = 0
    /\ told = [t \in Task |-> 0]
    /\ raced = {} /\ misread = {} /\ reopened = {} /\ untold = {}
    /\ raised = {} /\ forgotten = {}

Fault == faults < MaxFaults /\ faults' = faults + 1

-----------------------------------------------------------------------------
(* agentTaskCreate: the row first, then the brief.  A refused sender, an   *)
(* unresolved assignee and an empty brief leave nothing behind.            *)

\* updated_at moves past every other row's.
NowNewest(t) == [x \in Task |-> IF x = t THEN {} ELSE newer[x] \cup {t}]

\* Tenant.CreateTask, then Tenant.Send of the brief.  The send may fail, or the
\* coordinator die before it: the row then stands without one.
CreateTask(t) ==
    /\ state[t] = "none"
    /\ state' = [state EXCEPT ![t] = "open"]
    /\ newer' = NowNewest(t)
    /\ Fault \/ UNCHANGED faults
    /\ UNCHANGED <<quiet, updateVars, crossVars, watchVars, running>>

-----------------------------------------------------------------------------
(* agentTaskUpdate.                                                        *)

\* What the handler takes the row's state to be.
Reads(u, t, s, before) ==
    /\ req[u].stage = "idle"
    /\ t \notin Silent
    /\ state[t] # "none"
    /\ req' = [req EXCEPT ![u] =
                  [stage |-> "read", task |-> t, to |-> s, before |-> before]]
    /\ UNCHANGED <<rowVars, warned, told, untold, raced, reopened, watchVars, running>>

\* The row is read, so that a change of state can be told from a repeat.
ReadBefore(u, t, s) == Reads(u, t, s, state[t]) /\ UNCHANGED <<misread, faults>>

\* That read fails.  Its error is dropped, and the update goes on with a zero
\* Task, which has not ended.
ReadBeforeFails(u, t, s) ==
    /\ Fault
    /\ Reads(u, t, s, "open")
    /\ misread' = IF Ended(state[t]) THEN misread \cup {t} ELSE misread

\* What an UPDATE of a row does to its age.
Touch(t) ==
    /\ quiet' = quiet \ {t}
    /\ newer' = NowNewest(t)

\* The updates other than u that have read t's end and are yet to write.
HoldsEnd(u, t) ==
    {v \in On(t) \ {u} : req[v].stage = "read" /\ Ended(req[v].before)}

\* Tenant.UpdateTask's UPDATE.  Reopening t starts a new end to be told of.
WriteRow(u) ==
    LET t == req[u].task
        s == req[u].to
        alone == On(t) = {u} IN
    /\ req[u].stage = "read"
    /\ state' = [state EXCEPT ![t] = s]
    /\ Touch(t)
    /\ req' = [req EXCEPT ![u] = [@ EXCEPT !.stage = "written", !.to = "none"]]
    /\ told' = [told EXCEPT ![t] = IF Ended(s) THEN @ ELSE 0]
    /\ raced' = IF ~alone THEN raced \cup {t} ELSE IF Ended(s) THEN raced ELSE raced \ {t}
    /\ misread' = IF alone /\ ~Ended(s) THEN misread \ {t} ELSE misread
    /\ reopened' = IF Ended(s) THEN reopened
                   ELSE IF HoldsEnd(u, t) # {} THEN reopened \cup {t} ELSE reopened \ {t}
    /\ untold' = IF Ended(s) THEN untold ELSE untold \ {t}
    /\ UNCHANGED <<warned, watchVars, running, faults>>

\* (The fault: every update that leaves a task ended tells of it.)
NewlyEndedEver(u) == Ended(state[req[u].task])

NewlyEnded(u) == Ended(state[req[u].task]) /\ ~Ended(req[u].before)

\* UpdateTask reads the row back; the caller compares it with what it read.
ReadBack(u) ==
    /\ req[u].stage = "written"
    /\ req' = [req EXCEPT ![u] = IF NewlyEnded(u) THEN [req[u] EXCEPT !.stage = "telling"]
                                 ELSE NoRequest]
    /\ UNCHANGED <<rowVars, warned, told, untold, crossVars, watchVars, running, faults>>

\* The UPDATE or one of the reads fails: the caller is told so, nobody else.
UpdateFails(u) ==
    /\ Fault
    /\ req[u].stage \in {"read", "written"}
    /\ req' = [req EXCEPT ![u] = NoRequest]
    /\ untold' = IF req[u].stage = "written" THEN untold \cup {req[u].task} ELSE untold
    /\ UNCHANGED <<rowVars, warned, told, crossVars, watchVars, running>>

\* ResolveSession of a session id: it is listed, or it is passed through.
Resolves(s) == s \in running \cup Precise

\* The notice is stored; for a requester that does not resolve,
\* findStoppedProject finds its project and askCoreToStart puts it to the core.
\* A notice that comes when the task is open again tells of no end there is.
TellAsker(u) ==
    LET t == req[u].task IN
    /\ req[u].stage = "telling"
    /\ told' = [told EXCEPT ![t] = IF Ended(state[t]) THEN @ + 1 ELSE @]
    /\ warned' = IF Resolves(Asker[t]) THEN warned ELSE warned \cup {t}
    /\ req' = [req EXCEPT ![u] = NoRequest]
    /\ UNCHANGED <<rowVars, untold, crossVars, watchVars, running, faults>>

\* The send fails: its error is dropped.
TellFails(u) ==
    /\ Fault
    /\ req[u].stage = "telling"
    /\ untold' = untold \cup {req[u].task}
    /\ req' = [req EXCEPT ![u] = NoRequest]
    /\ UNCHANGED <<rowVars, warned, told, crossVars, watchVars, running>>

\* A session's window is closed on purpose: its node's next report drops it.
Stops(s) ==
    /\ Fault
    /\ s \in running
    /\ running' = running \ {s}
    /\ UNCHANGED <<rowVars, updateVars, crossVars, watchVars>>

-----------------------------------------------------------------------------
(* SweepTasks and taskWatcher.observe.                                     *)

\* Time passes: t has been untouched for taskStale.  A sweep, a mention and
\* what an update does after its write take less.
GoesQuiet(t) ==
    /\ state[t] # "none"
    /\ t \notin quiet \cup sweep.list \cup sending
    /\ \A u \in On(t) : req[u].stage = "read"
    /\ quiet' = quiet \cup {t}
    /\ raised' = raised \ {t} /\ forgotten' = forgotten \ {t}
    /\ UNCHANGED <<state, newer, updateVars, crossVars, sweep, seen, sending,
                   running, faults>>

\* Time passes: taskRepeat since t was raised.
RepeatPasses(t) ==
    /\ t \notin sending
    /\ t \in raised \/ seen[t] = "recent"
    /\ raised' = raised \ {t} /\ forgotten' = forgotten \ {t}
    /\ seen' = [seen EXCEPT ![t] = IF @ = "recent" THEN "old" ELSE @]
    /\ UNCHANGED <<rowVars, updateVars, crossVars, sweep, sending, running, faults>>

\* The maintenance loop's ticker; Store.Tenants lists whom to look at.
StartSweep ==
    /\ sweep = NoSweep
    /\ sweep' = [NoSweep EXCEPT !.left = Tenant]
    /\ UNCHANGED <<rowVars, updateVars, crossVars, seen, sending, raised, forgotten,
                   running, faults>>

Outstanding(tn) ==
    {t \in Task : state[t] # "none" /\ ~Ended(state[t]) /\ TenantOf[t] = tn}

\* Tenant.Tasks(ctx, "", "", false, 0): the newest, as many as the limit.
Listed(tn) ==
    {t \in Outstanding(tn) : Cardinality(newer[t] \cap Outstanding(tn)) < ListLimit}

\* A tenant's tasks are listed.  One with none, or whose read fails, is
\* passed over, and observe does not run for it.
ListTenant(tn) ==
    /\ sweep.list = {}
    /\ tn \in sweep.left
    /\ \/ /\ Listed(tn) # {}
          /\ sweep' = [left |-> sweep.left \ {tn}, list |-> Listed(tn),
                       stale |-> Listed(tn) \cap quiet]
          /\ UNCHANGED faults
       \/ /\ Listed(tn) = {} \/ faults < MaxFaults
          /\ sweep' = [sweep EXCEPT !.left = @ \ {tn}]
          /\ faults' = IF Listed(tn) = {} THEN faults ELSE faults + 1
    /\ UNCHANGED <<rowVars, updateVars, crossVars, seen, sending, raised, forgotten, running>>

\* (The fault: `last` is not carried over from the previous pass.)
CarriedNot(t) == "unknown"

\* What the entry of a listed, quiet task starts from.
Carried(t) == seen[t]

\* (The fault: an entry that lapsed is not due again.)
DueOnce == {t \in sweep.stale : Carried(t) = "unknown"}

Due == {t \in sweep.stale : Carried(t) # "recent"}

\* taskWatcher.observe: `live` replaces the whole of `seen`, marked before
\* anything is sent.
Observe ==
    /\ sweep.list # {}
    /\ seen' = [t \in Task |->
                   IF t \notin sweep.stale THEN "unknown"
                   ELSE IF t \in Due THEN "recent"
                   ELSE Carried(t)]
    /\ sending' = sending \cup Due
    /\ raised' = raised \cup Due /\ forgotten' = forgotten \ Due
    /\ sweep' = [NoSweep EXCEPT !.left = sweep.left]
    /\ UNCHANGED <<rowVars, updateVars, crossVars, running, faults>>

\* The notifier is called, off the lock; it may fail, and the error is dropped.
SendMention(t) ==
    /\ t \in sending
    /\ sending' = sending \ {t}
    /\ UNCHANGED <<rowVars, updateVars, crossVars, sweep, seen, raised, forgotten,
                   running, faults>>

\* The coordinator restarts: the watcher's entries, the sweep and the
\* requests under way are gone, the rows stay.
Restart ==
    /\ Fault
    /\ sweep' = NoSweep
    /\ seen' = [t \in Task |-> "unknown"]
    /\ sending' = {}
    /\ forgotten' = raised
    /\ req' = [u \in Update |-> NoRequest]
    /\ untold' = untold \cup {req[u].task : u \in {v \in Update : req[v].stage \in {"written", "telling"}}}
    /\ UNCHANGED <<rowVars, warned, told, crossVars, raised, running>>

-----------------------------------------------------------------------------
Handlers ==
    \/ \E t \in Task : CreateTask(t)
    \/ \E u \in Update, t \in Task, s \in {"open", "done"} :
          ReadBefore(u, t, s) \/ ReadBeforeFails(u, t, s)
    \/ \E u \in Update : WriteRow(u) \/ ReadBack(u) \/ UpdateFails(u)
                         \/ TellAsker(u) \/ TellFails(u)
    \/ \E s \in Session : Stops(s)
    \/ Restart

Sweeps == StartSweep \/ Observe \/ \E tn \in Tenant : ListTenant(tn)

Watcher ==
    \/ \E t \in Task : GoesQuiet(t) \/ RepeatPasses(t) \/ SendMention(t)
    \/ Sweeps

Next == Handlers \/ Watcher

\* The maintenance loop goes on, time passes and a call to the notifier ends.
Fairness ==
    /\ WF_vars(Sweeps)
    /\ \A t \in Task : WF_vars(RepeatPasses(t) \/ SendMention(t))

Spec == Init /\ [][Next]_vars /\ Fairness

-----------------------------------------------------------------------------
\* Whoever asked is told of an end once.  With no update of it under way, an
\* ended task was reported since it was last reopened, however updates crossed
\* on it -- unless the notice or the answer failed, or it was reopened under an
\* update that had read its end and then ended it again -- and no more than
\* once, unless two updates crossed or the first read of one missed its end
\* (agentTaskUpdate's before-and-after comparison).
EndToldOnce ==
    \A t \in Task :
        Ended(state[t]) /\ On(t) = {} =>
            /\ t \notin untold \cup reopened => told[t] >= 1
            /\ t \notin raced \cup misread => told[t] <= 1

\* Not so: the same without the last two exceptions.  Two ends that cross are
\* both told, and so is a repeated one whose first read failed.
NeverToldTwice ==
    \A t \in Task : Ended(state[t]) /\ On(t) = {} => told[t] <= 1

\* Not so: nor does an end that follows a crossing reopening reach the asker.
NeverUntold ==
    \A t \in Task : Ended(state[t]) /\ On(t) = {} /\ t \notin untold => told[t] >= 1

\* Edge detection does not nag: a task is raised only if it was not raised
\* within taskRepeat in the same quiet spell, however sweeps, updates and
\* ends and reopenings fall -- unless the coordinator restarted since, whose
\* watcher starts with nothing seen (taskWatcher.observe).
OneMentionPerSpell ==
    [][\A t \in Task : t \in sending' \ sending => t \notin raised \ forgotten]_vars

\* Not so: "one reminder per interval" across a restart.
NeverNags == [][\A t \in Task : t \in sending' \ sending => t \notin raised]_vars

\* Work that stays open and untouched is raised again and again, whatever
\* sends and sweeps failed before: "work stalled over a weekend is not
\* represented by a single alert from Friday" (taskRepeat).
Stuck(t) == state[t] = "open" /\ t \in quiet

QuietWorkIsRaised == \A t \in Task : <>[]Stuck(t) => []<>(t \in sending)

\* "A finished task landed in a stopped project's inbox correctly and its core
\* session was never given the chance to decide anything" (agentapi.go): the
\* end of work handed over by a session that is not running is put to a core.
StoppedAskerIsWarned ==
    [][\A t \in Task :
           told'[t] = told[t] + 1 /\ Asker[t] \notin running => t \in warned']_vars
=============================================================================
