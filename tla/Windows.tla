------------------------------ MODULE Windows ------------------------------
(***************************************************************************)
(* The sessions of one host: a tmux window per folder, what opens them     *)
(* (src/launch.go, src/win.go, src/ops.go), the agent that notices one has *)
(* gone (src/watch.go) and takes it for a decision (src/deactivate.go),    *)
(* and the keeper that brings the node's core session back (src/core.go).  *)
(*                                                                         *)
(* Openers are processes of their own: the boot watchdog, operators and    *)
(* commands, and the keeper, which runs inside the agent's report.  Each   *)
(* call of tmux is a step.  A window is addressed by its name, which       *)
(* stands for its folder; a name two windows carry addresses neither.      *)
(* The list of folders closed on purpose is one file, rewritten by rename: *)
(* reading and replacing it is one step here.                              *)
(***************************************************************************)
EXTENDS Naturals

CONSTANTS
    Dir,
    Core,           \* the node's own project
    Listed,         \* the boot list
    Operator,       \* commands that open, reopen and restart, under way at once
    MaxEnds,        \* bound on windows that close or whose claude exits
    MaxAsks,        \* bound on commands given and boots run
    MaxLosses,      \* bound on tmux servers lost
    MaxCuts,        \* bound on restarts of the agent and launches out of time
    NoDir

ASSUME WindowsAssumption ==
    /\ NoDir \notin Dir
    /\ Core \in Dir /\ Listed \subseteq Dir
    /\ {"boot", "keeper"} \cap Operator = {}
    /\ {MaxEnds, MaxAsks, MaxLosses, MaxCuts} \subseteq Nat

VARIABLES
    window,      \* window[d][k]: the tmux windows of folder d, by kind
    deactivated, \* the folders listed as closed on purpose
    step,        \* step[p]: where opener p is
    todo,        \* folders the boot under way has yet to come to
    look,        \* the agent's look at tmux now under way
    prev,        \* windowWatcher.prev: the look before
    seen,        \* windowWatcher.seen: consecutive looks, told apart up to 2
    waiting,     \* coreKeeper.next has not come
    ends, asks, losses, cuts,
    \* history, read by no action:
    launched,    \* launched[d]: whether the agent knew d when it was launched,
                 \* and whether that launch failed
    looked,      \* looked[d]: looks that found d running since its launch was
                 \* not known, told apart up to 2
    lost         \* lost[d]: d went with tmux before the agent missed it; and
                 \* then another window opened

watchVars == <<look, prev, seen, waiting>>
countVars == <<ends, asks, losses, cuts>>
historyVars == <<launched, looked, lost>>
windowsVars == <<window, deactivated, step, todo, watchVars, countVars, historyVars>>

Opener == Operator \cup {"boot", "keeper"}

\* A window stays when its claude exits only while remain-on-exit is on: "new"
\* windows become "dead", "up" ones go.
Kind == {"new", "up", "dead"}
NoWindow == [k \in Kind |-> 0]
One(kind) == [k \in Kind |-> IF k = kind THEN 1 ELSE 0]

Alive(d) == window[d]["new"] + window[d]["up"] > 0
Open(d) == Alive(d) \/ window[d]["dead"] > 0

\* tmux resolves a name only when one window carries it.
Resolves(d) == \E k \in Kind : window[d] = One(k)

\* A look names every window, and finds the folder of those with a live pane.
Looks == [names : SUBSET Dir, found : SUBSET Dir]
NoLook == [names |-> {NoDir}, found |-> {}]

NotOpening == [at |-> "idle", dir |-> NoDir]

Settling(d) == \E p \in Opener : step[p].at = "settle" /\ step[p].dir = d

\* Left with remain-on-exit and nobody watching it start.
Stranded(d) == window[d]["new"] + window[d]["dead"] > 0 /\ ~Settling(d)

WindowsTypeOK ==
    /\ window \in [Dir -> [Kind -> Nat]]
    /\ deactivated \subseteq Dir
    /\ step \in [Opener -> [at : {"idle", "check", "kill", "new", "settle"},
                            dir : Dir \cup {NoDir}]]
    /\ \A p \in Opener : step[p].at = "idle" <=> step[p].dir = NoDir
    /\ step["keeper"].dir \in {Core, NoDir}
    /\ todo \subseteq Listed
    /\ look \in Looks \cup {NoLook} /\ look.found \subseteq look.names
    /\ prev \in Looks \cup {NoLook} /\ prev.found \subseteq prev.names
    /\ seen \in [Dir -> 0..2]
    /\ \A d \in Dir : seen[d] > 0 <=> d \in prev.names
    /\ waiting \in BOOLEAN
    /\ ends \in 0..MaxEnds /\ asks \in 0..MaxAsks
    /\ losses \in 0..MaxLosses /\ cuts \in 0..MaxCuts
    /\ launched \in [Dir -> {"known", "fresh", "failed"}]
    /\ looked \in [Dir -> 0..2]
    /\ lost \in [Dir -> {"no", "lost", "passed"}]

WindowsInit ==
    /\ window = [d \in Dir |-> NoWindow]
    /\ deactivated = {}
    /\ step = [p \in Opener |-> NotOpening]
    /\ todo = {}
    /\ look = NoLook /\ prev = NoLook /\ seen = [d \in Dir |-> 0]
    /\ waiting = FALSE
    /\ ends = 0 /\ asks = 0 /\ losses = 0 /\ cuts = 0
    /\ launched = [d \in Dir |-> "known"] /\ looked = [d \in Dir |-> 0]
    /\ lost = [d \in Dir |-> "no"]

Goes(p, at) == step' = [step EXCEPT ![p].at = at]

Ends(p) == step' = [step EXCEPT ![p] = NotOpening]

Begins(p, at, d) == step' = [step EXCEPT ![p] = [NotOpening EXCEPT !.at = at, !.dir = d]]

Commanded == asks < MaxAsks /\ asks' = asks + 1

-----------------------------------------------------------------------------
(* What operators and commands ask for.                                    *)

\* op open, win open and attach: an explicit request forgets an earlier close.
AskOpen(o, d) ==
    /\ step[o].at = "idle"
    /\ Commanded
    /\ deactivated' = deactivated \ {d}
    /\ Begins(o, "check", d)
    /\ UNCHANGED <<window, todo, watchVars, ends, losses, cuts, historyVars>>

\* opReopen, opRestart and winReopen resolve the window and ask for its folder,
\* which a dead pane does not have; a restart that finds a pane busy stops here.
AskReopen(o, d) ==
    /\ step[o].at = "idle"
    /\ Resolves(d) /\ Alive(d)
    /\ Commanded
    /\ Begins(o, "kill", d)
    /\ UNCHANGED <<window, deactivated, todo, watchVars, ends, losses, cuts,
                   historyVars>>

\* Nothing runs there already, or the request is answered.
CheckOpen(p) ==
    /\ step[p].at = "check"
    /\ IF Open(step[p].dir) THEN Ends(p) ELSE Goes(p, "new")
    /\ UNCHANGED <<window, deactivated, todo, watchVars, countVars, historyVars>>

\* The old window goes; only `win reopen` clears the folder's deactivation.
KillOld(o) ==
    LET d == step[o].dir IN
    /\ step[o].at = "kill"
    /\ IF Resolves(d)
       THEN /\ window' = [window EXCEPT ![d] = NoWindow]
            /\ Goes(o, "new")
            /\ deactivated' \in {deactivated, deactivated \ {d}}
       ELSE Ends(o) /\ UNCHANGED <<window, deactivated>>
    /\ UNCHANGED <<todo, watchVars, countVars, historyVars>>

-----------------------------------------------------------------------------
(* launch: new-window and remain-on-exit in one call, then awaitStarted.   *)

\* With a second window of that name, set-option does not resolve and the
\* launch reports a failure: the window stays, as an ordinary one.
NewWindow(p) ==
    LET d == step[p].dir IN
    /\ step[p].at = "new"
    /\ IF Open(d)
       THEN window' = [window EXCEPT ![d]["up"] = @ + 1] /\ Ends(p)
       ELSE window' = [window EXCEPT ![d] = One("new")] /\ Goes(p, "settle")
    /\ launched' = [launched EXCEPT ![d] =
          IF d \in prev.names \cup look.names THEN "known" ELSE "fresh"]
    /\ looked' = [looked EXCEPT ![d] = 0]
    /\ lost' = [x \in Dir |->
          IF x = d THEN "no" ELSE IF lost[x] = "lost" THEN "passed" ELSE lost[x]]
    /\ UNCHANGED <<deactivated, todo, watchVars, countVars>>

\* awaitStarted ends: a dead pane is read and killed, a live one is let go of,
\* and a name that does not resolve is either gone or nobody's to judge.
Settle(p) ==
    LET d == step[p].dir IN
    /\ step[p].at = "settle"
    /\ window' = [window EXCEPT ![d] =
          IF @ = One("dead") THEN NoWindow ELSE IF @ = One("new") THEN One("up") ELSE @]
    /\ Ends(p)
    /\ UNCHANGED <<deactivated, todo, watchVars, countVars, historyVars>>

-----------------------------------------------------------------------------
(* runBoot, from cron and at login: one folder after another.              *)

BootStarts ==
    /\ step["boot"].at = "idle" /\ todo = {}
    /\ Commanded
    /\ todo' = Listed
    /\ UNCHANGED <<window, deactivated, step, watchVars, ends, losses, cuts,
                   historyVars>>

\* A folder closed on purpose stays closed, and one with a window is left alone.
BootComesTo(d) ==
    /\ step["boot"].at = "idle" /\ d \in todo
    /\ todo' = todo \ {d}
    /\ IF d \in deactivated \/ Open(d) THEN UNCHANGED step ELSE Begins("boot", "new", d)
    /\ UNCHANGED <<window, deactivated, watchVars, countVars, historyVars>>

-----------------------------------------------------------------------------
(* The agent's report: a look at tmux, the diff, and the keeper.           *)

\* One report at a time: at once on each new session, on a timer, and again at
\* once after one that took longer than the timer, so any number of them may
\* fall into one launchSettle.
TakeLook ==
    /\ look = NoLook
    /\ step["keeper"].at = "idle"
    /\ look' = [names |-> {d \in Dir : Open(d)}, found |-> {d \in Dir : Alive(d)}]
    /\ looked' = [d \in Dir |->
          IF Alive(d) /\ launched[d] # "known" /\ looked[d] < 2 THEN looked[d] + 1
          ELSE looked[d]]
    /\ UNCHANGED <<window, deactivated, step, todo, prev, seen, waiting, countVars,
                   launched, lost>>

\* (The fault: one look is enough.)
GoneOnce(now) ==
    IF prev = NoLook \/ now.names = {} THEN {} ELSE prev.names \ now.names

\* (The fault: no windows at all are taken for windows closed.)
GoneToNothing(now) ==
    IF prev = NoLook THEN {} ELSE {d \in prev.names \ now.names : seen[d] >= 2}

\* windowWatcher.observe: neither the first look nor a look at nothing is a
\* diff, and a window seen only once was a launch that died.
Gone(now) ==
    IF prev = NoLook \/ now.names = {} THEN {}
    ELSE {d \in prev.names \ now.names : seen[d] >= 2}

\* (The fault: the keeper answers the end of the core session.)
MissingNow(now) == Core \in Gone(now)

\* coreKeeper.observe asks whether it runs, never whether it has just ended.
Missing(now) == Core \notin now.found

\* What went is marked, the core session excepted, and a core session that is
\* not there is opened unless the backoff has yet to pass.  A window that had
\* no folder when it was last seen marks nothing.
Observe ==
    /\ look # NoLook
    /\ deactivated' = deactivated \cup ((Gone(look) \cap prev.found) \ {Core})
    /\ prev' = look
    /\ seen' = [d \in Dir |->
          IF d \notin look.names THEN 0 ELSE IF seen[d] = 2 THEN 2 ELSE seen[d] + 1]
    /\ look' = NoLook
    /\ IF Missing(look) /\ ~waiting
       THEN waiting' = TRUE /\ Begins("keeper", "check", Core)
       ELSE UNCHANGED <<waiting, step>>
    /\ UNCHANGED <<window, todo, countVars, historyVars>>

BackoffPasses ==
    /\ waiting
    /\ waiting' = FALSE
    /\ UNCHANGED <<window, deactivated, step, todo, look, prev, seen, countVars,
                   historyVars>>

-----------------------------------------------------------------------------
(* What happens to windows, and to the agent.                              *)

CountEnd == ends < MaxEnds /\ ends' = ends + 1

\* A claude that exits while its launch is settling has failed to start.
ClaudeExits(d, k) ==
    /\ k \in {"new", "up"} /\ window[d][k] > 0
    /\ CountEnd
    /\ window' = [window EXCEPT ![d][k] = @ - 1,
                                ![d]["dead"] = IF k = "new" THEN @ + 1 ELSE @]
    /\ launched' = [launched EXCEPT ![d] =
          IF k = "new" /\ Settling(d) /\ @ = "fresh" THEN "failed" ELSE "known"]
    /\ looked' = [looked EXCEPT ![d] = IF launched'[d] = "known" THEN 0 ELSE @]
    /\ UNCHANGED <<deactivated, step, todo, watchVars, asks, losses, cuts, lost>>

\* Somebody closes a window: win close, the dashboard's kill, tmux itself.
Close(d, k) ==
    /\ window[d][k] > 0
    /\ CountEnd
    /\ window' = [window EXCEPT ![d][k] = @ - 1]
    /\ launched' = [launched EXCEPT ![d] = "known"]
    /\ looked' = [looked EXCEPT ![d] = IF launched'[d] = "known" THEN 0 ELSE @]
    /\ UNCHANGED <<deactivated, step, todo, watchVars, asks, losses, cuts, lost>>

\* The tmux server dies, and every window with it.
TmuxDies ==
    /\ losses < MaxLosses /\ losses' = losses + 1
    /\ window' = [d \in Dir |-> NoWindow]
    /\ launched' = [d \in Dir |-> "known"] /\ looked' = [d \in Dir |-> 0]
    /\ lost' = [d \in Dir |->
          IF Open(d) /\ (look = NoLook \/ d \in look.names) THEN "lost" ELSE lost[d]]
    /\ UNCHANGED <<deactivated, step, todo, watchVars, ends, asks, cuts>>

Cut == cuts < MaxCuts /\ cuts' = cuts + 1

\* The agent starts anew, and the commands it was running are gone.
WatcherRestarts ==
    /\ Cut
    /\ \E stopped \in SUBSET Operator :
          step' = [p \in Opener |-> IF p \in stopped \cup {"keeper"} THEN NotOpening ELSE step[p]]
    /\ look' = NoLook /\ prev' = NoLook /\ seen' = [d \in Dir |-> 0]
    /\ waiting' = FALSE
    /\ looked' = [d \in Dir |-> 0]
    /\ UNCHANGED <<window, deactivated, todo, ends, asks, losses, launched, lost>>

\* The report's deadline comes while the keeper's launch is settling:
\* awaitStarted answers that it started and leaves remain-on-exit on.
OutOfTime ==
    /\ step["keeper"].at = "settle"
    /\ Cut
    /\ Ends("keeper")
    /\ UNCHANGED <<window, deactivated, todo, watchVars, ends, asks, losses, historyVars>>

Launch(p) == CheckOpen(p) \/ KillOld(p) \/ NewWindow(p) \/ Settle(p)

WindowsNext ==
    \/ \E o \in Operator, d \in Dir : AskOpen(o, d) \/ AskReopen(o, d)
    \/ \E p \in Opener : Launch(p)
    \/ BootStarts \/ \E d \in Listed : BootComesTo(d)
    \/ TakeLook \/ Observe \/ BackoffPasses
    \/ \E d \in Dir, k \in Kind : ClaudeExits(d, k) \/ Close(d, k)
    \/ TmuxDies \/ WatcherRestarts \/ OutOfTime

\* Openers go on, boot comes to each folder, the agent reports every few
\* seconds and time passes; nobody has to open or close anything.
Fairness ==
    /\ \A p \in Opener : WF_windowsVars(Launch(p))
    /\ WF_windowsVars(\E d \in Listed : BootComesTo(d))
    /\ WF_windowsVars(TakeLook) /\ WF_windowsVars(Observe) /\ WF_windowsVars(BackoffPasses)

WindowsSpec == WindowsInit /\ [][WindowsNext]_windowsVars /\ Fairness

-----------------------------------------------------------------------------

\* A claude that refuses to start in a folder the agent did not know to be
\* running is taken for a session closed on purpose, which boot would then never
\* retry, only if two looks found it running first -- however its dead pane,
\* other openers and windows of that name fall between the looks (watch.go: "A
\* window seen in only ONE report is not recorded").
LaunchFailureIsNotClose ==
    [][\A d \in deactivated' \ deactivated : launched[d] = "failed" => looked[d] = 2]_windowsVars

\* Not so: that it never is.  "One report can land inside" the settling of a
\* launch (watch.go), but so can two.
FailureIsNeverClose ==
    [][\A d \in deactivated' \ deactivated : launched[d] # "failed"]_windowsVars

\* Losing tmux closes nothing on purpose: a folder whose window went with the
\* server is not marked by the agent before another window is opened.
LostTmuxClosesNothing ==
    [][\A d \in deactivated' \ deactivated : lost[d] # "lost"]_windowsVars

\* Nor after it: what watch.go promises of "losing tmux, not losing sessions".
LostTmuxIsNotIntent ==
    [][\A d \in deactivated' \ deactivated : lost[d] = "no"]_windowsVars

\* A core session that is down runs again, unless a launch that was cut short
\* or met another left a window of its name with remain-on-exit.
CoreComesBack == ~Alive(Core) ~> (Alive(Core) \/ Stranded(Core))

\* The core session is always brought back (core.go: "Always running").
AlwaysRunning == ~Alive(Core) ~> Alive(Core)
=============================================================================
