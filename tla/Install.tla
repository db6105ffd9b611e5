------------------------------ MODULE Install ------------------------------
(***************************************************************************)
(* What one host has of this program, and what puts it there: `setup`      *)
(* (src/setup.go, src/service.go), the agent's own installation of the     *)
(* payload at its start (src/payload.go) and `uninstall`                   *)
(* (src/uninstall.go).                                                     *)
(*                                                                         *)
(* An operator runs one command at a time; the agent starts and swaps its  *)
(* binary when it likes, and people edit the same files meanwhile.  Files  *)
(* are installed in steps of their own: looked at, backed up, replaced.    *)
(* A build is a number, and so is a text: a build's, or from FirstText on  *)
(* one written by hand.  0 is what is not there.  A dry run changes        *)
(* nothing and is left out.                                                *)
(***************************************************************************)
EXTENDS Naturals

CONSTANTS
    File,           \* the files of ~/.claude that a payload may hold
    Build,
    Made,           \* Made[b]: the second of its commit, 0 when unstamped
    Base, Overlay,  \* Base[b][f], Overlay[b][f]: the texts b embeds
    FirstText,
    Conf,           \* what a unit may say
    Label,          \* names of the host
    Plan,           \* [steps, roles, force, conf]: setups an operator runs
    Removal,        \* subsets of {"all", "purge"}: uninstalls
    MaxRuns, MaxHand, MaxFaults, MaxTime

\* The steps of setup that change something, in their order.
Order == <<"binary", "path", "env", "config", "node", "service", "boot", "caddy">>
Steps == 1..8
SetupStep == {Order[i] : i \in Steps}

ASSUME InstallAssumption ==
    /\ Build \subseteq Nat \ {0} /\ Conf \subseteq Nat \ {0}
    /\ Made \in [Build -> Nat]
    /\ {FirstText, MaxRuns, MaxHand, MaxFaults, MaxTime} \subseteq Nat /\ MaxTime > 0
    /\ Base \in [Build -> [File -> 0..(FirstText - 1)]]
    /\ Overlay \in [Build -> [File -> 0..(FirstText - 1)]]
    /\ Plan \subseteq [steps : SUBSET SetupStep, roles : SUBSET {"hub", "node"},
                       force : BOOLEAN, conf : Conf]
    /\ Removal \subseteq SUBSET {"all", "purge"}

VARIABLES
    os,         \* what the host runs; it stays
    clock,
    bin,        \* the build at <bin-dir>/shabadoo
    shaba,      \* the name beside it: a link to it, or somebody's own file
    staged,     \* a build the agent is about to swap in
    unit,       \* unit[r]: what a service's file says
    running,    \* running[r]: what its process is, as it was started
    exited,     \* exited[r]: what the unit of a process that ended of itself said
    own,        \* what setup has added to the host: "path", "env"; "decided":
                \* what people have put in the env file since
    label,      \* hostLabel: in the environment or the env file
    project,    \* the labels whose project folder there is
    disk, time, \* the text and the modification time of each file
    links,      \* files that are symbolic links
    backup,     \* backup[f][t]: the file f.bak.t
    caddy,      \* the Caddyfile: its text, and the block for this host
    cmd,        \* the operator's command
    inst,       \* inst[p]: how far p has come with installing files
    runs, hand, faults,
    \* history, read by no action:
    disturbed,  \* somebody else has changed something since the command began
    churned,    \* a setup that was repeated has changed something
    replaced,   \* <<f, text>>: what an installer found and replaced
    reused,     \* files whose backup was taken twice in a second
    unheard     \* a service manager has refused to stop a service

hostVars == <<os, clock, label>>
binVars == <<bin, shaba, staged>>
svcVars == <<unit, running, exited>>
ownVars == <<own, project>>
fileVars == <<disk, time, links, backup, replaced, reused>>
boundVars == <<runs, hand, faults>>
vars == <<hostVars, binVars, svcVars, ownVars, fileVars, caddy, cmd, inst, boundVars,
          disturbed, churned, unheard>>

Role == {"hub", "node", "boot"}
Down == [build |-> 0, conf |-> 0]
Texts == 0..(FirstText + MaxHand)
Caddyfile == [text : FirstText..(FirstText + MaxHand), block : {"none", "good", "bad"}]

Item == (1..2) \X File
NoItem == <<0, 0>>
Idle == [build |-> 0, left |-> {}, item |-> NoItem, at |-> "idle", old |-> 0]

NoCmd == [kind |-> "none", plan |-> [steps |-> {}, roles |-> {}, force |-> FALSE, conf |-> 0],
          build |-> 0, step |-> "done", at |-> "start", failed |-> FALSE,
          again |-> FALSE, files |-> {}, procs |-> {},
          read |-> [text |-> FirstText, block |-> "none"]]

Installer == {"setup", "start"}
Installation == [build : Build \cup {0}, left : SUBSET Item, item : Item \cup {NoItem},
                 at : {"idle", "next", "look", "backup", "write"}, old : Texts]

Command ==
    [kind : {"none", "setup", "uninstall"},
     plan : [steps : SUBSET (SetupStep \cup {"all", "purge"}), roles : SUBSET Role,
             force : BOOLEAN, conf : Conf \cup {0}],
     build : Build \cup {0}, step : SetupStep \cup {"units", "state", "done"},
     at : {"start", "copy", "files", "units", "append", "validate", "rollback"},
     failed : BOOLEAN, again : BOOLEAN, files : SUBSET Role, procs : SUBSET Role,
     read : Caddyfile]

TypeOK ==
    /\ os \in {"linux", "darwin"} /\ clock \in 1..MaxTime /\ label \in Label
    /\ {bin, staged} \subseteq Build \cup {0} /\ shaba \in {"none", "link", "theirs"}
    /\ unit \in [Role -> Conf \cup {0}]
    /\ running \in [Role -> [build : Build, conf : Conf] \cup {Down}]
    /\ exited \in [Role -> Conf \cup {0}]
    /\ staged # 0 => running["node"] # Down
    /\ own \subseteq {"path", "env", "decided"} /\ project \subseteq Label
    /\ disk \in [File -> Texts] /\ time \in [File -> 0..MaxTime] /\ links \subseteq File
    /\ backup \in [File -> [1..MaxTime -> Texts]]
    /\ caddy \in Caddyfile
    /\ cmd \in Command /\ inst \in [Installer -> Installation]
    /\ inst["setup"] # Idle => cmd.step = "config"
    /\ runs \in 0..MaxRuns /\ hand \in 0..MaxHand /\ faults \in 0..MaxFaults
    /\ {disturbed, churned, unheard} \subseteq BOOLEAN
    /\ replaced \subseteq File \X Texts /\ reused \subseteq File

Init ==
    /\ os \in {"linux", "darwin"} /\ clock = 1 /\ label \in Label
    /\ bin = 0 /\ shaba \in {"none", "theirs"} /\ staged = 0
    /\ unit = [r \in Role |-> 0] /\ running = [r \in Role |-> Down]
    /\ exited = [r \in Role |-> 0]
    /\ own = {} /\ project = {}
    /\ disk = [f \in File |-> 0] /\ time = [f \in File |-> 0] /\ links = {}
    /\ backup = [f \in File |-> [t \in 1..MaxTime |-> 0]]
    /\ caddy = [text |-> FirstText, block |-> "none"]
    /\ cmd = NoCmd
    /\ inst = [p \in Installer |-> Idle]
    /\ runs = 0 /\ hand = 0 /\ faults = 0
    /\ disturbed = FALSE /\ churned = FALSE
    /\ replaced = {} /\ reused = {} /\ unheard = FALSE

Fault == faults < MaxFaults /\ faults' = faults + 1

\* The operator's command changes something; somebody else does.
Changes == churned' = (churned \/ (cmd.again /\ ~disturbed)) /\ UNCHANGED disturbed
Keeps == UNCHANGED <<churned, disturbed>>
Disturbs == disturbed' = TRUE /\ UNCHANGED churned

-----------------------------------------------------------------------------
(* setup: the steps asked for, one after another, whatever became of the   *)
(* last.                                                                   *)

After(plan, s) ==
    LET later == {i \in Steps : Order[i] \in plan.steps
                                /\ \A k \in Steps : Order[k] = s => k < i}
    IN IF later = {} THEN "done" ELSE Order[CHOOSE i \in later : \A k \in later : i <= k]

StepDone(ok) ==
    cmd' = [cmd EXCEPT !.step = After(cmd.plan, cmd.step), !.at = "start",
                       !.failed = @ \/ ~ok, !.files = {}, !.procs = {}]

AtStep(s, at) == cmd.kind = "setup" /\ cmd.step = s /\ cmd.at = at

GoesTo(at) == cmd' = [cmd EXCEPT !.at = at]

RunSetup(plan, b) ==
    /\ cmd.step = "done"
    /\ runs < MaxRuns /\ runs' = runs + 1
    /\ Made[b] <= clock
    /\ cmd' = [NoCmd EXCEPT !.kind = "setup", !.plan = plan, !.build = b,
                            !.step = After(plan, "begin"),
                            !.again = /\ cmd.kind = "setup" /\ ~cmd.failed /\ ~disturbed
                                      /\ <<cmd.plan, cmd.build>> = <<plan, b>>]
    /\ disturbed' = FALSE
    /\ UNCHANGED <<hostVars, binVars, svcVars, ownVars, fileVars, caddy, inst, hand, faults,
                   churned, unheard>>

\* A step returns an error: the next one is taken all the same.
StepFails ==
    /\ cmd.kind = "setup" /\ cmd.step # "done"
    /\ cmd.at = "validate" => caddy.block = "good"
    /\ Fault
    /\ StepDone(FALSE)
    /\ inst' = [inst EXCEPT !["setup"] = Idle]
    /\ Keeps
    /\ UNCHANGED <<hostVars, binVars, svcVars, ownVars, fileVars, caddy, runs, hand, unheard>>

\* The operator interrupts it.
Interrupt ==
    /\ cmd.step # "done"
    /\ Fault
    /\ cmd' = [cmd EXCEPT !.step = "done", !.failed = TRUE]
    /\ inst' = [inst EXCEPT !["setup"] = Idle]
    /\ Keeps
    /\ UNCHANGED <<hostVars, binVars, svcVars, ownVars, fileVars, caddy, runs, hand, unheard>>

\* A newer binary, or a stamped one when this is not, is not replaced.
GuardDowngrade(b) ==
    /\ bin # 0 /\ Made[bin] # 0 /\ ~cmd.plan.force
    /\ Made[b] = 0 \/ Made[bin] > Made[b]

\* installSelf: the binary step, and again before any unit is written.
CheckBinary ==
    /\ AtStep("binary", "start") \/ AtStep("service", "start")
    /\ IF GuardDowngrade(cmd.build) THEN StepDone(FALSE) ELSE GoesTo("copy")
    /\ Keeps
    /\ UNCHANGED <<hostVars, binVars, svcVars, ownVars, fileVars, caddy, inst, boundVars,
                   unheard>>

\* installShorthand, ensureShorthand: somebody's own file is left alone.
Linked == IF shaba = "theirs" THEN "theirs" ELSE "link"

CopyBinary ==
    /\ AtStep("binary", "copy") \/ AtStep("service", "copy")
    /\ bin' = cmd.build
    /\ shaba' = IF cmd.step = "binary" THEN Linked ELSE shaba
    /\ IF cmd.step = "binary" THEN StepDone(TRUE) ELSE GoesTo("units")
    /\ IF <<bin', shaba'>> = <<bin, shaba>> THEN Keeps ELSE Changes
    /\ UNCHANGED <<hostVars, staged, svcVars, ownVars, fileVars, caddy, inst, boundVars,
                   unheard>>

\* What is there already is left as it is.
Adds(s, there) ==
    /\ AtStep(s, "start")
    /\ StepDone(TRUE)
    /\ IF there THEN Keeps ELSE Changes
    /\ UNCHANGED <<hostVars, binVars, svcVars, fileVars, caddy, inst, boundVars, unheard>>

StepPath == Adds("path", "path" \in own) /\ own' = own \cup {"path"} /\ UNCHANGED project

\* The env file is what people decide; --force puts setup's own in its place.
Scaffolded == "env" \in own /\ (cmd.plan.force => "decided" \notin own)

StepEnv ==
    /\ Adds("env", Scaffolded)
    /\ own' = IF Scaffolded THEN own ELSE (own \cup {"env"}) \ {"decided"}
    /\ UNCHANGED project

StepNodeProject ==
    Adds("node", label \in project) /\ project' = project \cup {label} /\ UNCHANGED own

-----------------------------------------------------------------------------
(* The payload: the config step of setup, and the agent's start.           *)

\* mergePayloads: of a file in both trees the overlay's.
Merged(b) == [f \in File |-> IF Overlay[b][f] # 0 THEN Overlay[b][f] ELSE Base[b][f]]

\* (The fault: one tree is installed over the other.)
TreesApart(b) == <<Base[b], Overlay[b]>>

\* What is installed, one after another.
Trees(b) == <<Merged(b)>>

Items(b) == {x \in Item : x[1] \in DOMAIN Trees(b) /\ Trees(b)[x[1]][x[2]] # 0}

Want(p) == Trees(inst[p].build)[inst[p].item[1]][inst[p].item[2]]

Installs(b) == [Idle EXCEPT !.build = b, !.left = Items(b), !.at = "next"]

StepConfig ==
    /\ AtStep("config", "start")
    /\ GoesTo("files")
    /\ inst' = [inst EXCEPT !["setup"] = Installs(cmd.build)]
    /\ Keeps
    /\ UNCHANGED <<hostVars, binVars, svcVars, ownVars, fileVars, caddy, boundVars, unheard>>

\* newerThanBuild: an unstamped build cannot tell, and keeps the file.
NewerThanBuild(f, b) == Made[b] = 0 \/ time[f] > Made[b]

\* The next file.  A start leaves one that was changed after its build.
NextFile(p) ==
    /\ inst[p].at = "next"
    /\ \E x \in inst[p].left :
          /\ \A y \in inst[p].left : x[1] <= y[1]
          /\ LET text == Trees(inst[p].build)[x[1]][x[2]]
                 kept == p = "start" /\ disk[x[2]] \notin {0, text}
                         /\ NewerThanBuild(x[2], inst[p].build)
             IN inst' = [inst EXCEPT ![p].left = @ \ {x},
                                     ![p].item = IF kept THEN NoItem ELSE x,
                                     ![p].at = IF kept THEN "next" ELSE "look"]
    /\ Keeps
    /\ UNCHANGED <<hostVars, binVars, svcVars, ownVars, fileVars, caddy, cmd, boundVars,
                   unheard>>

\* installFile: a link is refused, an identical file is left alone.
Look(p) ==
    LET f == inst[p].item[2] IN
    /\ inst[p].at = "look"
    /\ inst' = [inst EXCEPT ![p].old = disk[f],
                            ![p].at = IF f \in links \/ disk[f] = Want(p) THEN "next"
                                      ELSE IF disk[f] = 0 THEN "write" ELSE "backup"]
    /\ Keeps
    /\ UNCHANGED <<hostVars, binVars, svcVars, ownVars, fileVars, caddy, cmd, boundVars,
                   unheard>>

\* (The fault: one backup per file, whenever it was taken.)
BackupTimeNone == 1

\* <dst>.bak.<epoch>
BackupTime == clock

Backup(p) ==
    LET f == inst[p].item[2] IN
    /\ inst[p].at = "backup"
    /\ backup' = [backup EXCEPT ![f][BackupTime] = inst[p].old]
    /\ reused' = IF backup[f][clock] \in {0, inst[p].old} THEN reused ELSE reused \cup {f}
    /\ inst' = [inst EXCEPT ![p].at = "write"]
    /\ IF p = "setup" THEN Changes ELSE Disturbs
    /\ UNCHANGED <<hostVars, binVars, svcVars, ownVars, disk, time, links, replaced, caddy,
                   cmd, boundVars, unheard>>

\* writeAtomic: the rename takes the place of whatever is there by now.
Write(p) ==
    LET f == inst[p].item[2] IN
    /\ inst[p].at = "write"
    /\ disk' = [disk EXCEPT ![f] = Want(p)]
    /\ time' = [time EXCEPT ![f] = clock]
    /\ links' = links \ {f}
    /\ replaced' = IF inst[p].old = 0 THEN replaced ELSE replaced \cup {<<f, inst[p].old>>}
    /\ inst' = [inst EXCEPT ![p].at = "next"]
    /\ IF p = "setup" THEN Changes ELSE Disturbs
    /\ UNCHANGED <<hostVars, binVars, svcVars, ownVars, backup, reused, caddy, cmd, boundVars,
                   unheard>>

\* A start goes on with the next file; for setup it is StepFails.
FileFails ==
    /\ inst["start"].at \in {"look", "backup", "write"}
    /\ Fault
    /\ inst' = [inst EXCEPT !["start"].at = "next"]
    /\ Keeps
    /\ UNCHANGED <<hostVars, binVars, svcVars, ownVars, fileVars, caddy, cmd, runs, hand,
                   unheard>>

FilesDone(p) ==
    /\ inst[p].at = "next" /\ inst[p].left = {}
    /\ inst' = [inst EXCEPT ![p] = Idle]
    /\ IF p = "setup" THEN StepDone(TRUE) ELSE UNCHANGED cmd
    /\ Keeps
    /\ UNCHANGED <<hostVars, binVars, svcVars, ownVars, fileVars, caddy, boundVars, unheard>>

-----------------------------------------------------------------------------
(* Services: systemd units, launchd agents.                                *)

\* The node's process ends, and what it was doing; or it starts.
AgentEnds == staged' = 0 /\ inst' = [inst EXCEPT !["start"] = Idle] /\ UNCHANGED shaba

AgentStarts(b) ==
    /\ staged' = 0
    /\ inst' = [inst EXCEPT !["start"] = Installs(b)]
    /\ shaba' = Linked

Asked == IF cmd.step = "service" THEN cmd.plan.roles ELSE {"boot"}

AtUnits ==
    \/ AtStep("service", "units")
    \/ AtStep("boot", "start") /\ bin # 0

\* The hub comes before the node.
Turn(r, dealt) == r \in Asked \ dealt /\ (r = "node" => Asked \cap {"hub"} \subseteq dealt)

\* hubUnitFile, nodeUnitFile, plist: the build is not in it, only its path is.
UnitText == cmd.plan.conf

\* rootInstall, installFile: systemd gets every unit first, launchd one by one.
WriteUnit(r) ==
    /\ AtUnits
    /\ Turn(r, cmd.files)
    /\ os = "darwin" => cmd.procs = cmd.files
    /\ unit' = [unit EXCEPT ![r] = UnitText]
    /\ cmd' = [cmd EXCEPT !.files = @ \cup {r}]
    /\ IF unit[r] = UnitText THEN Keeps ELSE Changes
    /\ UNCHANGED <<hostVars, binVars, running, exited, ownVars, fileVars, caddy, inst,
                   boundVars, unheard>>

\* (The fault: what is up is left up.)
RestartedIfDown(r) == IF running[r] = Down THEN [build |-> bin, conf |-> unit[r]] ELSE running[r]

\* enable --now and restart, or bootout and bootstrap: the process is a new
\* one.  The launcher's unit is only enabled.
Restarted(r) ==
    IF r = "boot" /\ os = "linux" /\ running[r] # Down THEN running[r]
    ELSE [build |-> bin, conf |-> unit[r]]

\* systemctl restart and launchctl bootstrap succeed once the process has been
\* started.  It may exit at once (Exits): the is-active that follows on Linux
\* warns of that and no more, and setup goes on.  daemon-reload runs only when a
\* unit's file has changed, but enable reloads the units of itself
\* (systemctl(1)): what is restarted is what the file says.
LoadUnit(r) ==
    /\ AtUnits
    /\ Turn(r, cmd.procs) /\ r \in cmd.files
    /\ os = "linux" => cmd.files = Asked
    /\ running' = [running EXCEPT ![r] = Restarted(r)]
    /\ exited' = [exited EXCEPT ![r] = 0]
    /\ IF r = "node" THEN AgentStarts(bin) ELSE UNCHANGED <<staged, shaba, inst>>
    /\ IF cmd.procs \cup {r} = Asked THEN StepDone(TRUE)
                                      ELSE cmd' = [cmd EXCEPT !.procs = @ \cup {r}]
    /\ Keeps
    /\ UNCHANGED <<hostVars, bin, unit, ownVars, fileVars, caddy, boundVars, unheard>>

\* It fails: what ran before may run still, or be gone.
LoadFails(r) ==
    /\ AtUnits
    /\ Fault
    /\ Turn(r, cmd.procs) /\ r \in cmd.files
    /\ os = "linux" => cmd.files = Asked
    /\ \/ UNCHANGED <<running, exited, staged, shaba, inst>>
       \/ /\ running' = [running EXCEPT ![r] = Down]
          /\ exited' = [exited EXCEPT ![r] = 0]
          /\ IF r = "node" THEN AgentEnds ELSE UNCHANGED <<staged, shaba, inst>>
    /\ StepDone(FALSE)
    /\ Keeps
    /\ UNCHANGED <<hostVars, bin, unit, ownVars, fileVars, caddy, runs, hand, unheard>>

\* stepBoot without a binary to start.
NothingToBoot ==
    /\ AtStep("boot", "start") /\ bin = 0
    /\ StepDone(FALSE)
    /\ Keeps
    /\ UNCHANGED <<hostVars, binVars, svcVars, ownVars, fileVars, caddy, inst, boundVars,
                   unheard>>

-----------------------------------------------------------------------------
(* The Caddyfile, which fronts more than this.                             *)

CaddyStep(at) ==
    /\ AtStep("caddy", at)
    /\ UNCHANGED <<hostVars, binVars, svcVars, ownVars, fileVars, inst, boundVars, unheard>>

\* A block that is there is left alone; launchd hosts have no Caddy.
CaddyRead ==
    /\ CaddyStep("start")
    /\ IF os = "darwin" \/ caddy.block # "none" THEN StepDone(os # "darwin")
       ELSE cmd' = [cmd EXCEPT !.at = "append", !.read = caddy]
    /\ Keeps
    /\ UNCHANGED caddy

CaddyAppend ==
    /\ CaddyStep("append")
    /\ \E block \in {"good", "bad"} : caddy' = [cmd.read EXCEPT !.block = block]
    /\ GoesTo("validate")
    /\ Changes

Rejected == GoesTo("rollback")

\* caddy validate; what passes is reloaded.
CaddyValidate ==
    /\ CaddyStep("validate")
    /\ IF caddy.block = "bad" THEN Rejected ELSE StepDone(TRUE)
    /\ Keeps
    /\ UNCHANGED caddy

CaddyRollback ==
    /\ CaddyStep("rollback")
    /\ caddy' = cmd.read
    /\ StepDone(FALSE)
    /\ Keeps

-----------------------------------------------------------------------------
(* uninstall: the services, then the binary, then the state.               *)

Present == {r \in Role : unit[r] # 0}

RunUninstall(what) ==
    /\ cmd.step = "done"
    /\ runs < MaxRuns /\ runs' = runs + 1
    /\ cmd' = [NoCmd EXCEPT !.kind = "uninstall", !.plan.steps = what, !.step = "units"]
    /\ disturbed' = FALSE
    /\ UNCHANGED <<hostVars, binVars, svcVars, ownVars, fileVars, caddy, inst, hand, faults,
                   churned, unheard>>

\* disable --now, bootout: a failure is noted, and no more.
StopUnit(r) ==
    /\ cmd.step = "units" /\ r \in Present \ cmd.procs
    /\ \/ /\ running' = [running EXCEPT ![r] = Down]
          /\ exited' = [exited EXCEPT ![r] = 0]
          /\ IF r = "node" THEN AgentEnds ELSE UNCHANGED <<staged, shaba, inst>>
          /\ UNCHANGED <<faults, unheard>>
       \/ /\ Fault
          /\ unheard' = TRUE
          /\ UNCHANGED <<running, exited, staged, shaba, inst>>
    /\ cmd' = [cmd EXCEPT !.procs = @ \cup {r}]
    /\ Keeps
    /\ UNCHANGED <<hostVars, bin, unit, ownVars, fileVars, caddy, runs, hand>>

\* Its file; systemd's system units are both stopped first.
RemoveUnit(r) ==
    /\ cmd.step = "units" /\ r \in (Present \cap cmd.procs) \ cmd.files
    /\ os = "linux" => Present \cap {"hub", "node"} \subseteq cmd.procs
    /\ \/ unit' = [unit EXCEPT ![r] = 0] /\ UNCHANGED <<cmd, faults>>
       \/ /\ Fault
          /\ cmd' = [cmd EXCEPT !.files = @ \cup {r}, !.failed = TRUE]
          /\ UNCHANGED unit
    /\ Keeps
    /\ UNCHANGED <<hostVars, binVars, running, exited, ownVars, fileVars, caddy, inst, runs,
                   hand, unheard>>

\* (The fault: the binary goes whether or not its services have.)
ServicesDoneAnyway == TRUE

ServicesDone == Present \subseteq cmd.files

\* With --all the binary; then what os.Stat finds under the short name: a link
\* to what has just gone is not found, and a file of somebody's own is.
RemoveBinary ==
    /\ cmd.step = "units" /\ ServicesDone
    /\ \/ /\ "all" \in cmd.plan.steps
          /\ bin' = 0
          /\ shaba' = IF shaba = "theirs" THEN "none" ELSE shaba
          /\ cmd' = [cmd EXCEPT !.step = "state"]
          /\ UNCHANGED faults
       \/ /\ "all" \in cmd.plan.steps
          /\ Fault
          /\ shaba' = "none"
          /\ cmd' = [cmd EXCEPT !.step = "state", !.failed = TRUE]
          /\ UNCHANGED bin
       \/ /\ "all" \notin cmd.plan.steps
          /\ cmd' = [cmd EXCEPT !.step = "state"]
          /\ UNCHANGED <<bin, shaba, faults>>
    /\ Keeps
    /\ UNCHANGED <<hostVars, staged, svcVars, ownVars, fileVars, caddy, inst, runs, hand,
                   unheard>>

\* With --purge the state directory, but for the project of the host's name.
RemoveState ==
    /\ cmd.step = "state"
    /\ project' = IF "purge" \in cmd.plan.steps THEN project \cap {label} ELSE project
    /\ cmd' = [cmd EXCEPT !.step = "done"]
    /\ Keeps
    /\ UNCHANGED <<hostVars, binVars, svcVars, own, fileVars, caddy, inst, boundVars, unheard>>

-----------------------------------------------------------------------------
(* The people of the host, and the agent.                                  *)

ByHand == hand < MaxHand /\ hand' = hand + 1 /\ Disturbs

\* A file is edited, or made a link to one that is kept elsewhere.
Edit(f) ==
    /\ ByHand
    /\ disk' = [disk EXCEPT ![f] = FirstText + hand']
    /\ time' = [time EXCEPT ![f] = clock]
    /\ links' \in {links, links \cup {f}}
    /\ UNCHANGED <<hostVars, binVars, svcVars, ownVars, backup, replaced, reused, caddy, cmd,
                   inst, runs, faults, unheard>>

EditCaddyfile ==
    /\ ByHand
    /\ caddy' = [caddy EXCEPT !.text = FirstText + hand']
    /\ UNCHANGED <<hostVars, binVars, svcVars, ownVars, fileVars, cmd, inst, runs, faults,
                   unheard>>

\* The host gets another name, or the env file another setting.
Rename(l) ==
    /\ ByHand
    /\ label' = l /\ (l # label \/ "env" \in own \ {"decided"})
    /\ own' = IF "env" \in own THEN own \cup {"decided"} ELSE own
    /\ UNCHANGED <<os, clock, binVars, svcVars, project, fileVars, caddy, cmd, inst, runs,
                   faults, unheard>>

\* Client.upgrade has verified a build, swaps and exits; the service manager
\* starts the new one as it had started the old.
AgentStages(b) ==
    /\ running["node"] # Down /\ bin # 0 /\ staged = 0
    /\ ByHand
    /\ Made[b] <= clock
    /\ staged' = b
    /\ UNCHANGED <<hostVars, bin, shaba, svcVars, ownVars, fileVars, caddy, cmd, inst, runs,
                   faults, unheard>>

AgentSwaps ==
    /\ staged # 0
    /\ bin' = staged
    /\ running' = [running EXCEPT !["node"].build = staged]
    /\ AgentStarts(staged)
    /\ Disturbs
    /\ UNCHANGED <<hostVars, unit, exited, ownVars, fileVars, caddy, cmd, boundVars, unheard>>

\* A process ends of itself, as it may as soon as it is up: no key, no table,
\* a port that is taken.
Exits(r) ==
    /\ running[r] # Down
    /\ hand < MaxHand /\ hand' = hand + 1
    /\ running' = [running EXCEPT ![r] = Down]
    /\ exited' = [exited EXCEPT ![r] = running[r].conf]
    /\ IF r = "node" THEN AgentEnds ELSE UNCHANGED <<staged, shaba, inst>>
    /\ Keeps
    /\ UNCHANGED <<hostVars, bin, unit, ownVars, fileVars, caddy, cmd, runs, faults, unheard>>

\* The service manager starts it again, the launcher excepted, while there is a
\* binary: at once, later, or, after a clean end or too many others, never.
Returns(r) ==
    /\ r # "boot" /\ running[r] = Down /\ exited[r] # 0 /\ bin # 0
    /\ running' = [running EXCEPT ![r] = [build |-> bin, conf |-> exited[r]]]
    /\ exited' = [exited EXCEPT ![r] = 0]
    /\ IF r = "node" THEN AgentStarts(bin) ELSE UNCHANGED <<staged, shaba, inst>>
    /\ Keeps
    /\ UNCHANGED <<hostVars, bin, unit, ownVars, fileVars, caddy, cmd, boundVars, unheard>>

Tick ==
    /\ clock < MaxTime /\ clock' = clock + 1
    /\ Keeps
    /\ UNCHANGED <<os, label, binVars, svcVars, ownVars, fileVars, caddy, cmd, inst, boundVars,
                   unheard>>

-----------------------------------------------------------------------------
Setup ==
    \/ \E plan \in Plan, b \in Build : RunSetup(plan, b)
    \/ StepFails \/ Interrupt
    \/ CheckBinary \/ CopyBinary \/ StepPath \/ StepEnv \/ StepNodeProject \/ StepConfig
    \/ \E r \in Role : WriteUnit(r) \/ LoadUnit(r) \/ LoadFails(r)
    \/ NothingToBoot
    \/ CaddyRead \/ CaddyAppend \/ CaddyValidate \/ CaddyRollback

Files == \/ \E p \in Installer : NextFile(p) \/ Look(p) \/ Backup(p) \/ Write(p)
                                          \/ FilesDone(p)
         \/ FileFails

Uninstall ==
    \/ \E what \in Removal : RunUninstall(what)
    \/ \E r \in Role : StopUnit(r) \/ RemoveUnit(r)
    \/ RemoveBinary \/ RemoveState

Others ==
    \/ \E f \in File : Edit(f)
    \/ EditCaddyfile \/ \E l \in Label : Rename(l)
    \/ \E b \in Build : AgentStages(b)
    \/ AgentSwaps
    \/ \E r \in Role : Exits(r) \/ Returns(r)
    \/ Tick

Next == Setup \/ Files \/ Uninstall \/ Others

Spec == Init /\ [][Next]_vars

-----------------------------------------------------------------------------
\* A setup that ended well and that nobody has disturbed since.
Settled == cmd.kind = "setup" /\ cmd.step = "done" /\ ~cmd.failed /\ ~disturbed

\* A setup that reports success leaves nothing old running, also when an earlier
\* one had failed half way and left its files behind (launchctlLoad: "a re-run
\* reports "unchanged" and does nothing, while the *old* process keeps running"):
\* each service it installed runs this build with the unit it wrote, or ran so
\* and has ended of itself since.
ServiceIsCurrent ==
    Settled /\ "service" \in cmd.plan.steps =>
        /\ bin = cmd.build
        /\ \A r \in cmd.plan.roles :
              /\ unit[r] = cmd.plan.conf
              /\ \/ running[r] = [build |-> bin, conf |-> unit[r]]
                 \/ running[r] = Down /\ exited[r] = unit[r]

\* What "setup complete" and the line before it ("active") say: it is running.
\* One that exits at its start is warned of on Linux, and on a Mac not at all.
ServiceRuns ==
    Settled /\ "service" \in cmd.plan.steps => \A r \in cmd.plan.roles : running[r] # Down

\* Setup is idempotent: run again as it was, with nothing changed meanwhile,
\* it changes nothing (stepConfig: "Idempotence is the property that makes
\* `doctor` trustworthy").
RerunChangesNothing == ~churned

\* What an installer found in a file and replaced is in a backup, whoever else
\* was installing and wherever it broke off; but for two backups of one file
\* taken in the same second, of which the later has the name.
ReplacedIsBackedUp ==
    \A x \in replaced : x[1] \in reused \/ x[2] = disk[x[1]]
                        \/ \E t \in 1..MaxTime : backup[x[1]][t] = x[2]

\* An uninstall that reports no failure leaves no unit, no process and, with
\* --all, no binary, even where the agent was about to swap in a new one; as
\* long as no service manager ever refused to stop a service (runCmd).
UninstallIsComplete ==
    cmd.kind = "uninstall" /\ cmd.step = "done" /\ ~cmd.failed /\ ~unheard =>
        /\ \A r \in Role : unit[r] = 0 /\ running[r] = Down
        /\ "all" \in cmd.plan.steps => bin = 0

\* A block that Caddy rejects does not stay, unless its removal failed.
CaddyfileIsValid == caddy.block = "bad" => cmd.step = "caddy" \/ faults > 0

\* What uninstall.go says of its short name ("leaving it behind would be a
\* dangling link named after a program that is gone").
ShorthandGoes == shaba = "link" => bin # 0

\* "UNINSTALL REMOVES WHAT SETUP GENERATED AND NOTHING ELSE".
TheirsStays == [][shaba = "theirs" => shaba' = "theirs"]_vars

\* "this installs a starting point and then never touches it again".
ProjectsStay == [][project \subseteq project']_vars
=============================================================================
