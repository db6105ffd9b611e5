------------------------------ MODULE Upgrade ------------------------------
(***************************************************************************)
(* New builds on the hosts (src/node/upgrade.go, src/update.go and the     *)
(* rollout of src/cli.go).  An operator's `upgrade` asks the coordinator,  *)
(* which names a release and its sum; the node fetches, sums and RUNS the  *)
(* new binary, keeps the old one as .prev, swaps and exits, and its        *)
(* service manager starts it again.  `update` does the same from GitHub    *)
(* without the restart, and another tool's set is installed file by file.  *)
(* Every command runs in a goroutine of its own, so two may cut into one   *)
(* another on one host.                                                    *)
(***************************************************************************)
EXTENDS Releases

CONSTANTS
    Node,
    Platform,       \* Platform[n]: what the node reports at login
    First,          \* the build every node has at the start
    Tool,           \* the other tool whose sets are installed
    GitHub,         \* the build of GitHub's newest release
    Job,            \* commands under way at once
    NoNode, NoJobId, NoVersion

ASSUME UpgradeAssumption ==
    /\ Platform \in [Node -> STRING]
    /\ First \in Build /\ First.runs
    /\ GitHub \in Build

VARIABLES
    bin,        \* bin[n]: the executable at its place
    prev,       \* prev[n]: the executable's .prev
    running,    \* running[n]: what the agent process is; NoBuild: it is down
    toolFile,   \* toolFile[n][r.part]: the tool's files in the bin directory
    toolPrev,   \* their .prev
    incoming,   \* their .incoming, one name per file whoever stages it
    job,
    rollout     \* the command line's loop over the nodes

hostVars == <<bin, prev, running>>
toolVars == <<toolFile, toolPrev, incoming>>
vars == <<storeVars, asks, faults, hostVars, toolVars, job, rollout>>

Part == {r.part : r \in {x \in Release : x.tool = Tool}}

NoJob == [kind |-> "none", node |-> NoNode, stage |-> "asked",
          want |-> <<>>, done |-> {}]

Kinds == {"none", "upgrade", "update", "install"}
JobStages == {"asked", "fetched", "verified", "dropped", "linked", "swapped",
              "aside"}

Wants == UNION {[S -> Build] : S \in SUBSET Release}

Job_ == [kind : Kinds, node : Node \cup {NoNode}, stage : JobStages,
         want : Wants, done : SUBSET Release]

Phases == {"idle", "next", "call", "confirm"}

Files == [Part -> Build \cup {NoBuild}]

TypeOK ==
    /\ StoreTypeOK
    /\ faults \in 0..MaxFaults
    /\ bin \in [Node -> Build]
    /\ prev \in [Node -> Build \cup {NoBuild}]
    /\ running \in [Node -> Build \cup {NoBuild}]
    /\ toolFile \in [Node -> Files] /\ toolPrev \in [Node -> Files]
    /\ incoming \in [Node -> Files]
    /\ job \in [Job -> Job_]
    /\ rollout \in [left : SUBSET Node, node : Node \cup {NoNode}, phase : Phases,
                    waits : Job \cup {NoJobId},
                    version : {r.version : r \in Release} \cup {NoVersion}]

NoRollout == [left |-> {}, node |-> NoNode, phase |-> "idle", waits |-> NoJobId,
              version |-> NoVersion]

Init ==
    /\ StoreInit
    /\ faults = 0
    /\ bin = [n \in Node |-> First]
    /\ prev = [n \in Node |-> NoBuild]
    /\ running = bin
    /\ toolFile = [n \in Node |-> [c \in Part |-> NoBuild]]
    /\ toolPrev = toolFile
    /\ incoming = toolFile
    /\ job = [j \in Job |-> NoJob]
    /\ rollout = NoRollout

-----------------------------------------------------------------------------
(* Commands.                                                               *)

Idle(j) == job[j] = NoJob /\ rollout.waits # j

\* Which of the jobs not under way a command takes makes no difference.
Free(j) == Idle(j) /\ j = CHOOSE k \in Job : Idle(k)

New(kind, n, want) == [NoJob EXCEPT !.kind = kind, !.node = n, !.want = want]

\* The releases of a command, each with the sum the coordinator has for it.
Named(S) == [r \in S |-> rels[r].sum]

\* Hub.upgradeNode: a connected node is sent the release asked for, or the
\* newest for its platform, with the sum the coordinator has for it.
Command(j, n, wanted) ==
    /\ running[n] # NoBuild
    /\ wanted # {}
    /\ \E r \in wanted : job' = [job EXCEPT ![j] = New("upgrade", n, Named({r}))]

\* A person asks from the dashboard, for a version or for the newest.
AskUpgrade(j, n) ==
    /\ Ask
    /\ Free(j)
    /\ \E wanted \in {Latest(Platform[n])}
                \cup {Get(r.version, Platform[n]) : r \in Listed} :
          Command(j, n, wanted)
    /\ UNCHANGED <<storeVars, faults, hostVars, toolVars, rollout>>

\* Hub.UpgradeNodeTool: the set there is, each file with its sum.
AskInstall(j, n) ==
    /\ Ask
    /\ Free(j)
    /\ running[n] # NoBuild
    /\ \E S \in ToolSet(Tool, Platform[n]) :
          job' = [job EXCEPT ![j] = New("install", n, Named(S))]
    /\ UNCHANGED <<storeVars, faults, hostVars, toolVars, rollout>>

\* `shabadoo update` on the host: GitHub's release unless it is this version.
\* (Which of two is older rests on build stamps, and --force overrides it.)
AskUpdate(j, n) ==
    /\ Ask
    /\ Free(j)
    /\ bin[n].runs /\ bin[n].version # GitHub.version
    /\ job' = [job EXCEPT ![j] = [New("update", n, <<>>) EXCEPT !.stage = "fetched"]]
    /\ UNCHANGED <<storeVars, faults, hostVars, toolVars, rollout>>

\* A command that fails leaves what it has done, and its temporary files go.
Fails(j) ==
    /\ job' = [job EXCEPT ![j] = NoJob]
    /\ incoming' = IF job[j].kind # "install" THEN incoming
                   ELSE [incoming EXCEPT ![job[j].node] =
                            [c \in Part |-> IF \E r \in job[j].done : r.part = c
                                            THEN NoBuild ELSE @[c]]]

\* A download breaks off, or a system call fails: a fault of its own.
Breaks(j) ==
    /\ Fault
    /\ job[j].kind # "none"
    /\ job[j].stage \notin {"swapped"}
    /\ Fails(j)
    /\ UNCHANGED <<storeVars, hostVars, toolFile, toolPrev, rollout, asks>>

-----------------------------------------------------------------------------
(* Client.upgrade, and runUpdate from its download on.                     *)

Stage(j, stage) == job' = [job EXCEPT ![j].stage = stage]

Wanted(j) == CHOOSE r \in DOMAIN job[j].want : TRUE

\* The bytes a job has fetched into a temporary file of its own.
Staged(j) == IF job[j].kind = "update" THEN GitHub ELSE job[j].want[Wanted(j)]

VersionAsked(j) == IF job[j].kind = "update" THEN GitHub.version ELSE Wanted(j).version

\* What the release's path answers: this program's file, whatever the tool of
\* the release, and nothing once it is pruned.
Served(r) == {file[x] : x \in {y \in Get(r.version, r.platform) : file[y] # NoBuild}}

\* Nothing to do, or the download is not what the coordinator named.
Refuse(j) ==
    /\ job[j].kind = "upgrade" /\ job[j].stage = "asked"
    /\ \/ Wanted(j).version = running[job[j].node].version
       \/ job[j].want[Wanted(j)] \notin Served(Wanted(j))
    /\ Fails(j)
    /\ UNCHANGED <<storeVars, faults, hostVars, toolFile, toolPrev, rollout, asks>>

Fetch(j) ==
    /\ job[j].kind = "upgrade" /\ job[j].stage = "asked"
    /\ Wanted(j).version # running[job[j].node].version
    /\ job[j].want[Wanted(j)] \in Served(Wanted(j))
    /\ Stage(j, "fetched")
    /\ UNCHANGED <<storeVars, faults, hostVars, toolVars, rollout, asks>>

\* (The fault: the new binary is trusted for its sum.)
TrustedUnrun(b, version) == TRUE

\* verifyBinary, runsAndReports: it runs here and says it is what was asked.
Trusted(b, version) == b.runs /\ b.version = version

Verify(j) ==
    /\ job[j].kind \in {"upgrade", "update"} /\ job[j].stage = "fetched"
    /\ IF Trusted(Staged(j), VersionAsked(j))
       THEN Stage(j, "verified") /\ UNCHANGED incoming
       ELSE Fails(j)
    /\ UNCHANGED <<storeVars, faults, hostVars, toolFile, toolPrev, rollout, asks>>

DropPrev(j) ==
    /\ job[j].stage = "verified"
    /\ prev' = [prev EXCEPT ![job[j].node] = NoBuild]
    /\ Stage(j, "dropped")
    /\ UNCHANGED <<storeVars, faults, bin, running, toolVars, rollout, asks>>

\* os.Link fails when another command has put a .prev there meanwhile.
LinkPrev(j) ==
    /\ job[j].stage = "dropped"
    /\ prev' = [prev EXCEPT ![job[j].node] = IF @ = NoBuild THEN bin[job[j].node] ELSE @]
    /\ Stage(j, "linked")
    /\ UNCHANGED <<storeVars, faults, bin, running, toolVars, rollout, asks>>

Swap(j) ==
    /\ job[j].stage = "linked"
    /\ bin' = [bin EXCEPT ![job[j].node] = Staged(j)]
    /\ IF job[j].kind = "update" THEN job' = [job EXCEPT ![j] = NoJob]
                                 ELSE Stage(j, "swapped")
    /\ UNCHANGED <<storeVars, faults, prev, running, toolVars, rollout, asks>>

\* The agent's process ends, and its commands with it; `update` is another.
Stop(n) ==
    /\ running' = [running EXCEPT ![n] = NoBuild]
    /\ job' = [j \in Job |-> IF job[j].node = n /\ job[j].kind # "update"
                             THEN NoJob ELSE job[j]]

\* os.Exit(exitUpgraded), half a second after the answer.
Exit(j) ==
    /\ job[j].stage = "swapped"
    /\ Stop(job[j].node)
    /\ UNCHANGED <<storeVars, faults, bin, prev, toolVars, rollout, asks>>

Crash(n) ==
    /\ Fault
    /\ running[n] # NoBuild
    /\ Stop(n)
    /\ UNCHANGED <<storeVars, bin, prev, toolVars, rollout, asks>>

\* Restart=on-failure, KeepAlive: a binary that runs is started again.
Start(n) ==
    /\ running[n] = NoBuild
    /\ bin[n].runs
    /\ running' = [running EXCEPT ![n] = bin[n]]
    /\ UNCHANGED <<storeVars, faults, bin, prev, toolVars, job, rollout, asks>>

-----------------------------------------------------------------------------
(* Client.installTool.                                                     *)

InOrder(j, r) == \A x \in DOMAIN job[j].want \ job[j].done : r.part <= x.part

\* The next file is fetched to its .incoming, or the whole command fails.
StagePart(j, r) ==
    /\ job[j].kind = "install" /\ job[j].stage = "asked"
    /\ r \in DOMAIN job[j].want \ job[j].done /\ InOrder(j, r)
    /\ IF r \in Listed /\ file[r] = job[j].want[r]
       THEN /\ incoming' = [incoming EXCEPT ![job[j].node][r.part] = file[r]]
            /\ job' = [job EXCEPT ![j].done = @ \cup {r},
                                  ![j].stage = IF job[j].done \cup {r} = DOMAIN job[j].want
                                               THEN "fetched" ELSE "asked"]
       ELSE Fails(j)
    /\ UNCHANGED <<storeVars, faults, hostVars, toolFile, toolPrev, rollout, asks>>

\* (The fault: the .prev is cleared first, as Client.upgrade does with its own.)
PrevCleared(old, f) == f

\* The file there is becomes its .prev; where there is none, .prev stays.
PrevAfter(old, f) == IF f = NoBuild THEN old ELSE f

MoveAside(j, r) ==
    /\ job[j].kind = "install" /\ job[j].stage = "fetched"
    /\ r \in job[j].done /\ \A x \in job[j].done : r.part <= x.part
    /\ LET n == job[j].node IN
       /\ toolPrev' = [toolPrev EXCEPT ![n][r.part] = PrevAfter(@, toolFile[n][r.part])]
       /\ toolFile' = [toolFile EXCEPT ![n][r.part] = NoBuild]
    /\ Stage(j, "aside")
    /\ UNCHANGED <<storeVars, faults, hostVars, incoming, rollout, asks>>

\* The staged one takes its place; one that another command has taken fails.
MovePart(j, r) ==
    /\ job[j].kind = "install" /\ job[j].stage = "aside"
    /\ r \in job[j].done /\ \A x \in job[j].done : r.part <= x.part
    /\ LET n == job[j].node IN
       IF incoming[n][r.part] = NoBuild
       THEN Fails(j) /\ UNCHANGED toolFile
       ELSE /\ toolFile' = [toolFile EXCEPT ![n][r.part] = incoming[n][r.part]]
            /\ incoming' = [incoming EXCEPT ![n][r.part] = NoBuild]
            /\ job' = IF job[j].done = {r} THEN [job EXCEPT ![j] = NoJob]
                      ELSE [job EXCEPT ![j].done = @ \ {r}, ![j].stage = "fetched"]
    /\ UNCHANGED <<storeVars, faults, hostVars, toolPrev, rollout, asks>>

-----------------------------------------------------------------------------
(* runUpgrade: the command line goes from node to node.                    *)

\* nodeVersion: what the node last logged in as, nothing while it is offline.
NodeVersion(n) == IF running[n] = NoBuild THEN NoVersion ELSE running[n].version

\* --all: the nodes that are online.
StartRollout ==
    /\ Ask
    /\ rollout.phase = "idle"
    /\ rollout' = [NoRollout EXCEPT !.left = {n \in Node : running[n] # NoBuild},
                                    !.phase = "next"]
    /\ UNCHANGED <<storeVars, faults, hostVars, toolVars, job>>

GoOn(left) ==
    rollout' = IF left = {} THEN NoRollout
               ELSE [NoRollout EXCEPT !.left = left, !.phase = "next"]

CallNode(j, n) ==
    /\ rollout.phase = "next" /\ n \in rollout.left
    /\ Free(j)
    /\ Command(j, n, Latest(Platform[n]))
    /\ rollout' = [left |-> rollout.left \ {n}, node |-> n, phase |-> "call", waits |-> j,
                   version |-> Wanted(j)'.version]
    /\ UNCHANGED <<storeVars, faults, hostVars, toolVars, asks>>

\* The coordinator refuses: nothing is published, or the node is offline.
CannotCall(n) ==
    /\ rollout.phase = "next" /\ n \in rollout.left
    /\ running[n] = NoBuild \/ Latest(Platform[n]) = {}
    /\ GoOn(rollout.left \ {n})
    /\ UNCHANGED <<storeVars, faults, hostVars, toolVars, job, asks>>

\* The answer: the node has swapped and is about to restart.
Answered ==
    /\ rollout.phase = "call"
    /\ job[rollout.waits].stage = "swapped"
    /\ rollout' = [rollout EXCEPT !.phase = "confirm", !.waits = NoJobId]
    /\ UNCHANGED <<storeVars, faults, hostVars, toolVars, job, asks>>

\* It is back at the version asked for.
Confirmed ==
    /\ rollout.phase = "confirm" \/ (rollout.phase = "call" /\ job[rollout.waits] = NoJob)
    /\ NodeVersion(rollout.node) = rollout.version
    /\ GoOn(rollout.left)
    /\ UNCHANGED <<storeVars, faults, hostVars, toolVars, job, asks>>

\* upgradeOne fails: an error, no answer in time, or not back in a minute.
\* The loop says so and goes on.
GiveUp ==
    /\ \/ rollout.phase = "call" /\ job[rollout.waits].stage # "swapped"
       \/ rollout.phase = "confirm" /\ NodeVersion(rollout.node) # rollout.version
    /\ GoOn(rollout.left)
    /\ UNCHANGED <<storeVars, faults, hostVars, toolVars, job, asks>>

-----------------------------------------------------------------------------
StoreStep == StoreNext /\ UNCHANGED <<hostVars, toolVars, job, rollout>>

Work(j) ==
    \/ Refuse(j) \/ Fetch(j) \/ Verify(j) \/ DropPrev(j) \/ LinkPrev(j) \/ Swap(j)
    \/ Exit(j)
    \/ \E r \in Release : StagePart(j, r) \/ MoveAside(j, r) \/ MovePart(j, r)

Next ==
    \/ StoreStep
    \/ StartRollout \/ Answered \/ Confirmed \/ GiveUp
    \/ \E n \in Node : Crash(n) \/ Start(n) \/ CannotCall(n)
    \/ \E j \in Job : Work(j) \/ Breaks(j)
    \/ \E j \in Job, n \in Node : AskUpgrade(j, n) \/ AskInstall(j, n) \/ AskUpdate(j, n)
                                       \/ CallNode(j, n)

\* A goroutine runs on and a service manager restarts what exits non-zero.
Fairness ==
    /\ \A j \in Job : WF_vars(Work(j))
    /\ \A n \in Node : WF_vars(Start(n))
    /\ WF_vars(Answered \/ Confirmed \/ GiveUp)
    /\ WF_vars(\E n \in Node, j \in Job : CallNode(j, n) \/ CannotCall(n))

Spec == Init /\ [][Next]_vars /\ Fairness
-----------------------------------------------------------------------------
\* Whatever is published, under whatever name, a node's binary runs there and
\* is what its name says: the coordinator's only way back to a node is a
\* binary that starts (Client.upgrade and runUpdate run a staged file before
\* they swap it in, whatever its checksum says, and no failure comes between).
BinaryStarts == \A n \in Node : bin[n].runs

\* An agent that exits to be replaced, or dies while it is being replaced, is
\* back in the end (exit code 70 under Restart=on-failure, and a binary that
\* runs in the place at every step of every command).
NodeComesBack == \A n \in Node : running[n] = NoBuild ~> running[n] # NoBuild

\* Installing a set never leaves a host without a file it had: whatever fails
\* or crashes, and however two installs interleave, the file is in its place
\* or beside it as .prev (installTool moves the one aside before it moves the
\* other in, and there is no cleanup of either).
ToolsRecoverable ==
    [][\A n \in Node, c \in Part :
          (toolFile[n][c] # NoBuild \/ toolPrev[n][c] # NoBuild)
              => (toolFile'[n][c] # NoBuild \/ toolPrev'[n][c] # NoBuild)]_vars

\* One node at a time: the command line touches the next only when the last is
\* back at the version it was sent (src/cli.go's runUpgrade says "each is
\* confirmed back online before the next is touched").
EachConfirmedFirst ==
    [][rollout.phase \in {"call", "confirm"} /\ rollout'.phase = "next"
          => NodeVersion(rollout.node) = rollout.version]_vars

\* An upgrade to the newest build published for a platform installs a build of
\* this program (`--version`: "default: the newest published for that
\* platform"; what is published for another tool is no build of it).
NewestIsOurs ==
    \A j \in Job : job[j].kind = "upgrade" => \A r \in DOMAIN job[j].want : r.tool = Own
=============================================================================
