--------------------------- MODULE UpgradeProofs ---------------------------
(***************************************************************************)
(* Theorems about Upgrade and the store it reads, for any nodes, builds,   *)
(* releases, publishers, commands and bounds: types, what a node's binary  *)
(* may become, what becomes of a tool's files, and that what the           *)
(* coordinator lists is there to fetch.                                    *)
(***************************************************************************)
EXTENDS Upgrade, FiniteSetTheorems, TLAPS

\* What is uploaded, from its first step on, is a build.
UploadInv == \A p \in Publisher : upload[p].stage # "idle" => upload[p].sum \in Build

StoreInv == StoreTypeOK /\ UploadInv

Tried == {"verified", "dropped", "linked"}

\* An upgrade names a file, and what a command is about to swap in has run on
\* the node it is for.
Sound(j) ==
    /\ job[j].kind = "upgrade" => DOMAIN job[j].want # {}
    /\ job[j].stage \in Tried => job[j].kind \in {"upgrade", "update"} /\ Staged(j).runs

JobInv == \A j \in Job : Sound(j)

Inv == TypeOK /\ UploadInv /\ JobInv /\ BinaryStarts

-----------------------------------------------------------------------------
(* The store.                                                              *)

\* What the store shelves at the start are builds.
LEMMA StoreInitInv == StoreInit => StoreInv
  <1> SUFFICES ASSUME StoreInit
               PROVE  StoreInv
    OBVIOUS
  <1>1. file \in [Release -> Build \cup {NoBuild}]
    <2>1. ASSUME NEW r \in Release, Shelved(r) # {}
          PROVE  (CHOOSE b \in Shelved(r) : TRUE) \in Build
      <3>1. Shelved(r) \subseteq Build
        BY ReleasesAssumption DEF Shelved
      <3> QED
        BY <2>1, <3>1
    <2> QED
      BY <2>1 DEF StoreInit
  <1>2. rels \in Index
    BY <1>1, ReleasesAssumption DEF StoreInit, Index, Entry
  <1>3. upload = [p \in Publisher |-> NoUpload]
    BY DEF StoreInit
  <1>4. UploadInv
    BY <1>3 DEF UploadInv, NoUpload
  <1>5. clock \in 0..MaxTime /\ asks \in 0..MaxAsks
    BY ReleasesAssumption DEF StoreInit
  <1>6. upload \in [Publisher -> [stage : Stages, rel : Release \cup {NoRelease},
                                 sum : Build \cup {NoBuild}, at : 0..MaxTime]]
    BY <1>3, ReleasesAssumption DEF Stages, NoUpload
  <1>7. manifest \in Index
    BY <1>2 DEF StoreInit
  <1>8. overstock \in BOOLEAN
    BY DEF StoreInit, Overstocked
  <1> QED
    BY <1>1, <1>2, <1>4, <1>5, <1>6, <1>7, <1>8 DEF StoreTypeOK, StoreInv

\* Publishing, pruning and a restart leave files and entries of builds.
LEMMA StoreNextInv ==
    ASSUME StoreInv, faults \in 0..MaxFaults, StoreNext
    PROVE  StoreInv' /\ faults' \in 0..MaxFaults
  <1> USE ReleasesAssumption DEF StoreInv, UploadInv, StoreTypeOK, Index
  <1>1. CASE StoreRestart
    BY <1>1 DEF StoreRestart, Fault, Load, NoUpload, Stages
  <1>2. ASSUME NEW p \in Publisher, MoveIn(p)
        PROVE  StoreInv' /\ faults' \in 0..MaxFaults
    BY <1>2 DEF MoveIn, Step, Stages
  <1>3. ASSUME NEW p \in Publisher, Enter(p)
        PROVE  StoreInv' /\ faults' \in 0..MaxFaults
    BY <1>3 DEF Enter, Step, Stages, Entry
  <1>4. ASSUME NEW p \in Publisher, Prune(p)
        PROVE  StoreInv' /\ faults' \in 0..MaxFaults
    BY <1>4 DEF Prune, Step, Stages, Unlist
  <1>5. ASSUME NEW p \in Publisher, WriteManifest(p)
        PROVE  StoreInv' /\ faults' \in 0..MaxFaults
    BY <1>5 DEF WriteManifest, Stages, NoUpload
  <1>6. ASSUME NEW p \in Publisher, NEW f \in Publishes[p], Upload(p, f)
        PROVE  StoreInv' /\ faults' \in 0..MaxFaults
    BY <1>6 DEF Upload, Ask, Stages
  <1> QED
    BY <1>1, <1>2, <1>3, <1>4, <1>5, <1>6 DEF StoreNext

-----------------------------------------------------------------------------
(* Types, and what runs.                                                   *)

LEMMA NoJobType == NoJob \in Job_
  <1>1. <<>> \in [{} -> Build]
    OBVIOUS
  <1>2. [{} -> Build] \subseteq Wants
    BY DEF Wants
  <1> QED
    BY <1>1, <1>2 DEF NoJob, Job_, Kinds, JobStages

\* What a command names are releases that are listed, each with its build.
LEMMA NamedType ==
    ASSUME TypeOK, NEW S, S \subseteq Listed
    PROVE  Named(S) \in Wants
  <1>1. \A r \in S : r \in Release /\ rels[r].sum \in Build
    BY DEF Listed, TypeOK, StoreTypeOK, Index, Entry
  <1>2. Named(S) \in [S -> Build] /\ S \in SUBSET Release
    BY <1>1 DEF Named
  <1> QED
    BY <1>2 DEF Wants

\* A new command is at its start.
LEMMA NewType ==
    ASSUME NEW kind \in Kinds, NEW n \in Node, NEW w \in Wants
    PROVE  New(kind, n, w) \in Job_ /\ New(kind, n, w).stage = "asked"
  BY NoJobType DEF New, NoJob, Job_

LEMMA InvInit == Init => Inv
  <1> SUFFICES ASSUME Init
               PROVE  Inv
    OBVIOUS
  <1>1. StoreTypeOK /\ UploadInv
    BY StoreInitInv DEF Init, StoreInv
  <1>2. toolFile \in [Node -> Files]
    BY DEF Init, Files
  <1>3. job \in [Job -> Job_]
    BY NoJobType DEF Init
  <1>4. bin \in [Node -> Build] /\ running \in [Node -> Build \cup {NoBuild}]
    BY UpgradeAssumption DEF Init
  <1>5. prev \in [Node -> Build \cup {NoBuild}] /\ faults \in 0..MaxFaults
    BY ReleasesAssumption DEF Init
  <1>6. rollout \in [left : SUBSET Node, node : Node \cup {NoNode}, phase : Phases,
                    waits : Job \cup {NoJobId},
                    version : {r.version : r \in Release} \cup {NoVersion}]
    BY DEF Init, NoRollout, Phases
  <1>7. TypeOK
    BY <1>1, <1>2, <1>3, <1>4, <1>5, <1>6 DEF Init, TypeOK
  <1>8. JobInv
    BY DEF Init, JobInv, Sound, NoJob, Tried
  <1>9. BinaryStarts
    BY UpgradeAssumption DEF Init, BinaryStarts
  <1> QED
    BY <1>1, <1>7, <1>8, <1>9 DEF Inv

-----------------------------------------------------------------------------
(* One command's steps.                                                    *)

\* A command whose kind and files stay has the same file staged.
LEMMA KeepsStaged ==
    ASSUME NEW k \in Job, job'[k].want = job[k].want, job'[k].kind = job[k].kind
    PROVE  Staged(k)' = Staged(k)
  BY DEF Staged, Wanted

\* Nothing one command does tells on what another has verified.
LEMMA OneJob ==
    ASSUME JobInv, NEW j \in Job, \A k \in Job \ {j} : job'[k] = job[k], Sound(j)'
    PROVE  JobInv'
  <1>1. ASSUME NEW k \in Job \ {j}
        PROVE  Sound(k)'
    <2>1. job'[k] = job[k]
      OBVIOUS
    <2>2. Staged(k)' = Staged(k)
      BY <2>1, KeepsStaged
    <2> QED
      BY <2>1, <2>2 DEF JobInv, Sound
  <1> QED
    BY <1>1 DEF JobInv

\* A new command, as sent to a node.
LEMMA CommandType ==
    ASSUME Inv, NEW j \in Job, NEW n \in Node, NEW wanted, wanted \subseteq Listed,
           Command(j, n, wanted)
    PROVE  /\ job' \in [Job -> Job_] /\ JobInv'
           /\ Wanted(j)'.version \in {r.version : r \in Release}
  <1>1. PICK r \in wanted : job' = [job EXCEPT ![j] = New("upgrade", n, Named({r}))]
    BY DEF Command
  <1>2. Named({r}) \in Wants
    BY NamedType DEF Inv
  <1>3. New("upgrade", n, Named({r})) \in Job_ /\ New("upgrade", n, Named({r})).stage = "asked"
    BY <1>2, NewType DEF Kinds
  <1>4. job' \in [Job -> Job_]
    BY <1>1, <1>3 DEF Inv, TypeOK
  <1>5. DOMAIN job'[j].want = {r}
    BY <1>1 DEF New, NoJob, Named, Inv, TypeOK
  <1>6. JobInv'
    <2>1. Sound(j)'
      BY <1>1, <1>3, <1>5 DEF Inv, TypeOK, Tried, Sound
    <2> QED
      BY <1>1, <2>1, OneJob DEF Inv, TypeOK
  <1>7. Wanted(j)' = r
    BY <1>5 DEF Wanted
  <1> QED
    BY <1>4, <1>6, <1>7 DEF Listed

\* A command that fails.
LEMMA FailsType ==
    ASSUME Inv, NEW j \in Job, Fails(j)
    PROVE  job' \in [Job -> Job_] /\ JobInv' /\ incoming' \in [Node -> Files]
  <1>1. job' \in [Job -> Job_]
    BY NoJobType DEF Fails, Inv, TypeOK
  <1>2. JobInv'
    <2>1. job'[j] = NoJob /\ \A k \in Job \ {j} : job'[k] = job[k]
      BY DEF Fails, Inv, TypeOK
    <2>2. Sound(j)'
      BY <2>1 DEF Sound, NoJob, Tried
    <2> QED
      BY <2>1, <2>2, OneJob DEF Inv
  <1>3. incoming' \in [Node -> Files]
    BY DEF Fails, Inv, TypeOK, Files
  <1> QED
    BY <1>1, <1>2, <1>3

\* A command that goes on to another stage, with the same files.
LEMMA StageType ==
    ASSUME Inv, NEW j \in Job, NEW stage \in JobStages, Stage(j, stage),
           stage \in Tried => job[j].kind \in {"upgrade", "update"} /\ Staged(j).runs
    PROVE  job' \in [Job -> Job_] /\ JobInv'
  <1>1. job' \in [Job -> Job_]
    BY DEF Stage, Inv, TypeOK, Job_
  <1>2. /\ job'[j].kind = job[j].kind /\ job'[j].want = job[j].want /\ job'[j].stage = stage
        /\ \A k \in Job \ {j} : job'[k] = job[k]
    BY DEF Stage, Inv, TypeOK, Job_
  <1>3. Staged(j)' = Staged(j)
    BY <1>2, KeepsStaged
  <1>4. JobInv'
    <2>1. Sound(j)'
      BY <1>2, <1>3 DEF Inv, JobInv, Sound
    <2> QED
      BY <1>2, <2>1, OneJob DEF Inv
  <1> QED
    BY <1>1, <1>4

\* The file a command has fetched is a build.
LEMMA StagedBuild ==
    ASSUME Inv, NEW j \in Job, job[j].kind \in {"update", "upgrade"}
    PROVE  Staged(j) \in Build
  <1>1. CASE job[j].kind = "update"
    BY <1>1, UpgradeAssumption DEF Staged
  <1>2. CASE job[j].kind = "upgrade"
    <2>1. Wanted(j) \in DOMAIN job[j].want
      BY <1>2 DEF Wanted, Inv, JobInv, Sound
    <2>2. job[j].want \in Wants
      BY DEF Inv, TypeOK, Job_
    <2>3. PICK S \in SUBSET Release : job[j].want \in [S -> Build]
      BY <2>2 DEF Wants
    <2> QED
      BY <1>2, <2>1, <2>3 DEF Staged
  <1> QED
    BY <1>1, <1>2

-----------------------------------------------------------------------------
(* The steps.                                                              *)

\* One file of one node's set.
LEMMA FilesExcept ==
    ASSUME NEW f \in [Node -> Files], NEW n, NEW c, NEW b \in Build \cup {NoBuild}
    PROVE  [f EXCEPT ![n][c] = b] \in [Node -> Files]
  <1>1. CASE n \in Node
    BY <1>1 DEF Files
  <1>2. CASE n \notin Node
    BY <1>2 DEF Files
  <1> QED
    BY <1>1, <1>2

LEMMA NotOne ==
    ASSUME NEW f \in [Node -> Files], NEW n, NEW c, NEW b, ~(n \in Node /\ c \in Part)
    PROVE  [f EXCEPT ![n][c] = b] \in [Node -> Files]
  <1>1. CASE n \in Node
    BY <1>1 DEF Files
  <1>2. CASE n \notin Node
    BY <1>2 DEF Files
  <1> QED
    BY <1>1, <1>2

\* The store's own steps leave the hosts and the commands alone.
LEMMA StoreStepInv == ASSUME Inv, StoreStep PROVE Inv'
  <1>1. StoreInv' /\ faults' \in 0..MaxFaults
    BY StoreNextInv DEF StoreStep, Inv, TypeOK, StoreInv
  <1>2. JobInv'
    BY DEF StoreStep, Inv, JobInv, Sound, Staged, Wanted
  <1> QED
    BY <1>1, <1>2 DEF StoreStep, Inv, TypeOK, StoreInv, hostVars, toolVars, BinaryStarts

\* What the store holds is unchanged by everything else.
LEMMA StoreKept ==
    ASSUME Inv, UNCHANGED storeVars, asks' \in 0..MaxAsks
    PROVE  StoreTypeOK' /\ UploadInv'
  BY DEF Inv, TypeOK, StoreTypeOK, UploadInv, storeVars, Index, Entry

\* A command that is asked for.
LEMMA AskInv ==
    ASSUME Inv, NEW j \in Job, NEW n \in Node,
           AskUpgrade(j, n) \/ AskInstall(j, n) \/ AskUpdate(j, n)
    PROVE  Inv'
  <1>1. asks' \in 0..MaxAsks /\ UNCHANGED <<storeVars, faults, hostVars, toolVars, rollout>>
    BY ReleasesAssumption DEF AskUpgrade, AskInstall, AskUpdate, Ask, Inv, TypeOK, StoreTypeOK
  <1>2. StoreTypeOK' /\ UploadInv'
    BY <1>1, StoreKept
  <1>3. job' \in [Job -> Job_] /\ JobInv'
    <2>1. CASE AskUpgrade(j, n)
      <3>1. PICK wanted \in {Latest(Platform[n])} \cup {Get(r.version, Platform[n]) : r \in Listed} :
                Command(j, n, wanted)
        BY <2>1 DEF AskUpgrade
      <3>2. wanted \subseteq Listed
        BY <3>1 DEF Latest, Newest, Get
      <3> QED
        BY <3>1, <3>2, CommandType
    <2>2. CASE AskInstall(j, n)
      <3>1. PICK S \in ToolSet(Tool, Platform[n]) :
                job' = [job EXCEPT ![j] = New("install", n, Named(S))]
        BY <2>2 DEF AskInstall
      <3>2. S \subseteq Listed
        BY <3>1 DEF ToolSet
      <3>3. Named(S) \in Wants
        BY <3>2, NamedType DEF Inv
      <3>4. New("install", n, Named(S)) \in Job_ /\ New("install", n, Named(S)).stage = "asked"
        BY <3>3, NewType DEF Kinds
      <3>5. New("install", n, Named(S)).kind = "install"
        BY DEF New, NoJob
      <3>6. Sound(j)'
        BY <3>1, <3>4, <3>5 DEF Sound, Tried, Inv, TypeOK
      <3> QED
        BY <3>1, <3>4, <3>6, OneJob DEF Inv, TypeOK
    <2>3. CASE AskUpdate(j, n)
      <3> DEFINE new == [New("update", n, <<>>) EXCEPT !.stage = "fetched"]
      <3>1. <<>> \in Wants
        BY NoJobType DEF NoJob, Job_
      <3>2. New("update", n, <<>>) \in Job_
        BY <3>1, NewType DEF Kinds
      <3>3. new \in Job_ /\ new.stage = "fetched" /\ new.kind = "update"
        BY <3>2 DEF Job_, JobStages, New, NoJob
      <3>4. job' = [job EXCEPT ![j] = new]
        BY <2>3 DEF AskUpdate
      <3> HIDE DEF new
      <3>5. Sound(j)'
        BY <3>3, <3>4 DEF Sound, Tried, Inv, TypeOK
      <3> QED
        BY <3>3, <3>4, <3>5, OneJob DEF Inv, TypeOK
    <2> QED
      BY <2>1, <2>2, <2>3
  <1> QED
    BY <1>1, <1>2, <1>3 DEF Inv, TypeOK, hostVars, toolVars, BinaryStarts

\* What a node's own commands do with this program's binary.
LEMMA BinaryInv ==
    ASSUME Inv, NEW j \in Job,
           Refuse(j) \/ Fetch(j) \/ Verify(j) \/ DropPrev(j) \/ LinkPrev(j) \/ Swap(j)
    PROVE  Inv'
  <1>1. asks' = asks /\ UNCHANGED <<storeVars, faults, running, toolFile, toolPrev, rollout>>
    BY DEF Refuse, Fetch, Verify, DropPrev, LinkPrev, Swap, hostVars, toolVars
  <1>2. StoreTypeOK' /\ UploadInv'
    BY <1>1, StoreKept DEF Inv, TypeOK, StoreTypeOK
  <1>3. ASSUME job' \in [Job -> Job_] /\ JobInv', incoming' \in [Node -> Files],
               bin' \in [Node -> Build], prev' \in [Node -> Build \cup {NoBuild}], BinaryStarts'
        PROVE  Inv'
    BY <1>1, <1>2, <1>3 DEF Inv, TypeOK
  <1>4. CASE Refuse(j)
    BY <1>3, <1>4, FailsType DEF Refuse, hostVars, Inv, TypeOK, BinaryStarts
  <1>5. CASE Fetch(j)
    <2>1. job' \in [Job -> Job_] /\ JobInv'
      BY <1>5, StageType DEF Fetch, JobStages, Tried
    <2> QED
      BY <1>3, <1>5, <2>1 DEF Fetch, hostVars, toolVars, Inv, TypeOK, BinaryStarts
  <1>6. CASE Verify(j)
    <2>1. CASE Trusted(Staged(j), VersionAsked(j))
      <3>1. Stage(j, "verified") /\ UNCHANGED incoming /\ Staged(j).runs
        BY <1>6, <2>1 DEF Verify, Trusted
      <3>2. job' \in [Job -> Job_] /\ JobInv'
        BY <1>6, <3>1, StageType DEF Verify, JobStages, Tried
      <3> QED
        BY <1>3, <1>6, <3>1, <3>2 DEF Verify, hostVars, Inv, TypeOK, BinaryStarts
    <2>2. CASE ~Trusted(Staged(j), VersionAsked(j))
      <3>1. Fails(j)
        BY <1>6, <2>2 DEF Verify
      <3> QED
        BY <1>3, <1>6, <3>1, FailsType DEF Verify, hostVars, Inv, TypeOK, BinaryStarts
    <2> QED
      BY <2>1, <2>2
  <1>7. CASE DropPrev(j)
    <2>1. job' \in [Job -> Job_] /\ JobInv'
      BY <1>7, StageType DEF DropPrev, JobStages, Tried, Inv, JobInv, Sound
    <2>2. prev' \in [Node -> Build \cup {NoBuild}]
      BY <1>7 DEF DropPrev, Inv, TypeOK
    <2> QED
      BY <1>3, <1>7, <2>1, <2>2 DEF DropPrev, toolVars, Inv, TypeOK, BinaryStarts
  <1>8. CASE LinkPrev(j)
    <2>1. job' \in [Job -> Job_] /\ JobInv'
      BY <1>8, StageType DEF LinkPrev, JobStages, Tried, Inv, JobInv, Sound
    <2>2. prev' \in [Node -> Build \cup {NoBuild}]
      BY <1>8 DEF LinkPrev, Inv, TypeOK
    <2> QED
      BY <1>3, <1>8, <2>1, <2>2 DEF LinkPrev, toolVars, Inv, TypeOK, BinaryStarts
  <1>9. CASE Swap(j)
    <2>1. job[j].kind \in {"upgrade", "update"} /\ Staged(j).runs
      BY <1>9 DEF Swap, Inv, JobInv, Sound, Tried
    <2>2. Staged(j) \in Build
      BY <2>1, StagedBuild
    <2>3. bin' \in [Node -> Build] /\ BinaryStarts'
      BY <1>9, <2>1, <2>2 DEF Swap, Inv, TypeOK, BinaryStarts
    <2>4. job' \in [Job -> Job_] /\ JobInv'
      <3>1. CASE job[j].kind = "update"
        <4>1. job' = [job EXCEPT ![j] = NoJob]
          BY <1>9, <3>1 DEF Swap
        <4>2. Sound(j)'
          BY <4>1 DEF Inv, TypeOK, Sound, Tried, NoJob
        <4> QED
          BY <4>1, <4>2, NoJobType, OneJob DEF Inv, TypeOK
      <3>2. CASE job[j].kind # "update"
        <4>1. Stage(j, "swapped")
          BY <1>9, <3>2 DEF Swap
        <4> QED
          BY <4>1, StageType DEF JobStages, Tried
      <3> QED
        BY <3>1, <3>2
    <2> QED
      BY <1>3, <1>9, <2>3, <2>4 DEF Swap, toolVars, Inv, TypeOK
  <1> QED
    BY <1>4, <1>5, <1>6, <1>7, <1>8, <1>9

\* What a node's own commands do with a tool's files.
LEMMA ToolInv ==
    ASSUME Inv, NEW j \in Job, NEW r \in Release,
           StagePart(j, r) \/ MoveAside(j, r) \/ MovePart(j, r)
    PROVE  Inv'
  <1>1. asks' = asks /\ UNCHANGED <<storeVars, faults, bin, prev, running, rollout>>
    BY DEF StagePart, MoveAside, MovePart, hostVars
  <1>2. StoreTypeOK' /\ UploadInv'
    BY <1>1, StoreKept DEF Inv, TypeOK, StoreTypeOK
  <1>3. ASSUME job' \in [Job -> Job_] /\ JobInv', incoming' \in [Node -> Files],
               toolFile' \in [Node -> Files], toolPrev' \in [Node -> Files]
        PROVE  Inv'
    BY <1>1, <1>2, <1>3 DEF Inv, TypeOK, BinaryStarts
  <1>4. job[j].kind = "install" /\ job[j].kind # "upgrade"
    BY DEF StagePart, MoveAside, MovePart
  <1>5. CASE StagePart(j, r)
    <2>1. CASE r \in Listed /\ file[r] = job[j].want[r]
      <3> DEFINE new == [job[j] EXCEPT !.done = @ \cup {r},
                              !.stage = IF job[j].done \cup {r} = DOMAIN job[j].want
                                        THEN "fetched" ELSE "asked"]
      <3>1. new \in Job_ /\ new.kind = "install" /\ new.stage \notin Tried
        BY <1>4 DEF Inv, TypeOK, Job_, JobStages, Tried
      <3>2. job' = [job EXCEPT ![j] = new]
        BY <1>5, <2>1 DEF StagePart
      <3> HIDE DEF new
      <3>3. Sound(j)'
        BY <3>1, <3>2 DEF Inv, TypeOK, Sound
      <3>4. job' \in [Job -> Job_] /\ JobInv'
        BY <3>1, <3>2, <3>3, OneJob DEF Inv, TypeOK
      <3>5. file[r] \in Build \cup {NoBuild}
        BY DEF Inv, TypeOK, StoreTypeOK
      <3>6. incoming' \in [Node -> Files]
        <4>1. incoming' = [incoming EXCEPT ![job[j].node][r.part] = file[r]]
          BY <1>5, <2>1 DEF StagePart
        <4> QED
          BY <3>5, <4>1, FilesExcept DEF Inv, TypeOK
      <3> QED
        BY <1>3, <1>5, <3>4, <3>6 DEF StagePart, Inv, TypeOK
    <2>2. CASE ~(r \in Listed /\ file[r] = job[j].want[r])
      <3>1. Fails(j)
        BY <1>5, <2>2 DEF StagePart
      <3> QED
        BY <1>3, <1>5, <3>1, FailsType DEF StagePart, Inv, TypeOK
    <2> QED
      BY <2>1, <2>2
  <1>6. CASE MoveAside(j, r)
    <2>1. job' \in [Job -> Job_] /\ JobInv'
      BY <1>6, StageType DEF MoveAside, JobStages, Tried
    <2>2. toolFile' \in [Node -> Files]
      BY <1>6, FilesExcept DEF MoveAside, Inv, TypeOK
    <2>3. toolPrev' \in [Node -> Files]
      <3> DEFINE b == PrevAfter(toolPrev[job[j].node][r.part], toolFile[job[j].node][r.part])
      <3>1. toolPrev' = [toolPrev EXCEPT ![job[j].node][r.part] = b]
        BY <1>6 DEF MoveAside
      <3>2. CASE job[j].node \in Node /\ r.part \in Part
        <4>1. b \in Build \cup {NoBuild}
          BY <3>2 DEF Inv, TypeOK, Files, PrevAfter
        <4> QED
          BY <3>1, <4>1, FilesExcept DEF Inv, TypeOK
      <3>3. CASE ~(job[j].node \in Node /\ r.part \in Part)
        BY <3>1, <3>3, NotOne DEF Inv, TypeOK
      <3> QED
        BY <3>2, <3>3
    <2> QED
      BY <1>3, <1>6, <2>1, <2>2, <2>3 DEF MoveAside, Inv, TypeOK
  <1>7. CASE MovePart(j, r)
    <2>1. CASE incoming[job[j].node][r.part] = NoBuild
      <3>1. Fails(j) /\ UNCHANGED toolFile
        BY <1>7, <2>1 DEF MovePart
      <3> QED
        BY <1>3, <1>7, <3>1, FailsType DEF MovePart, Inv, TypeOK
    <2>2. CASE incoming[job[j].node][r.part] # NoBuild
      <3> DEFINE new == IF job[j].done = {r} THEN NoJob
                        ELSE [job[j] EXCEPT !.done = @ \ {r}, !.stage = "fetched"]
      <3>1. new \in Job_ /\ new.kind # "upgrade" /\ new.stage \notin Tried
        BY <1>4, NoJobType DEF Inv, TypeOK, Job_, JobStages, Tried, NoJob
      <3>2. job' = [job EXCEPT ![j] = new]
        BY <1>7, <2>2 DEF MovePart
      <3> HIDE DEF new
      <3>3. Sound(j)'
        BY <3>1, <3>2 DEF Inv, TypeOK, Sound
      <3>4. job' \in [Job -> Job_] /\ JobInv'
        BY <3>1, <3>2, <3>3, OneJob DEF Inv, TypeOK
      <3>5. incoming' \in [Node -> Files]
        <4>1. incoming' = [incoming EXCEPT ![job[j].node][r.part] = NoBuild]
          BY <1>7, <2>2 DEF MovePart
        <4> QED
          BY <4>1, FilesExcept DEF Inv, TypeOK
      <3>6. toolFile' \in [Node -> Files]
        <4> DEFINE b == incoming[job[j].node][r.part]
        <4>1. toolFile' = [toolFile EXCEPT ![job[j].node][r.part] = b]
          BY <1>7, <2>2 DEF MovePart
        <4>2. CASE job[j].node \in Node /\ r.part \in Part
          <5>1. b \in Build \cup {NoBuild}
            BY <4>2 DEF Inv, TypeOK, Files
          <5> QED
            BY <4>1, <5>1, FilesExcept DEF Inv, TypeOK
        <4>3. CASE ~(job[j].node \in Node /\ r.part \in Part)
          BY <4>1, <4>3, NotOne DEF Inv, TypeOK
        <4> QED
          BY <4>2, <4>3
      <3> QED
        BY <1>3, <1>7, <3>4, <3>5, <3>6 DEF MovePart, Inv, TypeOK
    <2> QED
      BY <2>1, <2>2
  <1> QED
    BY <1>5, <1>6, <1>7

\* What breaks off, dies or is started again.
LEMMA HostInv ==
    ASSUME Inv, \/ \E j \in Job : Breaks(j) \/ Exit(j)
                \/ \E n \in Node : Crash(n) \/ Start(n)
    PROVE  Inv'
  <1>1. /\ asks' = asks /\ faults' \in 0..MaxFaults
        /\ UNCHANGED <<storeVars, bin, prev, toolFile, toolPrev, rollout>>
    BY ReleasesAssumption
       DEF Breaks, Exit, Crash, Start, hostVars, toolVars, Fault, Inv, TypeOK
  <1>2. StoreTypeOK' /\ UploadInv'
    BY <1>1, StoreKept DEF Inv, TypeOK, StoreTypeOK
  <1>3. ASSUME job' \in [Job -> Job_] /\ JobInv', incoming' \in [Node -> Files],
               running' \in [Node -> Build \cup {NoBuild}]
        PROVE  Inv'
    BY <1>1, <1>2, <1>3 DEF Inv, TypeOK, BinaryStarts
  <1>4. ASSUME NEW n, Stop(n), UNCHANGED toolVars
        PROVE  Inv'
    <2>1. job' \in [Job -> Job_]
      BY <1>4, NoJobType DEF Stop, Inv, TypeOK
    <2>2. ASSUME NEW k \in Job
          PROVE  Sound(k)'
      <3>1. CASE job'[k] = job[k]
        <4>1. Staged(k)' = Staged(k)
          BY <3>1, KeepsStaged
        <4> QED
          BY <3>1, <4>1 DEF Inv, JobInv, Sound
      <3>2. CASE job'[k] = NoJob
        BY <3>2 DEF Sound, NoJob, Tried
      <3> QED
        BY <1>4, <3>1, <3>2 DEF Stop
    <2>3. running' \in [Node -> Build \cup {NoBuild}]
      BY <1>4 DEF Stop, Inv, TypeOK
    <2> QED
      BY <1>3, <1>4, <2>1, <2>2, <2>3 DEF JobInv, toolVars, Inv, TypeOK
  <1>5. ASSUME NEW j \in Job, Breaks(j)
        PROVE  Inv'
    BY <1>3, <1>5, FailsType DEF Breaks, hostVars, Inv, TypeOK
  <1>6. ASSUME NEW j \in Job, Exit(j)
        PROVE  Inv'
    BY <1>4, <1>6 DEF Exit
  <1>7. ASSUME NEW n \in Node, Crash(n)
        PROVE  Inv'
    BY <1>4, <1>7 DEF Crash
  <1>8. ASSUME NEW n \in Node, Start(n)
        PROVE  Inv'
    <2>1. JobInv'
      BY <1>8 DEF Start, Inv, JobInv, Sound, Staged, Wanted
    <2>2. running' \in [Node -> Build \cup {NoBuild}]
      BY <1>8 DEF Start, Inv, TypeOK
    <2> QED
      BY <1>3, <1>8, <2>1, <2>2 DEF Start, toolVars, Inv, TypeOK
  <1> QED
    BY <1>5, <1>6, <1>7, <1>8

\* What the command line does.
LEMMA RolloutInv ==
    ASSUME Inv, \/ StartRollout \/ Answered \/ Confirmed \/ GiveUp
                \/ \E n \in Node : CannotCall(n) \/ \E j \in Job : CallNode(j, n)
    PROVE  Inv'
  <1> DEFINE Rollouts == [left : SUBSET Node, node : Node \cup {NoNode}, phase : Phases,
                          waits : Job \cup {NoJobId},
                          version : {r.version : r \in Release} \cup {NoVersion}]
  <1>1. asks' \in 0..MaxAsks /\ UNCHANGED <<storeVars, faults, hostVars, toolVars>>
    <2>1. asks \in 0..MaxAsks /\ MaxAsks \in Nat
      BY ReleasesAssumption DEF Inv, TypeOK, StoreTypeOK
    <2>2. CASE StartRollout
      BY <2>1, <2>2 DEF StartRollout, Ask
    <2>3. CASE Answered \/ Confirmed \/ GiveUp
      BY <2>1, <2>3 DEF Answered, Confirmed, GiveUp
    <2>4. ASSUME NEW n \in Node, CannotCall(n)
          PROVE  asks' = asks /\ UNCHANGED <<storeVars, faults, hostVars, toolVars>>
      BY <2>4 DEF CannotCall
    <2>5. ASSUME NEW n \in Node, NEW j \in Job, CallNode(j, n)
          PROVE  asks' = asks /\ UNCHANGED <<storeVars, faults, hostVars, toolVars>>
      BY <2>5 DEF CallNode
    <2> QED
      BY <2>1, <2>2, <2>3, <2>4, <2>5
  <1>2. StoreTypeOK' /\ UploadInv'
    BY <1>1, StoreKept
  <1>3. ASSUME job' \in [Job -> Job_] /\ JobInv', rollout' \in Rollouts
        PROVE  Inv'
    BY <1>1, <1>2, <1>3 DEF Inv, TypeOK, BinaryStarts, hostVars, toolVars
  <1>4. rollout \in Rollouts
    BY DEF Inv, TypeOK
  <1>5. ASSUME UNCHANGED job
        PROVE  job' \in [Job -> Job_] /\ JobInv'
    BY <1>5 DEF Inv, TypeOK, JobInv, Sound, Staged, Wanted
  <1>6. ASSUME NEW left \in SUBSET Node, GoOn(left)
        PROVE  rollout' \in Rollouts
    BY <1>6 DEF GoOn, NoRollout, Phases
  <1>7. CASE StartRollout
    BY <1>3, <1>5, <1>7 DEF StartRollout, NoRollout, Phases
  <1>8. CASE Answered
    BY <1>3, <1>4, <1>5, <1>8 DEF Answered, Phases
  <1>9. CASE Confirmed \/ GiveUp
    BY <1>3, <1>4, <1>5, <1>6, <1>9 DEF Confirmed, GiveUp
  <1>10. ASSUME NEW n \in Node, CannotCall(n)
         PROVE  Inv'
    BY <1>3, <1>4, <1>5, <1>6, <1>10 DEF CannotCall
  <1>11. ASSUME NEW n \in Node, NEW j \in Job, CallNode(j, n)
         PROVE  Inv'
    <2>1. Latest(Platform[n]) \subseteq Listed
      BY DEF Latest, Newest
    <2>2. /\ job' \in [Job -> Job_] /\ JobInv'
          /\ Wanted(j)'.version \in {r.version : r \in Release}
      BY <1>11, <2>1, CommandType DEF CallNode
    <2>3. rollout' \in Rollouts
      BY <1>4, <1>11, <2>2 DEF CallNode, Phases
    <2> QED
      BY <1>3, <2>2, <2>3
  <1> QED
    BY <1>7, <1>8, <1>9, <1>10, <1>11

LEMMA InvNext == Inv /\ [Next]_vars => Inv'
  <1> SUFFICES ASSUME Inv, [Next]_vars
               PROVE  Inv'
    OBVIOUS
  <1>1. CASE StoreStep
    BY <1>1, StoreStepInv
  <1>2. CASE StartRollout \/ Answered \/ Confirmed \/ GiveUp
    BY <1>2, RolloutInv
  <1>3. ASSUME NEW n \in Node, Crash(n) \/ Start(n) \/ CannotCall(n)
        PROVE  Inv'
    BY <1>3, HostInv, RolloutInv
  <1>4. ASSUME NEW j \in Job, Work(j) \/ Breaks(j)
        PROVE  Inv'
    BY <1>4, BinaryInv, ToolInv, HostInv DEF Work
  <1>5. ASSUME NEW j \in Job, NEW n \in Node,
               AskUpgrade(j, n) \/ AskInstall(j, n) \/ AskUpdate(j, n) \/ CallNode(j, n)
        PROVE  Inv'
    BY <1>5, AskInv, RolloutInv
  <1>6. CASE UNCHANGED vars
    <2>1. StoreTypeOK' /\ UploadInv'
      BY <1>6, StoreKept DEF vars, Inv, TypeOK, StoreTypeOK
    <2>2. JobInv'
      BY <1>6 DEF vars, Inv, JobInv, Sound, Staged, Wanted
    <2> QED
      BY <1>6, <2>1, <2>2 DEF vars, Inv, TypeOK, hostVars, toolVars, BinaryStarts
  <1> QED
    BY <1>1, <1>2, <1>3, <1>4, <1>5, <1>6 DEF Next

-----------------------------------------------------------------------------
\* Every variable keeps its type (the store's maps and files, the commands and
\* the rollout), whatever is published, asked for, cut off or started again.
THEOREM UpgradeTypeCorrect == Spec => []TypeOK
  <1>1. Inv => TypeOK
    BY DEF Inv
  <1> QED
    BY <1>1, InvInit, InvNext, PTL DEF Spec

\* A node's executable always runs there, for any number of nodes, builds and
\* commands that cut into one another: what is swapped in has been run, and
\* whoever interferes between the run and the swap does not touch the staged
\* file (Client.upgrade, runUpdate).
THEOREM BinaryAlwaysStarts == Spec => []BinaryStarts
  <1>1. Inv => BinaryStarts
    BY DEF Inv
  <1> QED
    BY <1>1, InvInit, InvNext, PTL DEF Spec

\* No step loses a tool's file, however many files a set has and however many
\* installs of it interleave (Client.installTool).
THEOREM ToolsStayRecoverable == Spec => ToolsRecoverable
  <1> DEFINE Has(n, c) == toolFile[n][c] # NoBuild \/ toolPrev[n][c] # NoBuild
  <1>1. ASSUME Inv, [Next]_vars, NEW n \in Node, NEW c \in Part, Has(n, c)
        PROVE  Has(n, c)'
    <2>1. ASSUME NEW j \in Job, NEW r \in Release, MoveAside(j, r)
          PROVE  Has(n, c)'
      BY <1>1, <2>1 DEF MoveAside, PrevAfter, Inv, TypeOK, Files
    <2>2. ASSUME NEW j \in Job, NEW r \in Release, MovePart(j, r)
          PROVE  Has(n, c)'
      <3> DEFINE b == incoming[job[j].node][r.part]
      <3>1. UNCHANGED toolPrev
        BY <2>2 DEF MovePart
      <3>2. CASE b = NoBuild
        BY <1>1, <2>2, <3>1, <3>2 DEF MovePart
      <3>3. CASE b # NoBuild
        <4>1. toolFile' = [toolFile EXCEPT ![job[j].node][r.part] = b]
          BY <2>2, <3>3 DEF MovePart
        <4> QED
          BY <1>1, <3>1, <3>3, <4>1 DEF Inv, TypeOK, Files
      <3> QED
        BY <3>2, <3>3
    <2>3. CASE UNCHANGED <<toolFile, toolPrev>>
      BY <1>1, <2>3
    <2> QED
      BY <1>1, <2>1, <2>2, <2>3
      DEF Next, Work, vars, toolVars, StoreStep, StartRollout, Answered, Confirmed, GiveUp,
          Crash, Start, CannotCall, Refuse, Fetch, Verify, DropPrev, LinkPrev, Swap, Exit,
          StagePart, Breaks, AskUpgrade, AskInstall, AskUpdate, CallNode
  <1>2. Inv /\ [Next]_vars =>
            [\A n \in Node, c \in Part :
                (toolFile[n][c] # NoBuild \/ toolPrev[n][c] # NoBuild)
                    => (toolFile'[n][c] # NoBuild \/ toolPrev'[n][c] # NoBuild)]_vars
    BY <1>1
  <1> QED
    BY <1>2, InvInit, InvNext, PTL DEF Spec, ToolsRecoverable

-----------------------------------------------------------------------------
(* What is listed can be fetched.                                          *)

\* r and x are of one tool on one platform, and only one machine publishes those.
SameSet(r, x) == r.tool = x.tool /\ r.platform = x.platform

OnePublisher ==
    \A p, q \in Publisher : \A f \in Publishes[p], g \in Publishes[q] :
        SameSet(f.rel, g.rel) => p = q

\* r's set has an entry more than was pruned for.
Busy(r) == \E p \in Publisher : upload[p].stage = "entered" /\ SameSet(upload[p].rel, r)

Fits(r) == Cardinality(Versions(Group(r))) <= KeepVersions

OwnInv ==
    \A p \in Publisher : upload[p].stage # "idle" =>
        \E f \in Publishes[p] : upload[p].rel = f.rel

\* An entry has its file, and so has one about to be made again: its set fits,
\* so that a pruning in between has nothing of it to remove.
StockInv ==
    /\ \A r \in Listed : file[r] # NoBuild /\ (Busy(r) \/ Fits(r))
    /\ \A p \in Publisher : upload[p].stage = "moved" => file[upload[p].rel] # NoBuild

FetchInv == OwnInv /\ (overstock \/ StockInv)

LEMMA VersionsFinite ==
    ASSUME NEW S, S \subseteq Release
    PROVE  IsFiniteSet(Versions(S)) /\ Cardinality(Versions(S)) \in Nat
  <1> DEFINE f == [x \in S |-> x.version]
  <1>1. IsFiniteSet(S)
    BY FS_Subset, ReleasesAssumption
  <1>2. f \in Surjection(S, Versions(S))
    BY DEF Versions, Surjection
  <1>3. IsFiniteSet(Versions(S))
    BY <1>1, <1>2, FS_Surjection
  <1> QED
    BY <1>3, FS_CardinalityType

LEMMA GroupFinite ==
    ASSUME NEW r
    PROVE  IsFiniteSet(Versions(Group(r))) /\ Cardinality(Versions(Group(r))) \in Nat
  <1>1. Group(r) \subseteq Release
    BY DEF Group, Listed
  <1> QED
    BY <1>1, VersionsFinite

LEMMA FetchInit == StoreInit => FetchInv
  <1> SUFFICES ASSUME StoreInit
               PROVE  FetchInv
    OBVIOUS
  <1>1. upload = [p \in Publisher |-> NoUpload]
    BY DEF StoreInit
  <1>2. OwnInv
    BY <1>1 DEF OwnInv, NoUpload
  <1>3. ASSUME ~overstock
        PROVE  StockInv
    <2>1. ASSUME NEW r \in Listed
          PROVE  file[r] # NoBuild /\ Fits(r)
      <3>1. file[r] # NoBuild
        BY DEF StoreInit, Listed
      <3>2. ~(Cardinality(Versions(Group(r))) > KeepVersions)
        BY <1>3 DEF StoreInit, Overstocked
      <3> QED
        BY <3>1, <3>2, GroupFinite, ReleasesAssumption DEF Fits
    <2> QED
      BY <1>1, <2>1 DEF StockInv, NoUpload
  <1> QED
    BY <1>2, <1>3 DEF FetchInv

\* A release that is published is of its publisher's sets.
LEMMA OwnNext ==
    ASSUME StoreInv, OwnInv, StoreNext
    PROVE  OwnInv'
  <1> USE DEF StoreInv, StoreTypeOK, OwnInv
  <1>1. CASE StoreRestart
    BY <1>1 DEF StoreRestart, NoUpload
  <1>2. ASSUME NEW p \in Publisher, MoveIn(p) \/ Enter(p) \/ Prune(p)
        PROVE  OwnInv'
    BY <1>2 DEF MoveIn, Enter, Prune, Step
  <1>3. ASSUME NEW p \in Publisher, WriteManifest(p)
        PROVE  OwnInv'
    BY <1>3 DEF WriteManifest, NoUpload
  <1>4. ASSUME NEW p \in Publisher, NEW f \in Publishes[p], Upload(p, f)
        PROVE  OwnInv'
    BY <1>4 DEF Upload
  <1> QED
    BY <1>1, <1>2, <1>3, <1>4 DEF StoreNext

\* Entering a release adds it to its set, which is busy from then on.
LEMMA EnterStock ==
    ASSUME StoreInv, OwnInv, StockInv, NEW p \in Publisher, Enter(p)
    PROVE  StockInv'
  <1> DEFINE e == upload[p].rel
  <1>1. e \in Release /\ file[e] # NoBuild
    BY ReleasesAssumption DEF OwnInv, StockInv, Enter
  <1>2. /\ \A q \in Publisher : upload'[q].rel = upload[q].rel
        /\ upload'[p].stage = "entered"
        /\ \A q \in Publisher \ {p} : upload'[q].stage = upload[q].stage
        /\ file' = file
    BY DEF Enter, Step, StoreInv, StoreTypeOK
  <1>3. \A x \in Release \ {e} : rels'[x] = rels[x]
    BY DEF Enter, StoreInv, StoreTypeOK, Index
  <1>4. ASSUME NEW r \in Listed'
        PROVE  file[r] # NoBuild /\ (Busy(r)' \/ Fits(r)')
    <2>1. r \in Release /\ (r # e => r \in Listed)
      BY <1>3, <1>4 DEF Listed
    <2>2. file[r] # NoBuild
      BY <1>1, <2>1 DEF StockInv
    <2>3. CASE SameSet(e, r)
      BY <1>2, <2>2, <2>3 DEF Busy
    <2>4. CASE ~SameSet(e, r)
      <3>1. r # e /\ r \in Listed
        BY <2>1, <2>4 DEF SameSet
      <3>2. Busy(r) => Busy(r)'
        <4>1. ASSUME NEW q \in Publisher, upload[q].stage = "entered", SameSet(upload[q].rel, r)
              PROVE  Busy(r)'
          <5>1. q # p
            BY <4>1 DEF Enter
          <5> QED
            BY <1>2, <4>1, <5>1 DEF Busy
        <4> QED
          BY <4>1 DEF Busy
      <3>3. Group(r)' = Group(r)
        BY <1>1, <1>3, <2>4 DEF Group, Listed, SameSet
      <3>4. Fits(r)' <=> Fits(r)
        BY <3>3 DEF Fits, Versions
      <3> QED
        BY <2>2, <3>1, <3>2, <3>4 DEF StockInv
    <2> QED
      BY <2>3, <2>4
  <1> QED
    BY <1>2, <1>4 DEF StockInv

\* What a pruning keeps of a set that fits is all of it.
LEMMA KeepsAll ==
    ASSUME NEW r \in Listed, Fits(r), NEW k \in Keepable(Group(r))
    PROVE  r.version \in k
  <1>1. IsFiniteSet(Versions(Group(r))) /\ Cardinality(Versions(Group(r))) \in Nat
    BY GroupFinite
  <1>2. k \subseteq Versions(Group(r)) /\ Cardinality(k) = Cardinality(Versions(Group(r)))
    BY <1>1, ReleasesAssumption DEF Keepable, Fits
  <1>3. k = Versions(Group(r))
    BY <1>1, <1>2, FS_Subset
  <1>4. r \in Group(r)
    BY DEF Group
  <1> QED
    BY <1>3, <1>4 DEF Versions

\* A pruning leaves every set fitting, and removes nothing that is about to be
\* entered.
LEMMA PruneStock ==
    ASSUME OnePublisher, StoreInv, OwnInv, StockInv, NEW p \in Publisher, Prune(p)
    PROVE  StockInv'
  <1>1. PICK K \in [{Group(r) : r \in Listed} -> SUBSET Versions(Listed)] :
            /\ \A S \in DOMAIN K : K[S] \in Keepable(S)
            /\ LET doomed == {r \in Listed : r.version \notin K[Group(r)]} IN
               /\ file' = [r \in Release |-> IF r \in doomed THEN NoBuild ELSE file[r]]
               /\ Unlist(doomed)
    BY DEF Prune
  <1> DEFINE doomed == {r \in Listed : r.version \notin K[Group(r)]}
  <1>2. /\ file' = [r \in Release |-> IF r \in doomed THEN NoBuild ELSE file[r]]
        /\ rels' = [r \in Release |-> IF r \in doomed THEN NoEntry ELSE rels[r]]
    BY <1>1 DEF Unlist
  <1>3. \A r \in Listed : K[Group(r)] \in Keepable(Group(r))
    BY <1>1
  <1>4. Listed' = Listed \ doomed
    BY <1>2 DEF Listed
  <1>5. ASSUME NEW r \in Listed \ doomed
        PROVE  file'[r] # NoBuild /\ Fits(r)'
    <2>1. file'[r] # NoBuild
      BY <1>2 DEF StockInv, Listed
    <2>2. Versions(Group(r))' \subseteq K[Group(r)]
      <3>1. ASSUME NEW x \in Group(r)'
            PROVE  x.version \in K[Group(r)]
        <4>1. x \in Listed \ doomed /\ x.tool = r.tool /\ x.platform = r.platform
          BY <1>4, <3>1 DEF Group
        <4>2. Group(x) = Group(r)
          BY <4>1 DEF Group
        <4> QED
          BY <4>1, <4>2
      <3> QED
        BY <3>1 DEF Versions
    <2>3. /\ IsFiniteSet(Versions(Group(r))) /\ Cardinality(Versions(Group(r))) \in Nat
      BY GroupFinite
    <2>4. /\ K[Group(r)] \subseteq Versions(Group(r))
          /\ Cardinality(K[Group(r)]) <= KeepVersions
      BY <1>3, <2>3, ReleasesAssumption DEF Keepable
    <2>5. IsFiniteSet(K[Group(r)]) /\ Cardinality(K[Group(r)]) \in Nat
      BY <2>3, <2>4, FS_Subset, FS_CardinalityType
    <2>6. /\ Cardinality(Versions(Group(r))') <= Cardinality(K[Group(r)])
          /\ Cardinality(Versions(Group(r))') \in Nat
      BY <2>2, <2>5, FS_Subset, FS_CardinalityType
    <2>7. KeepVersions \in Nat
      BY ReleasesAssumption
    <2>8. Cardinality(Versions(Group(r))') <= KeepVersions
      BY <2>4, <2>5, <2>6, <2>7
    <2> QED
      BY <2>1, <2>8 DEF Fits
  <1>6. ASSUME NEW q \in Publisher, upload'[q].stage = "moved"
        PROVE  file'[upload'[q].rel] # NoBuild
    <2>1. q # p /\ upload'[q] = upload[q]
      BY <1>6 DEF Prune, Step, StoreInv, StoreTypeOK
    <2> DEFINE e == upload[q].rel
    <2>2. e \in Release /\ file[e] # NoBuild
      BY <1>6, <2>1, ReleasesAssumption DEF OwnInv, StockInv
    <2>3. e \notin doomed
      <3>1. SUFFICES ASSUME e \in doomed
                     PROVE  FALSE
        OBVIOUS
      <3>2. CASE Busy(e)
        <4>1. PICK x \in Publisher : upload[x].stage = "entered" /\ SameSet(upload[x].rel, e)
          BY <3>2 DEF Busy
        <4>2. x = q
          BY <1>6, <2>1, <4>1 DEF OnePublisher, OwnInv
        <4> QED
          BY <1>6, <2>1, <4>1, <4>2
      <3>3. CASE Fits(e)
        BY <1>3, <3>1, <3>3, KeepsAll
      <3> QED
        BY <3>1, <3>2, <3>3 DEF StockInv
    <2> QED
      BY <1>2, <2>1, <2>2, <2>3
  <1> QED
    BY <1>4, <1>5, <1>6 DEF StockInv

\* A start drops what has no file, and takes note of what prune would not keep.
LEMMA RestartStock ==
    ASSUME StoreRestart, ~overstock'
    PROVE  StockInv'
  <1>1. rels' = Load(manifest) /\ file' = file /\ upload' = [p \in Publisher |-> NoUpload]
    BY DEF StoreRestart
  <1>2. ASSUME NEW r \in Listed'
        PROVE  file'[r] # NoBuild /\ Fits(r)'
    <2>1. file'[r] # NoBuild
      BY <1>1, <1>2 DEF Listed, Load
    <2>2. ~(Cardinality(Versions(Group(r)))' > KeepVersions)
      BY <1>2 DEF StoreRestart, Overstocked
    <2>3. Cardinality(Versions(Group(r)))' \in Nat
      <3>1. Group(r)' \subseteq Release
        BY DEF Group, Listed
      <3>2. Cardinality(Versions(Group(r)')) \in Nat
        BY <3>1, VersionsFinite
      <3> QED
        BY <3>2 DEF Versions
    <2> QED
      BY <2>1, <2>2, <2>3, ReleasesAssumption DEF Fits
  <1> QED
    BY <1>1, <1>2 DEF StockInv, NoUpload

\* The other steps of a publication change no entry.
LEMMA QuietStock ==
    ASSUME StoreInv, OwnInv, StockInv, NEW p \in Publisher,
           \/ MoveIn(p) \/ WriteManifest(p)
           \/ \E f \in Publishes[p] : Upload(p, f)
    PROVE  StockInv'
  <1>1. rels' = rels
    BY DEF MoveIn, WriteManifest, Upload
  <1>2. \A q \in Publisher \ {p} : upload'[q] = upload[q]
    BY DEF MoveIn, WriteManifest, Upload, Step, StoreInv, StoreTypeOK
  <1>3. upload[p].stage # "entered"
    BY DEF MoveIn, WriteManifest, Upload, NoUpload
  <1>4. \A r \in Release : file[r] # NoBuild => file'[r] # NoBuild
    <2>1. CASE MoveIn(p)
      <3>1. upload[p].sum # NoBuild
        BY <2>1, ReleasesAssumption DEF MoveIn, StoreInv, UploadInv
      <3> QED
        BY <2>1, <3>1 DEF MoveIn, StoreInv, StoreTypeOK
    <2> QED
      BY <2>1 DEF WriteManifest, Upload
  <1>5. Listed' = Listed /\ \A r : Group(r)' = Group(r)
    BY <1>1 DEF Listed, Group
  <1>6. \A r \in Listed : file'[r] # NoBuild
    BY <1>4 DEF StockInv, Listed
  <1>7. ASSUME NEW r \in Listed
        PROVE  Busy(r)' \/ Fits(r)'
    <2>1. Busy(r) => Busy(r)'
      BY <1>2, <1>3 DEF Busy
    <2>2. Fits(r) => Fits(r)'
      BY <1>5 DEF Fits, Versions
    <2> QED
      BY <2>1, <2>2 DEF StockInv
  <1>8. ASSUME NEW q \in Publisher, upload'[q].stage = "moved"
        PROVE  file'[upload'[q].rel] # NoBuild
    <2>1. CASE q # p
      <3>1. upload[q].rel \in Release /\ file[upload[q].rel] # NoBuild
        BY <1>2, <1>8, <2>1, ReleasesAssumption DEF OwnInv, StockInv
      <3> QED
        BY <1>2, <1>4, <2>1, <3>1
    <2>2. CASE q = p
      <3>1. MoveIn(p)
        BY <1>8, <2>2 DEF WriteManifest, Upload, NoUpload, StoreInv, StoreTypeOK
      <3>2. upload[p].rel \in Release
        BY <3>1, ReleasesAssumption DEF MoveIn, OwnInv
      <3>3. upload[p].sum # NoBuild
        BY <3>1, ReleasesAssumption DEF MoveIn, StoreInv, UploadInv
      <3>4. upload'[p].rel = upload[p].rel
        BY <3>1 DEF MoveIn, Step, StoreInv, StoreTypeOK
      <3> QED
        BY <2>2, <3>1, <3>2, <3>3, <3>4 DEF MoveIn, StoreInv, StoreTypeOK
    <2> QED
      BY <2>1, <2>2
  <1> QED
    BY <1>5, <1>6, <1>7, <1>8 DEF StockInv

LEMMA FetchNext ==
    ASSUME OnePublisher, StoreInv, FetchInv, StoreNext
    PROVE  FetchInv'
  <1>1. OwnInv'
    BY OwnNext DEF FetchInv
  <1>2. ASSUME ~overstock'
        PROVE  StockInv'
    <2>1. CASE StoreRestart
      BY <1>2, <2>1, RestartStock
    <2>2. CASE ~StoreRestart
      <3>1. PICK p \in Publisher : \/ MoveIn(p) \/ Enter(p) \/ Prune(p) \/ WriteManifest(p)
                                   \/ \E f \in Publishes[p] : Upload(p, f)
        BY <2>2 DEF StoreNext
      <3>2. overstock' = overstock
        BY <3>1 DEF MoveIn, Enter, Prune, WriteManifest, Upload
      <3>3. OwnInv /\ StockInv
        BY <1>2, <3>2 DEF FetchInv
      <3> QED
        BY <3>1, <3>3, EnterStock, PruneStock, QuietStock
    <2> QED
      BY <2>1, <2>2
  <1> QED
    BY <1>1, <1>2 DEF FetchInv

\* The hosts, the commands and the rollout read the store and leave it alone.
LEMMA StoreIsRead ==
    ASSUME [Next]_vars, ~StoreStep
    PROVE  UNCHANGED storeVars
  <1>1. CASE UNCHANGED vars
    BY <1>1 DEF vars
  <1>2. CASE StartRollout \/ Answered \/ Confirmed \/ GiveUp
    BY <1>2 DEF StartRollout, Answered, Confirmed, GiveUp
  <1>3. ASSUME NEW n \in Node, Crash(n) \/ Start(n) \/ CannotCall(n)
        PROVE  UNCHANGED storeVars
    BY <1>3 DEF Crash, Start, CannotCall
  <1>4. ASSUME NEW j \in Job, Work(j) \/ Breaks(j)
        PROVE  UNCHANGED storeVars
    <2>1. CASE Refuse(j) \/ Fetch(j) \/ Verify(j) \/ Breaks(j)
      BY <2>1 DEF Refuse, Fetch, Verify, Breaks
    <2>2. CASE DropPrev(j) \/ LinkPrev(j) \/ Swap(j) \/ Exit(j)
      BY <2>2 DEF DropPrev, LinkPrev, Swap, Exit
    <2>3. ASSUME NEW r \in Release, StagePart(j, r) \/ MoveAside(j, r) \/ MovePart(j, r)
          PROVE  UNCHANGED storeVars
      BY <2>3 DEF StagePart, MoveAside, MovePart
    <2> QED
      BY <1>4, <2>1, <2>2, <2>3 DEF Work
  <1>5. ASSUME NEW j \in Job, NEW n \in Node,
               AskUpgrade(j, n) \/ AskInstall(j, n) \/ AskUpdate(j, n) \/ CallNode(j, n)
        PROVE  UNCHANGED storeVars
    BY <1>5 DEF AskUpgrade, AskInstall, AskUpdate, CallNode
  <1> QED
    BY <1>1, <1>2, <1>3, <1>4, <1>5 DEF Next

\* For any releases, publishers and restarts: where one machine publishes a
\* tool for a platform and no start loads more than prune keeps, every release
\* that is listed has its file (PublishComponent, prune and load).
THEOREM ListedIsThere ==
    ASSUME OnePublisher
    PROVE  Spec => []ListedIsFetchable
  <1>1. Init => FetchInv
    BY FetchInit DEF Init
  <1>2. Inv /\ FetchInv /\ [Next]_vars => FetchInv'
    <2> SUFFICES ASSUME Inv, FetchInv, [Next]_vars
                 PROVE  FetchInv'
      OBVIOUS
    <2>1. CASE StoreStep
      BY <2>1, FetchNext DEF StoreStep, StoreInv, Inv, TypeOK
    <2>2. CASE ~StoreStep
      <3>1. UNCHANGED storeVars
        BY <2>2, StoreIsRead
      <3>2. Listed' = Listed /\ \A r : Group(r)' = Group(r)
        BY <3>1 DEF storeVars, Listed, Group
      <3> QED
        BY <3>1, <3>2 DEF storeVars, FetchInv, OwnInv, StockInv, Busy, Fits, Versions
    <2> QED
      BY <2>1, <2>2
  <1>3. FetchInv => ListedIsFetchable
    BY DEF FetchInv, StockInv, ListedIsFetchable
  <1> QED
    BY <1>1, <1>2, <1>3, InvInit, InvNext, PTL DEF Spec
=============================================================================
