------------------------------ MODULE Releases ------------------------------
(***************************************************************************)
(* The coordinator's published builds (src/hub/release.go): files in a     *)
(* directory, an index in memory and a manifest that outlives a restart.   *)
(* A release is one file of one tool's set: this program is the set of one *)
(* whose tool is Own.  Publishing moves the file in, enters it, prunes old *)
(* versions and rewrites the manifest, each a step of its own; a build's   *)
(* checksum names it, so the sum is the build.                             *)
(***************************************************************************)
EXTENDS Naturals, FiniteSets

CONSTANTS
    Release,        \* records [tool, part, version, platform]: what can be published
    Own,            \* the tool that is this program
    Build,          \* records [version, runs]: what a file holds, named by its sum
    Publisher,      \* uploads under way at once
    Publishes,      \* Publishes[p]: the files p uploads, as [rel, sum]
    Shelf,          \* what is published at the start, the same way
    KeepVersions,
    MaxAsks,        \* bound on what people ask for: uploads here
    MaxTime,        \* bound on the clock, in seconds
    MaxFaults,
    NoBuild, NoRelease

ASSUME ReleasesAssumption ==
    /\ Publishes \in [Publisher -> SUBSET [rel : Release, sum : Build]]
    /\ Shelf \in SUBSET [rel : Release, sum : Build]
    /\ IsFiniteSet(Release) /\ NoBuild \notin Build
    /\ MaxAsks \in Nat
    /\ KeepVersions \in Nat \ {0}
    /\ MaxTime \in Nat /\ MaxFaults \in Nat

VARIABLES
    clock,
    file,       \* file[r]: what is on disk under r's name
    rels,       \* ReleaseStore.rels: the sum and the time of each entry
    manifest,   \* manifest.json, as it would be read at a start
    upload,     \* upload[p]: how far PublishComponent has come
    overstock,  \* history: a start has loaded more versions than prune keeps
    asks,
    faults

storeVars == <<clock, file, rels, manifest, upload, overstock>>

Entry == [sum : Build, at : 0..MaxTime]
NoEntry == [sum |-> NoBuild, at |-> 0]
Index == [Release -> Entry \cup {NoEntry}]

NoUpload == [stage |-> "idle", rel |-> NoRelease, sum |-> NoBuild, at |-> 0]

Stages == {"idle", "staged", "moved", "entered", "pruned"}

StoreTypeOK ==
    /\ clock \in 0..MaxTime
    /\ file \in [Release -> Build \cup {NoBuild}]
    /\ rels \in Index
    /\ manifest \in Index
    /\ overstock \in BOOLEAN
    /\ asks \in 0..MaxAsks
    /\ upload \in [Publisher -> [stage : Stages, rel : Release \cup {NoRelease},
                                 sum : Build \cup {NoBuild}, at : 0..MaxTime]]

Listed == {r \in Release : rels[r] # NoEntry}

\* The entries of one tool on one platform: what prune counts by.
Group(r) == {x \in Listed : x.tool = r.tool /\ x.platform = r.platform}

Versions(S) == {x.version : x \in S}

\* A tool with more versions than prune keeps.
Overstocked == \E r \in Listed : Cardinality(Versions(Group(r))) > KeepVersions

Shelved(r) == {f.sum : f \in {x \in Shelf : x.rel = r}}

StoreInit ==
    /\ clock = 0
    /\ file = [r \in Release |-> IF Shelved(r) = {} THEN NoBuild ELSE CHOOSE b \in Shelved(r) : TRUE]
    /\ rels = [r \in Release |-> IF file[r] = NoBuild THEN NoEntry ELSE [sum |-> file[r], at |-> 0]]
    /\ manifest = rels
    /\ upload = [p \in Publisher |-> NoUpload]
    /\ overstock = Overstocked
    /\ asks = 0

Ask == asks < MaxAsks /\ asks' = asks + 1

Fault == faults < MaxFaults /\ faults' = faults + 1

Step(p, stage) == upload' = [upload EXCEPT ![p].stage = stage]

\* The body is copied to a temporary file of its own and summed; an empty or
\* broken upload leaves nothing.  The version and the platform are what the
\* caller says: `publish` asks the file, and `--version` overrides it.  Time
\* is in seconds: two uploads may have the same.
Upload(p, f) ==
    /\ upload[p] = NoUpload
    /\ Ask
    /\ f \in Publishes[p]
    /\ clock' \in {clock, clock + 1} /\ clock' <= MaxTime
    /\ upload' = [upload EXCEPT ![p] = [stage |-> "staged", rel |-> f.rel, sum |-> f.sum,
                                       at |-> clock']]
    /\ UNCHANGED <<file, rels, manifest, overstock, faults>>

\* os.Rename of the temporary file.
MoveIn(p) ==
    /\ upload[p].stage = "staged"
    /\ file' = [file EXCEPT ![upload[p].rel] = upload[p].sum]
    /\ Step(p, "moved")
    /\ UNCHANGED <<clock, rels, manifest, overstock, asks, faults>>

Enter(p) ==
    /\ upload[p].stage = "moved"
    /\ rels' = [rels EXCEPT ![upload[p].rel] = [sum |-> upload[p].sum, at |-> upload[p].at]]
    /\ Step(p, "entered")
    /\ UNCHANGED <<clock, file, manifest, overstock, asks, faults>>

\* x's version is as new as y's: by the newest file of each.
AsNew(S, v, w) ==
    \A y \in S : y.version = w =>
        \E x \in S : x.version = v /\ rels[x].at >= rels[y].at

\* What prune may keep of a group: the newest versions, ties at will.
Keepable(S) ==
    {K \in SUBSET Versions(S) :
        /\ Cardinality(K) = IF Cardinality(Versions(S)) < KeepVersions
                            THEN Cardinality(Versions(S)) ELSE KeepVersions
        /\ \A v \in K, w \in Versions(S) \ K : AsNew(S, v, w)}

\* (The fault: a doomed file is removed, its entry is not.)
UnlistNot(doomed) == UNCHANGED rels

Unlist(doomed) == rels' = [r \in Release |-> IF r \in doomed THEN NoEntry ELSE rels[r]]

\* ReleaseStore.prune, under the lock: the files first, then the entries.
Prune(p) ==
    /\ upload[p].stage = "entered"
    /\ \E K \in [{Group(r) : r \in Listed} -> SUBSET Versions(Listed)] :
          /\ \A S \in DOMAIN K : K[S] \in Keepable(S)
          /\ LET doomed == {r \in Listed : r.version \notin K[Group(r)]} IN
             /\ file' = [r \in Release |-> IF r \in doomed THEN NoBuild ELSE file[r]]
             /\ Unlist(doomed)
    /\ Step(p, "pruned")
    /\ UNCHANGED <<clock, manifest, overstock, asks, faults>>

\* writeManifest: List, then a rename.  (Two publishers that list and rename
\* the other way round are left out: one takes the list and renames at once.)
WriteManifest(p) ==
    /\ upload[p].stage = "pruned"
    /\ manifest' = rels
    /\ upload' = [upload EXCEPT ![p] = NoUpload]
    /\ UNCHANGED <<clock, file, rels, overstock, asks, faults>>

\* OpenReleaseStore's load: the manifest's entries whose file is there.
Load(m) == [r \in Release |-> IF file[r] = NoBuild THEN NoEntry ELSE m[r]]

\* The coordinator restarts: uploads are gone, what they moved in is not.
StoreRestart ==
    /\ Fault
    /\ rels' = Load(manifest)
    /\ overstock' = (overstock \/ Overstocked')
    /\ upload' = [p \in Publisher |-> NoUpload]
    /\ UNCHANGED <<clock, file, manifest, asks>>

StoreNext ==
    \/ StoreRestart
    \/ \E p \in Publisher : MoveIn(p) \/ Enter(p) \/ Prune(p) \/ WriteManifest(p)
    \/ \E p \in Publisher : \E f \in Publishes[p] : Upload(p, f)

-----------------------------------------------------------------------------
(* What a request is answered from.                                        *)

Newest(S) == {r \in S : \A x \in S : rels[x].at <= rels[r].at}

\* ReleaseStore.Latest looks at the platform only, whatever the tool.
Latest(platform) == Newest({r \in Listed : r.platform = platform})

\* ReleaseStore.Get: this program's file of a version.
Get(version, platform) ==
    {r \in Listed : r.tool = Own /\ r.version = version /\ r.platform = platform}

\* ReleaseStore.ToolSet: every file of the tool's newest version there is.
ToolSet(tool, platform) ==
    LET mine == {r \in Listed : r.tool = tool /\ r.platform = platform} IN
    {{x \in mine : x.version = r.version} : r \in Newest(mine)}

-----------------------------------------------------------------------------
\* What the coordinator lists, a node can fetch: every entry has its file,
\* whichever uploads, prunings and restarts cut into one another
\* (PublishComponent moves the file in before it enters it, prune removes it
\* before it forgets it, a start drops what has no file).  It takes that one
\* machine publishes a tool for a platform, and that no restart came between a
\* publication and its pruning: the pruning of another publication may then
\* remove what was moved in again and is not entered yet.
ListedIsFetchable == overstock \/ \A r \in Listed : file[r] # NoBuild
=============================================================================
