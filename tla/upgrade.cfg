SPECIFICATION Spec
CONSTANTS
    n1 = n1
    n2 = n2
    p1 = p1
    p2 = p2
    Node = {n1}
    Publisher = {p1, p2}
    Job = {j1, j2}
    Release <- MCRelease
    Own = ""
    Tool = "rec"
    Build <- MCBuild
    First <- MCFirst
    GitHub <- MCGitHub
    Publishes <- MCPublishes
    Platform <- MCPlatform
    Shelf <- MCShelf
    KeepVersions = 1
    MaxTime = 1
    MaxFaults = 1
    MaxAsks = 3
    NoBuild = NoBuild
    NoRelease = NoRelease
    NoNode = NoNode
    NoJobId = NoJobId
    NoVersion = NoVersion
INVARIANT ListedIsFetchable
INVARIANT BinaryStarts
PROPERTY ToolsRecoverable
PROPERTY NodeComesBack
CHECK_DEADLOCK FALSE
