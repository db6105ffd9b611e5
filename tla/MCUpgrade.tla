----------------------------- MODULE MCUpgrade -----------------------------
EXTENDS Upgrade

CONSTANTS n1, n2, p1, p2

Rel(tool, part, v) == [tool |-> tool, part |-> part, version |-> v, platform |-> "linux"]

\* Two versions of this program, and two of another tool's set of two files.
Ours(v) == Rel("", 0, v)
MCRelease == {Ours("v1"), Ours("v2")} \cup {Rel("rec", c, v) : c \in {1, 2}, v \in {"v1", "v2"}}

Runs(v) == [version |-> v, runs |-> TRUE]
Broken == [version |-> "v2", runs |-> FALSE]
MCBuild == {Runs("v1"), Runs("v2"), Broken}

MCFirst == Runs("v1")
MCGitHub == Runs("v2")

File(r, b) == [rel |-> r, sum |-> b]

MCShelf == {File(Ours("v1"), Runs("v1")), File(Rel("rec", 1, "v1"), Runs("v1")),
            File(Rel("rec", 2, "v1"), Runs("v1"))}

\* One machine publishes this program, another the tool.
MCPublishes == [p \in Publisher |->
    IF p = p1 THEN {File(Ours("v2"), Runs("v2")), File(Ours("v2"), Broken)}
    ELSE {File(Rel("rec", c, "v2"), Runs("v2")) : c \in {1, 2}}]

MCPlatform == [n \in Node |-> "linux"]
=============================================================================
