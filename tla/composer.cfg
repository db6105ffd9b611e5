CONSTANTS
    j1 = j1
    j2 = j2
    Job = {j1, j2}
    Kind = {"deliver", "send", "remote"}
    Drafts <- Started
    RowWords = 1
    MaxEvents = 1
SYMMETRY Symmetry
SPECIFICATION ComposerSpec
INVARIANT SeenIsSubmitted
INVARIANT NudgeKeepsDraft
CHECK_DEADLOCK FALSE
