CONSTANTS
    core = core
    d1 = d1
    d2 = d2
    o1 = o1
    NoDir = NoDir
    Dir = {core, d1}
    Core = core
    Listed = {d1}
    Operator = {o1}
    MaxEnds = 1
    MaxAsks = 2
    MaxLosses = 1
    MaxCuts = 1
SPECIFICATION WindowsSpec
PROPERTY LaunchFailureIsNotClose
PROPERTY LostTmuxClosesNothing
PROPERTY CoreComesBack
