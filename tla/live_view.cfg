CONSTANTS
    n1 = n1
    n2 = n2
    b1 = b1
    Late = Late
    Node = {n1, n2}
    Browser = {b1}
    Shown <- Asking
    Changing = {n1}
    MaxChanges = 1
    MaxFaults = 1
SPECIFICATION Spec
INVARIANT IdleScreenIsCurrent
PROPERTY OnlyItsProjectResolves
PROPERTY RaisedOncePerRepeat
PROPERTY PromptIsRaised
