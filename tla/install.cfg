CONSTANTS
    File = {"skill"}
    Build = {1, 2}
    Made <- MadeThen
    Base <- BaseTexts
    Overlay <- OverlayTexts
    FirstText = 10
    Conf = {1, 2}
    Label = {h1, h2}
    Plan <- Plans
    Removal <- Removals
    MaxRuns = 2
    MaxHand = 1
    MaxFaults = 1
    MaxTime = 2
SPECIFICATION Spec
INVARIANT ServiceIsCurrent
INVARIANT RerunChangesNothing
INVARIANT ReplacedIsBackedUp
INVARIANT UninstallIsComplete
CHECK_DEADLOCK FALSE
SYMMETRY LabelSymmetry
