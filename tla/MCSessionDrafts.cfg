CONSTANTS
    w1 = w1  w2 = w2
    Window = {w1, w2}
    None = None
    Failed = Failed
    MaxTexts = 3
    MaxFaults = 1
    MaxSaves = 2
    MaxOpens = 1
SPECIFICATION Spec
SYMMETRY MCSymmetry
INVARIANTS ReportedIsStored
PROPERTIES LateSavesYield
CHECK_DEADLOCK FALSE
