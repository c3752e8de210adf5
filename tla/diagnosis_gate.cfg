SPECIFICATION Spec
CONSTANTS
    r1 = r1
    r2 = r2
    i1 = i1
    i2 = i2
    Runs <- TwoRuns
    Stamps <- TwoStamps
    Ratios <- AllRatios
    MinSpeedup = 105
    MaxCleans = 1
SYMMETRY Symmetry
CHECK_DEADLOCK FALSE
INVARIANTS
    GateTrustsConfirmation
