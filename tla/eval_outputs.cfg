SPECIFICATION Spec
CONSTANTS
    w1 = w1
    w2 = w2
    w3 = w3
    s1 = s1
    s2 = s2
    good = good
    bad = bad
    Workers = {w1, w2}
    Sessions = {s1, s2}
    SessionOf <- Processes
    Keys = {good, bad}
    Configs <- TwoBuilds
    Drift = TRUE
    Output <- TwoOutputs
    Modes = {"cached"}
    MaxTransients = 0
    MaxDamage = 0
    MaxClears = 0
INVARIANTS
    OutputsAreCorrect
